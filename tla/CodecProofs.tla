----------------------------- MODULE CodecProofs -----------------------------
(***************************************************************************)
(* Proofs about Codec and GeneratedMessages: a size is the number of bytes *)
(* written, what arrived whole is restored, also by way of a reader of     *)
(* another class, and what was cut is never misread, for all the strings   *)
(* and numbers the fields' types have.                                     *)
(*                                                                         *)
(* A stream is seen as a sequence of items, one for each field written.    *)
(* The proof goes from varints (the groups of seven bits, how many there   *)
(* are, and what is read where one may be cut) to items and streams, then  *)
(* to the five classes, whose functions are all reduced to the same        *)
(* statements about the tags of their fields, and to the loop of a parse.  *)
(* Sound is inductive: without the items of the stream nothing follows for *)
(* what a read makes of it.                                                *)
(***************************************************************************)
EXTENDS Codec, SequenceTheorems, WellFoundedInduction, TLAPS

-----------------------------------------------------------------------------
(* Varints.                                                                 *)

\* The number without its last one, two, three and four groups of seven bits.
Q1(v) == v \div 128
Q2(v) == Q1(v) \div 128
Q3(v) == Q2(v) \div 128
Q4(v) == Q3(v) \div 128

LEMMA Divided == \A u \in Int : /\ u \div 128 \in Int /\ u % 128 \in 0..127
                                /\ u = 128 * (u \div 128) + (u % 128)
BY SMT

LEMMA QuotientsAreInts == ASSUME NEW v \in Int
                          PROVE  Q1(v) \in Int /\ Q2(v) \in Int /\ Q3(v) \in Int /\ Q4(v) \in Int
BY Divided, ZenonT(40) DEF Q1, Q2, Q3, Q4

\* The first quotients of a number of 32 bits.
LEMMA LastQuotient == ASSUME NEW v \in int32
                      PROVE  /\ v \in Int
                             /\ v < 0 => Q4(v) \in -8..-1
                             /\ v >= 0 => Q1(v) >= 0 /\ Q2(v) >= 0 /\ Q3(v) >= 0 /\ Q4(v) \in 0..7
<1>1. v \in Int /\ -2147483647 - 1 <= v /\ v <= 2147483647
  BY SMT DEF int32
<1>2. Q1(v) \in Int /\ Q2(v) \in Int /\ Q3(v) \in Int /\ Q4(v) \in Int
  BY <1>1, QuotientsAreInts, SMT
<1>3. -16777216 <= Q1(v) /\ Q1(v) <= 16777215
  BY <1>1, SMT DEF Q1
<1>4. -131072 <= Q2(v) /\ Q2(v) <= 131071
  BY <1>2, <1>3, SMT DEF Q2
<1>5. -1024 <= Q3(v) /\ Q3(v) <= 1023
  BY <1>2, <1>4, SMT DEF Q3
<1>6. -8 <= Q4(v) /\ Q4(v) <= 7
  BY <1>2, <1>5, SMT DEF Q4
<1>7. CASE v < 0
  <2>1. Q1(v) < 0
    BY <1>1, <1>7, SMT DEF Q1
  <2>2. Q2(v) < 0
    BY <1>2, <2>1, SMT DEF Q2
  <2>3. Q3(v) < 0
    BY <1>2, <2>2, SMT DEF Q3
  <2>4. Q4(v) < 0
    BY <1>2, <2>3, SMT DEF Q4
  <2> QED
    BY <1>1, <1>2, <1>6, <1>7, <2>4, SMT
<1>8. CASE v >= 0
  <2>1. Q1(v) >= 0
    BY <1>1, <1>8, SMT DEF Q1
  <2>2. Q2(v) >= 0
    BY <1>2, <2>1, SMT DEF Q2
  <2>3. Q3(v) >= 0
    BY <1>2, <2>2, SMT DEF Q3
  <2>4. Q4(v) >= 0
    BY <1>2, <2>3, SMT DEF Q4
  <2> QED
    BY <1>1, <1>2, <1>6, <1>8, <2>1, <2>2, <2>3, <2>4, SMT
<1> QED
  BY <1>1, <1>7, <1>8, SMT

\* The quotients Groups is defined by.
LEMMA Quotients ==
  ASSUME NEW v \in Int
  PROVE  \E r : r = [i \in 0..9 |-> IF i = 0 THEN v ELSE r[i-1] \div 128]
<1>1. PICK q1 \in Int : q1 = v \div 128
  OBVIOUS
<1>2. PICK q2 \in Int, q3 \in Int, q4 \in Int : q2 = q1 \div 128 /\ q3 = q2 \div 128
      /\ q4 = q3 \div 128
  OBVIOUS
<1>3. PICK q5 \in Int, q6 \in Int, q7 \in Int : q5 = q4 \div 128 /\ q6 = q5 \div 128
      /\ q7 = q6 \div 128
  OBVIOUS
<1>4. PICK q8 \in Int, q9 \in Int : q8 = q7 \div 128 /\ q9 = q8 \div 128
  OBVIOUS
<1> DEFINE r == [i \in 0..9 |-> CASE i = 0 -> v [] i = 1 -> q1 [] i = 2 -> q2 [] i = 3 -> q3
                                  [] i = 4 -> q4 [] i = 5 -> q5 [] i = 6 -> q6 [] i = 7 -> q7
                                  [] i = 8 -> q8 [] i = 9 -> q9]
           next == [i \in 0..9 |-> IF i = 0 THEN v ELSE r[i-1] \div 128]
<1>5. ASSUME NEW i \in 0..9 PROVE r[i] = next[i]
  <2>1. /\ r[0] = v /\ r[1] = q1 /\ r[2] = q2 /\ r[3] = q3 /\ r[4] = q4
        /\ r[5] = q5 /\ r[6] = q6 /\ r[7] = q7 /\ r[8] = q8 /\ r[9] = q9
    OBVIOUS
  <2>2. next[i] = IF i = 0 THEN v ELSE r[i-1] \div 128
    BY Zenon
  <2> HIDE DEF r, next
  <2>3. /\ r[1] = r[0] \div 128 /\ r[2] = r[1] \div 128 /\ r[3] = r[2] \div 128
        /\ r[4] = r[3] \div 128 /\ r[5] = r[4] \div 128 /\ r[6] = r[5] \div 128
        /\ r[7] = r[6] \div 128 /\ r[8] = r[7] \div 128 /\ r[9] = r[8] \div 128
    BY <1>1, <1>2, <1>3, <1>4, <2>1, ZenonT(40)
  <2>4. i \in {0, 1, 2, 3, 4, 5, 6, 7, 8, 9}
    OBVIOUS
  <2>5. CASE i = 0
    BY <2>1, <2>2, <2>5, SMT
  <2>6. CASE i = 1
    <3>1. r[1] = r[0] \div 128
      BY <2>3, Zenon
    <3>2. next[i] = r[0] \div 128
      BY <2>2, <2>6, SMT
    <3> QED
      BY <2>6, <3>1, <3>2, Zenon
  <2>7. CASE i = 2
    <3>1. r[2] = r[1] \div 128
      BY <2>3, Zenon
    <3>2. next[i] = r[1] \div 128
      BY <2>2, <2>7, SMT
    <3> QED
      BY <2>7, <3>1, <3>2, Zenon
  <2>8. CASE i = 3
    <3>1. r[3] = r[2] \div 128
      BY <2>3, Zenon
    <3>2. next[i] = r[2] \div 128
      BY <2>2, <2>8, SMT
    <3> QED
      BY <2>8, <3>1, <3>2, Zenon
  <2>9. CASE i = 4
    <3>1. r[4] = r[3] \div 128
      BY <2>3, Zenon
    <3>2. next[i] = r[3] \div 128
      BY <2>2, <2>9, SMT
    <3> QED
      BY <2>9, <3>1, <3>2, Zenon
  <2>10. CASE i = 5
    <3>1. r[5] = r[4] \div 128
      BY <2>3, Zenon
    <3>2. next[i] = r[4] \div 128
      BY <2>2, <2>10, SMT
    <3> QED
      BY <2>10, <3>1, <3>2, Zenon
  <2>11. CASE i = 6
    <3>1. r[6] = r[5] \div 128
      BY <2>3, Zenon
    <3>2. next[i] = r[5] \div 128
      BY <2>2, <2>11, SMT
    <3> QED
      BY <2>11, <3>1, <3>2, Zenon
  <2>12. CASE i = 7
    <3>1. r[7] = r[6] \div 128
      BY <2>3, Zenon
    <3>2. next[i] = r[6] \div 128
      BY <2>2, <2>12, SMT
    <3> QED
      BY <2>12, <3>1, <3>2, Zenon
  <2>13. CASE i = 8
    <3>1. r[8] = r[7] \div 128
      BY <2>3, Zenon
    <3>2. next[i] = r[7] \div 128
      BY <2>2, <2>13, SMT
    <3> QED
      BY <2>13, <3>1, <3>2, Zenon
  <2>14. CASE i = 9
    <3>1. r[9] = r[8] \div 128
      BY <2>3, Zenon
    <3>2. next[i] = r[8] \div 128
      BY <2>2, <2>14, SMT
    <3> QED
      BY <2>14, <3>1, <3>2, Zenon
  <2> QED
    BY <2>4, <2>5, <2>6, <2>7, <2>8, <2>9, <2>10, <2>11, <2>12, <2>13, <2>14, Zenon
<1>6. r = next
  BY <1>5, Zenon
<1> QED
  BY <1>6, Zenon

LEMMA NoneOfNone == 0 \div 128 = 0 /\ 0 % 128 = 0
BY SMT

\* The groups of seven bits of a number.
LEMMA GroupsAre ==
  ASSUME NEW v \in Int
  PROVE  /\ Groups(v) \in [1..10 -> 0..127]
         /\ Groups(v)[1] = v % 128
         /\ Groups(v)[2] = Q1(v) % 128
         /\ Groups(v)[3] = Q2(v) % 128
         /\ Groups(v)[4] = Q3(v) % 128
         /\ Groups(v)[5] = Q4(v) % 128
         /\ Groups(v)[10] = IF v < 0 THEN 1 ELSE 0
         /\ Q4(v) \in 0..127 /\ v >= 0 => \A i \in 6..10 : Groups(v)[i] = 0
<1> DEFINE rest == CHOOSE r : r = [i \in 0..9 |-> IF i = 0 THEN v ELSE r[i-1] \div 128]
<1>1. Groups(v) = [i \in 1..10 |-> IF i = 10 THEN (IF v < 0 THEN 1 ELSE 0) ELSE rest[i-1] % 128]
  BY SMT DEF Groups
<1>2. rest = [i \in 0..9 |-> IF i = 0 THEN v ELSE rest[i-1] \div 128]
  BY Quotients, Zenon
<1> HIDE DEF rest
<1>3. /\ rest[0] = v
      /\ rest[1] = rest[0] \div 128 /\ rest[2] = rest[1] \div 128 /\ rest[3] = rest[2] \div 128
      /\ rest[4] = rest[3] \div 128 /\ rest[5] = rest[4] \div 128 /\ rest[6] = rest[5] \div 128
      /\ rest[7] = rest[6] \div 128 /\ rest[8] = rest[7] \div 128 /\ rest[9] = rest[8] \div 128
  BY <1>2, SMT
<1>4. \A i \in 0..9 : rest[i] \in Int
  <2>1. rest[0] \in Int
    BY <1>3, Zenon
  <2>2. rest[1] \in Int
    <3>1. rest[1] = rest[0] \div 128
      BY <1>3, Zenon
    <3> QED
      BY <2>1, <3>1, SMT
  <2>3. rest[2] \in Int
    <3>1. rest[2] = rest[1] \div 128
      BY <1>3, Zenon
    <3> QED
      BY <2>2, <3>1, SMT
  <2>4. rest[3] \in Int
    <3>1. rest[3] = rest[2] \div 128
      BY <1>3, Zenon
    <3> QED
      BY <2>3, <3>1, SMT
  <2>5. rest[4] \in Int
    <3>1. rest[4] = rest[3] \div 128
      BY <1>3, Zenon
    <3> QED
      BY <2>4, <3>1, SMT
  <2>6. rest[5] \in Int
    <3>1. rest[5] = rest[4] \div 128
      BY <1>3, Zenon
    <3> QED
      BY <2>5, <3>1, SMT
  <2>7. rest[6] \in Int
    <3>1. rest[6] = rest[5] \div 128
      BY <1>3, Zenon
    <3> QED
      BY <2>6, <3>1, SMT
  <2>8. rest[7] \in Int
    <3>1. rest[7] = rest[6] \div 128
      BY <1>3, Zenon
    <3> QED
      BY <2>7, <3>1, SMT
  <2>9. rest[8] \in Int
    <3>1. rest[8] = rest[7] \div 128
      BY <1>3, Zenon
    <3> QED
      BY <2>8, <3>1, SMT
  <2>10. rest[9] \in Int
    <3>1. rest[9] = rest[8] \div 128
      BY <1>3, Zenon
    <3> QED
      BY <2>9, <3>1, SMT
  <2>11. \A i \in 0..9 : i \in {0, 1, 2, 3, 4, 5, 6, 7, 8, 9}
    BY SMT
  <2> QED
    BY <2>1, <2>2, <2>3, <2>4, <2>5, <2>6, <2>7, <2>8, <2>9, <2>10, <2>11, Zenon
<1>5. Groups(v) \in [1..10 -> 0..127]
  BY <1>1, <1>4, SMTT(40)
<1>6. /\ Groups(v)[1] = rest[0] % 128
      /\ Groups(v)[2] = rest[1] % 128
      /\ Groups(v)[3] = rest[2] % 128
      /\ Groups(v)[4] = rest[3] % 128
      /\ Groups(v)[5] = rest[4] % 128
      /\ Groups(v)[10] = IF v < 0 THEN 1 ELSE 0
  BY <1>1, SMT
<1>7. rest[1] = Q1(v) /\ rest[2] = Q2(v) /\ rest[3] = Q3(v) /\ rest[4] = Q4(v)
  <2>1. rest[0] = v /\ rest[1] = rest[0] \div 128
    BY <1>3, Zenon
  <2>2. rest[2] = rest[1] \div 128 /\ rest[3] = rest[2] \div 128
    BY <1>3, Zenon
  <2>3. rest[4] = rest[3] \div 128
    BY <1>3, Zenon
  <2>4. rest[1] = Q1(v)
    BY <2>1, Zenon DEF Q1
  <2>5. rest[2] = Q2(v)
    BY <2>2, <2>4, Zenon DEF Q2
  <2>6. rest[3] = Q3(v)
    BY <2>2, <2>5, Zenon DEF Q3
  <2>7. rest[4] = Q4(v)
    BY <2>3, <2>6, Zenon DEF Q4
  <2> QED
    BY <2>4, <2>5, <2>6, <2>7
<1>8. ASSUME Q4(v) \in 0..127, v >= 0, NEW i \in 6..10 PROVE Groups(v)[i] = 0
  <2>1. Q4(v) \div 128 = 0
    BY <1>8, SMT
  <2>2. rest[5] = 0
    BY <1>3, <1>7, <2>1, Zenon
  <2>3. rest[6] = 0 /\ rest[7] = 0 /\ rest[8] = 0
    <3>1. rest[6] = rest[5] \div 128 /\ rest[7] = rest[6] \div 128 /\ rest[8] = rest[7] \div 128
      BY <1>3, Zenon
    <3> QED
      BY <2>2, <3>1, NoneOfNone, SMT
  <2>4. i \in {6, 7, 8, 9, 10} /\ ~(v < 0)
    BY <1>8, SMT
  <2> QED
    BY <1>1, <2>2, <2>3, <2>4, SMT
<1>9. Q4(v) \in 0..127 /\ v >= 0 => \A i \in 6..10 : Groups(v)[i] = 0
  BY <1>8, Zenon
<1> QED
  BY <1>3, <1>5, <1>6, <1>7, <1>9, ZenonT(40)

\* The last group that is written.
LastGroup(v, n) == /\ n = 1 \/ Groups(v)[n] # 0
                   /\ \A j \in n+1..10 : Groups(v)[j] = 0

LEMMA LastIsOne == ASSUME NEW v, NEW m \in 1..10, NEW n \in 1..10, LastGroup(v, m), LastGroup(v, n)
                   PROVE  m = n
<1>1. ASSUME NEW k \in 1..10, NEW l \in 1..10, LastGroup(v, k), LastGroup(v, l) PROVE ~(k < l)
  BY <1>1, SMT DEF LastGroup
<1> QED
  BY <1>1, SMT

\* What a varint is, when its length is known.
LEMMA VarintIs ==
  ASSUME NEW v \in Int, NEW n \in 1..10, LastGroup(v, n)
  PROVE  /\ Varint(v) = [i \in 1..n |-> IF i < n THEN Groups(v)[i] + 128 ELSE Groups(v)[i]]
         /\ Varint(v) \in Seq(Byte) /\ Len(Varint(v)) = n
<1> DEFINE m == CHOOSE i \in 1..10 : /\ i = 1 \/ Groups(v)[i] # 0
                                     /\ \A j \in i+1..10 : Groups(v)[j] = 0
<1>1. m \in 1..10 /\ LastGroup(v, m)
  BY Zenon DEF LastGroup
<1>2. m = n
  BY <1>1, LastIsOne, SMT
<1>3. Varint(v) = [i \in 1..m |-> IF i < m THEN Groups(v)[i] + 128 ELSE Groups(v)[i]]
  BY Zenon DEF Varint
<1> HIDE DEF m
<1>4. Varint(v) = [i \in 1..n |-> IF i < n THEN Groups(v)[i] + 128 ELSE Groups(v)[i]]
  BY <1>2, <1>3, SMT
<1>5. \A i \in 1..n : Groups(v)[i] \in 0..127
  <2>1. Groups(v) \in [1..10 -> 0..127] /\ \A i \in 1..n : i \in 1..10
    BY GroupsAre, SMT
  <2> QED
    BY <2>1, Zenon
<1>6. Varint(v) \in [1..n -> Byte]
  <2>1. ASSUME NEW i \in 1..n
        PROVE  (IF i < n THEN Groups(v)[i] + 128 ELSE Groups(v)[i]) \in Byte
    BY <1>5, <2>1, SMT DEF Byte
  <2> QED
    BY <1>4, <2>1, Zenon
<1>7. Varint(v) \in Seq(Byte) /\ Len(Varint(v)) = n
  <2>1. n \in Nat
    BY SMT
  <2>2. Varint(v) \in Seq(Byte)
    BY <1>6, <2>1, SMT
  <2>3. DOMAIN Varint(v) = 1..n
    BY <1>6, Zenon
  <2> QED
    BY <2>1, <2>2, <2>3, SMT
<1> QED
  BY <1>4, <1>7, SMT

\* The number of bytes of a varint.
Length(v) == IF v < 0 THEN 10 ELSE IF Q1(v) = 0 THEN 1 ELSE IF Q2(v) = 0 THEN 2
             ELSE IF Q3(v) = 0 THEN 3 ELSE IF Q4(v) = 0 THEN 4 ELSE 5

\* A number that has groups left has one that is not 0.
LEMMA SomeGroup == \A u \in Int : /\ 0 <= u /\ u \div 128 = 0 /\ u # 0 => u % 128 # 0
                                  /\ u = 0 => u % 128 = 0 /\ u \div 128 = 0
BY SMT

LEMMA LengthIsLast == ASSUME NEW v \in int32 PROVE Length(v) \in 1..10 /\ LastGroup(v, Length(v))
<1>1. v \in Int
  BY LastQuotient, Zenon
<1>2. /\ Groups(v)[2] = Q1(v) % 128 /\ Groups(v)[3] = Q2(v) % 128
      /\ Groups(v)[4] = Q3(v) % 128 /\ Groups(v)[5] = Q4(v) % 128
  BY <1>1, GroupsAre, ZenonT(40)
<1>3. CASE v < 0
  <2>1. Length(v) = 10 /\ Groups(v)[10] = 1
    BY <1>1, <1>3, GroupsAre, Zenon DEF Length
  <2> QED
    BY <2>1, SMT DEF LastGroup
<1>4. CASE v >= 0
  <2>1. /\ Q1(v) \in Int /\ Q2(v) \in Int /\ Q3(v) \in Int /\ Q4(v) \in Int
        /\ 0 <= Q1(v) /\ 0 <= Q2(v) /\ 0 <= Q3(v) /\ 0 <= Q4(v) /\ Q4(v) \in 0..127
    <3>1. /\ Q1(v) >= 0 /\ Q2(v) >= 0 /\ Q3(v) >= 0 /\ Q4(v) \in 0..7
      BY <1>4, LastQuotient, Zenon
    <3>2. /\ Q1(v) \in Int /\ Q2(v) \in Int /\ Q3(v) \in Int /\ Q4(v) \in Int
      BY <1>1, QuotientsAreInts, Zenon
    <3> QED
      BY <3>1, <3>2, SMT
  <2>2. \A i \in 6..10 : Groups(v)[i] = 0
    BY <1>1, <1>4, <2>1, GroupsAre, ZenonT(40)
  <2>3. /\ Q1(v) = 0 => Q1(v) % 128 = 0 /\ Q2(v) = 0
        /\ Q2(v) = 0 => Q2(v) % 128 = 0 /\ Q3(v) = 0
        /\ Q3(v) = 0 => Q3(v) % 128 = 0 /\ Q4(v) = 0
        /\ Q4(v) = 0 => Q4(v) % 128 = 0
    BY <2>1, SomeGroup, ZenonT(40) DEF Q2, Q3, Q4
  <2>4. /\ Q1(v) # 0 /\ Q2(v) = 0 => Q1(v) % 128 # 0
        /\ Q2(v) # 0 /\ Q3(v) = 0 => Q2(v) % 128 # 0
        /\ Q3(v) # 0 /\ Q4(v) = 0 => Q3(v) % 128 # 0
    BY <2>1, SomeGroup, ZenonT(40) DEF Q2, Q3, Q4
  <2>5. Q4(v) # 0 => Q4(v) % 128 # 0
    BY <1>4, LastQuotient, SMT
  <2>6. ~(v < 0)
    BY <1>1, <1>4, SMT
  <2> DEFINE g == Groups(v)
  <2> HIDE DEF g
  <2>7. CASE Q1(v) = 0
    <3>1. Length(v) = 1 /\ g[2] = 0 /\ g[3] = 0 /\ g[4] = 0 /\ g[5] = 0
      BY <1>2, <2>3, <2>6, <2>7, ZenonT(40) DEF Length, g
    <3>2. \A j \in 2..10 : j \in 6..10 \/ j \in {2, 3, 4, 5}
      OBVIOUS
    <3> QED
      BY <2>2, <3>1, <3>2, SMT DEF LastGroup, g
  <2>8. CASE Q1(v) # 0 /\ Q2(v) = 0
    <3>1. Length(v) = 2 /\ g[2] # 0 /\ g[3] = 0 /\ g[4] = 0 /\ g[5] = 0
      BY <1>2, <2>3, <2>4, <2>6, <2>8, ZenonT(40) DEF Length, g
    <3>2. \A j \in 3..10 : j \in 6..10 \/ j \in {3, 4, 5}
      OBVIOUS
    <3> QED
      BY <2>2, <3>1, <3>2, SMT DEF LastGroup, g
  <2>9. CASE Q2(v) # 0 /\ Q3(v) = 0
    <3>1. Length(v) = 3 /\ g[3] # 0 /\ g[4] = 0 /\ g[5] = 0
      BY <1>2, <2>3, <2>4, <2>6, <2>9, ZenonT(40) DEF Length, g
    <3>2. \A j \in 4..10 : j \in 6..10 \/ j \in {4, 5}
      OBVIOUS
    <3> QED
      BY <2>2, <3>1, <3>2, SMT DEF LastGroup, g
  <2>10. CASE Q3(v) # 0 /\ Q4(v) = 0
    <3>1. Length(v) = 4 /\ g[4] # 0 /\ g[5] = 0
      BY <1>2, <2>3, <2>4, <2>6, <2>10, ZenonT(40) DEF Length, g
    <3>2. \A j \in 5..10 : j \in 6..10 \/ j = 5
      OBVIOUS
    <3> QED
      BY <2>2, <3>1, <3>2, SMT DEF LastGroup, g
  <2>11. CASE Q4(v) # 0
    <3>1. Length(v) = 5 /\ g[5] # 0
      BY <1>2, <2>3, <2>5, <2>6, <2>11, Zenon DEF Length, g
    <3> QED
      BY <2>2, <3>1, SMT DEF LastGroup, g
  <2> QED
    BY <2>3, <2>7, <2>8, <2>9, <2>10, <2>11, Zenon
<1> QED
  BY <1>1, <1>3, <1>4, SMT

\* A varint: the groups in order, all but the last with the mark that more follow.
LEMMA VarintBytes ==
  ASSUME NEW v \in int32
  PROVE  /\ Length(v) \in 1..10
         /\ Varint(v) \in Seq(Byte) /\ Len(Varint(v)) = Length(v)
         /\ \A i \in 1..Length(v) : /\ i < Length(v) => Varint(v)[i] = Groups(v)[i] + 128
                                    /\ i = Length(v) => Varint(v)[i] = Groups(v)[i]
                                    /\ Groups(v)[i] \in 0..127
<1>1. Length(v) \in 1..10 /\ LastGroup(v, Length(v)) /\ v \in Int
  BY LengthIsLast, LastQuotient, Zenon
<1> DEFINE n == Length(v)
<1> HIDE DEF n
<1>2. n \in 1..10 /\ LastGroup(v, n)
  BY <1>1, Zenon DEF n
<1>3. /\ Varint(v) = [i \in 1..n |-> IF i < n THEN Groups(v)[i] + 128 ELSE Groups(v)[i]]
      /\ Varint(v) \in Seq(Byte) /\ Len(Varint(v)) = n
  BY <1>1, <1>2, VarintIs, Zenon
<1>4. Groups(v) \in [1..10 -> 0..127]
  BY <1>1, GroupsAre, Zenon
<1>5. \A i \in 1..n : /\ i < n => Varint(v)[i] = Groups(v)[i] + 128
                      /\ i = n => Varint(v)[i] = Groups(v)[i]
                      /\ Groups(v)[i] \in 0..127
  <2> SUFFICES ASSUME NEW i \in 1..n
               PROVE  /\ i < n => Varint(v)[i] = Groups(v)[i] + 128
                      /\ i = n => Varint(v)[i] = Groups(v)[i]
                      /\ Groups(v)[i] \in 0..127
    OBVIOUS
  <2>1. i \in 1..10 /\ (i = n => ~(i < n))
    BY <1>2, SMT
  <2>2. Groups(v)[i] \in 0..127
    BY <1>4, <2>1, Zenon
  <2>3. Varint(v)[i] = IF i < n THEN Groups(v)[i] + 128 ELSE Groups(v)[i]
    BY <1>3, Zenon
  <2> QED
    BY <2>1, <2>2, <2>3, Zenon
<1> QED
  BY <1>2, <1>3, <1>5, Zenon DEF n

-----------------------------------------------------------------------------
(* The size of a varint.                                                   *)

\* The logarithm by which the library computes the length.
Between(l, v) == 2^l <= v /\ (l = 30 \/ v < 2^(l+1))

\* The quotients by the size of a number.
LEMMA Sizes == ASSUME NEW v \in Int, v >= 0
               PROVE  /\ v < 128 <=> Q1(v) = 0
                      /\ v < 16384 <=> Q2(v) = 0
                      /\ v < 2097152 <=> Q3(v) = 0
                      /\ v < 268435456 <=> Q4(v) = 0
<1>1. Q1(v) \in Int /\ (v < 128 <=> Q1(v) = 0) /\ Q1(v) >= 0
      /\ (v < 16384 <=> Q1(v) < 128)
      /\ (v < 2097152 <=> Q1(v) < 16384)
      /\ (v < 268435456 <=> Q1(v) < 2097152)
  BY SMT DEF Q1
<1>2. Q2(v) \in Int /\ Q2(v) >= 0 /\ (Q1(v) < 128 <=> Q2(v) = 0)
      /\ (Q1(v) < 16384 <=> Q2(v) < 128)
      /\ (Q1(v) < 2097152 <=> Q2(v) < 16384)
  BY <1>1, SMT DEF Q2
<1>3. Q3(v) \in Int /\ Q3(v) >= 0 /\ (Q2(v) < 128 <=> Q3(v) = 0)
      /\ (Q2(v) < 16384 <=> Q3(v) < 128)
  BY <1>2, SMT DEF Q3
<1>4. Q3(v) < 128 <=> Q4(v) = 0
  BY <1>3, SMT DEF Q4
<1> QED
  BY <1>1, <1>2, <1>3, <1>4, SMT

LEMMA LogIsLength == ASSUME NEW l \in 0..30, NEW v \in Nat \ {0}, Between(l, v)
                     PROVE  (l * 9 + 73) \div 64 = Length(v)
<1>1. v \in Int /\ v >= 0
  BY SMT
<1>2. CASE l \in 0..6
  <2>1. v < 128
    <3>1. l \in {0, 1, 2, 3, 4, 5, 6}
      BY <1>2, SMT
    <3>2. \/ Between(0, v) \/ Between(1, v) \/ Between(2, v) \/ Between(3, v)
          \/ Between(4, v) \/ Between(5, v) \/ Between(6, v)
      BY <3>1, Zenon
    <3> QED
      BY <3>2, SMT DEF Between
  <2>2. Length(v) = 1
    BY <1>1, <2>1, Sizes, SMT DEF Length
  <2> QED
    BY <1>2, <2>2, SMT
<1>3. CASE l \in 7..13
  <2>1. 128 <= v /\ v < 16384
    <3>1. l \in {7, 8, 9, 10, 11, 12, 13}
      BY <1>3, SMT
    <3>2. \/ Between(7, v) \/ Between(8, v) \/ Between(9, v) \/ Between(10, v)
          \/ Between(11, v) \/ Between(12, v) \/ Between(13, v)
      BY <3>1, Zenon
    <3> QED
      BY <3>2, SMT DEF Between
  <2>2. Length(v) = 2
    BY <1>1, <2>1, Sizes, SMT DEF Length
  <2> QED
    BY <1>3, <2>2, SMT
<1>4. CASE l \in 14..20
  <2>1. 16384 <= v /\ v < 2097152
    <3>1. l \in {14, 15, 16, 17, 18, 19, 20}
      BY <1>4, SMT
    <3>2. \/ Between(14, v) \/ Between(15, v) \/ Between(16, v) \/ Between(17, v)
          \/ Between(18, v) \/ Between(19, v) \/ Between(20, v)
      BY <3>1, Zenon
    <3> QED
      BY <3>2, SMT DEF Between
  <2>2. Length(v) = 3
    BY <1>1, <2>1, Sizes, SMT DEF Length
  <2> QED
    BY <1>4, <2>2, SMT
<1>5. CASE l \in 21..27
  <2>1. 2097152 <= v /\ v < 268435456
    <3>1. l \in {21, 22, 23, 24, 25, 26, 27}
      BY <1>5, SMT
    <3>2. \/ Between(21, v) \/ Between(22, v) \/ Between(23, v) \/ Between(24, v)
          \/ Between(25, v) \/ Between(26, v) \/ Between(27, v)
      BY <3>1, Zenon
    <3> QED
      BY <3>2, SMT DEF Between
  <2>2. Length(v) = 4
    BY <1>1, <2>1, Sizes, SMT DEF Length
  <2> QED
    BY <1>5, <2>2, SMT
<1>6. CASE l \in 28..30
  <2>1. 268435456 <= v
    <3>1. l \in {28, 29, 30}
      BY <1>6, SMT
    <3>2. \/ Between(28, v) \/ Between(29, v) \/ Between(30, v)
      BY <3>1, Zenon
    <3> QED
      BY <3>2, SMT DEF Between
  <2>2. Length(v) = 5
    BY <1>1, <2>1, Sizes, SMT DEF Length
  <2> QED
    BY <1>6, <2>2, SMT
<1> QED
  BY <1>2, <1>3, <1>4, <1>5, <1>6, SMT

\* A number has a logarithm.
LEMMA SomeLog == ASSUME NEW v \in Nat \ {0} PROVE \E l \in 0..30 : Between(l, v)
<1>1. \/ Between(0, v) \/ Between(1, v) \/ Between(2, v) \/ Between(3, v) \/ Between(4, v)
      \/ Between(5, v) \/ Between(6, v) \/ Between(7, v) \/ Between(8, v) \/ Between(9, v)
      \/ Between(10, v) \/ Between(11, v) \/ Between(12, v) \/ Between(13, v) \/ Between(14, v)
      \/ Between(15, v) \/ Between(16, v) \/ Between(17, v) \/ Between(18, v) \/ Between(19, v)
      \/ Between(20, v) \/ Between(21, v) \/ Between(22, v) \/ Between(23, v) \/ Between(24, v)
      \/ Between(25, v) \/ Between(26, v) \/ Between(27, v) \/ Between(28, v) \/ Between(29, v)
      \/ Between(30, v)
  BY SMT DEF Between
<1> QED
  BY <1>1, SMT

\* The library's formula is right.
LEMMA VarintSizeIsLength == ASSUME NEW v \in int32 PROVE VarintSize(v) = Len(Varint(v))
<1>1. v \in Int /\ Len(Varint(v)) = Length(v)
  BY VarintBytes, LastQuotient, Zenon
<1>2. CASE v < 0
  <2>1. Log2(v) = 63 /\ Length(v) = 10
    BY <1>2, Zenon DEF Log2, Length
  <2> QED
    BY <1>1, <2>1, SMT DEF VarintSize
<1>3. CASE v = 0
  <2>1. Log2(v) = 0 /\ Length(v) = 1
    BY <1>3, SMT DEF Log2, Length, Q1
  <2> QED
    BY <1>1, <2>1, SMT DEF VarintSize
<1>4. CASE v > 0
  <2>1. v \in Nat \ {0} /\ ~(v < 0) /\ v # 0
    BY <1>1, <1>4, SMT
  <2> DEFINE l == CHOOSE l \in 0..30 : Between(l, v)
  <2>2. l \in 0..30 /\ Between(l, v)
    BY <2>1, SomeLog, Zenon
  <2>3. Log2(v) = l
    BY <2>1, Zenon DEF Log2, Between
  <2> HIDE DEF l
  <2>4. VarintSize(v) = (l * 9 + 73) \div 64
    BY <2>3, Zenon DEF VarintSize
  <2> QED
    BY <1>1, <2>1, <2>2, <2>4, LogIsLength, Zenon
<1> QED
  BY <1>1, <1>2, <1>3, <1>4, SMT

-----------------------------------------------------------------------------
(* Reading a varint.                                                       *)

\* Reading a varint that begins at q of b and may be cut.
Begins(b, q, s) == \A i \in 1..Len(s) : q + i - 1 <= Len(b) => b[q + i - 1] = s[i]

\* Where it ends, as all its bytes but the last have the mark.
LEMMA EndOfVarint ==
  ASSUME NEW v \in int32, NEW b, NEW q \in Nat \ {0}, Len(b) \in Nat, Begins(b, q, Varint(v))
  PROVE  VarintEnd(b, q) = IF q + Length(v) - 1 <= Len(b) THEN q + Length(v) - 1 ELSE 0
<1> DEFINE n == Length(v)
           e == q + n - 1
<1>1. n \in 1..10 /\ Len(Varint(v)) = n
  BY VarintBytes, Zenon
<1> HIDE DEF n
<1>2. ASSUME NEW i \in 1..n, q + i - 1 <= Len(b)
      PROVE  /\ i < n => ~(b[q + i - 1] < 128) /\ b[q + i - 1] >= 128
             /\ i = n => b[q + i - 1] < 128 /\ ~(b[q + i - 1] >= 128)
  <2>1. b[q + i - 1] = Varint(v)[i]
    BY <1>1, <1>2, Zenon DEF Begins
  <2>2. /\ i < n => Varint(v)[i] = Groups(v)[i] + 128
        /\ i = n => Varint(v)[i] = Groups(v)[i]
        /\ Groups(v)[i] \in 0..127
    BY VarintBytes, Zenon DEF n
  <2>3. PICK g \in 0..127 : g = Groups(v)[i]
    BY <2>2, Zenon
  <2>4. CASE i < n
    <3>1. b[q + i - 1] = g + 128 /\ i # n
      BY <1>1, <2>1, <2>2, <2>3, <2>4, SMT
    <3> QED
      BY <3>1, SMT
  <2>5. CASE i = n
    <3>1. b[q + i - 1] = g /\ ~(i < n)
      BY <1>1, <2>1, <2>2, <2>3, <2>5, SMT
    <3> QED
      BY <3>1, SMT
  <2> QED
    BY <1>1, <2>4, <2>5, SMT
<1>3. ASSUME NEW k \in q..q+9, k <= Len(b), k <= e
      PROVE  /\ k < e => ~(b[k] < 128) /\ b[k] >= 128
             /\ k = e => b[k] < 128 /\ ~(b[k] >= 128)
  <2>1. k - q + 1 \in 1..n /\ q + (k - q + 1) - 1 = k /\ q + (k - q + 1) - 1 <= Len(b)
    BY <1>1, <1>3, SMT
  <2>2. /\ k - q + 1 < n <=> k < e
        /\ k - q + 1 = n <=> k = e
    BY <1>1, <1>3, SMT
  <2> QED
    BY <1>2, <2>1, <2>2, Zenon
<1>4. CASE e <= Len(b)
  <2>1. e \in q..q+9 /\ e <= Len(b)
    BY <1>1, <1>4, SMT
  <2>2. b[e] < 128 /\ ~(b[e] >= 128)
    BY <1>3, <2>1, SMT
  <2>3. \A j \in q..e-1 : b[j] >= 128 /\ ~(b[j] < 128)
    BY <1>1, <1>3, <1>4, SMT
  <2> DEFINE First(k) == b[k] < 128 /\ \A j \in q..k-1 : b[j] >= 128
             c == CHOOSE k \in q..q+9 : First(k)
  <2>4. First(e)
    BY <2>2, <2>3, Zenon
  <2>5. c \in q..q+9 /\ First(c)
    BY <2>1, <2>4, Zenon
  <2>6. VarintEnd(b, q) = c
    BY <2>1, <2>2, Zenon DEF VarintEnd
  <2>7. c = e
    <3>1. ASSUME c < e PROVE FALSE
      <4>1. c \in q..e-1
        BY <1>1, <2>5, <3>1, SMT
      <4> QED
        BY <2>3, <2>5, <4>1, Zenon
    <3>2. ASSUME e < c PROVE FALSE
      <4>1. e \in q..c-1
        BY <1>1, <2>5, <3>2, SMT
      <4> QED
        BY <2>2, <2>5, <4>1, Zenon
    <3> HIDE DEF c
    <3> QED
      BY <1>1, <2>5, <3>1, <3>2, SMT
  <2> QED
    BY <1>4, <2>6, <2>7, Zenon DEF n
<1>5. CASE ~(e <= Len(b))
  <2>1. \A k \in q..q+9 : ~(k <= Len(b) /\ b[k] < 128)
    BY <1>1, <1>3, <1>5, SMT
  <2>2. VarintEnd(b, q) = 0
    BY <2>1, Zenon DEF VarintEnd
  <2> QED
    BY <1>5, <2>2, Zenon DEF n
<1> QED
  BY <1>4, <1>5

\* What it is: each group has its place, and the last of those kept has the sign.
LEMMA Weights == ASSUME NEW v \in int32
                 PROVE  v = (v % 128) + 2^7 * (Q1(v) % 128) + 2^14 * (Q2(v) % 128) + 2^21 * (Q3(v) % 128)
                            + 2^28 * Q4(v)
<1>1. v \in Int /\ Q1(v) \in Int /\ Q2(v) \in Int /\ Q3(v) \in Int /\ Q4(v) \in Int
  BY LastQuotient, QuotientsAreInts, Zenon
<1>2. /\ v = 128 * Q1(v) + (v % 128)
      /\ Q1(v) = 128 * Q2(v) + (Q1(v) % 128)
      /\ Q2(v) = 128 * Q3(v) + (Q2(v) % 128)
      /\ Q3(v) = 128 * Q4(v) + (Q3(v) % 128)
  BY <1>1, Divided, ZenonT(40) DEF Q1, Q2, Q3, Q4
<1>3. /\ v % 128 \in Int /\ Q1(v) % 128 \in Int /\ Q2(v) % 128 \in Int /\ Q3(v) % 128 \in Int
  BY <1>1, SMT
<1> QED
  BY <1>1, <1>2, <1>3, SMT

LEMMA GroupsLeft == ASSUME NEW v \in int32, NEW i \in 1..10, i > Length(v) PROVE Groups(v)[i] = 0
<1>1. Length(v) \in 1..10 /\ LastGroup(v, Length(v))
  BY LengthIsLast, Zenon
<1>2. i \in Length(v)+1..10
  BY <1>1, SMT
<1> QED
  BY <1>1, <1>2, Zenon DEF LastGroup

LEMMA Unmarked == \A u \in 0..127 : u % 128 = u /\ (u + 128) % 128 = u
BY SMT

LEMMA Signed == \A u \in -8..7 : LET h == (u % 128) % 16 IN (IF h < 8 THEN h ELSE h - 16) = u
<1> SUFFICES ASSUME NEW u \in -8..7
             PROVE  LET h == (u % 128) % 16 IN (IF h < 8 THEN h ELSE h - 16) = u
  OBVIOUS
<1>1. CASE u >= 0
  BY <1>1, SMT
<1>2. CASE u < 0
  <2>1. u % 128 = u + 128
    BY <1>2, SMT
  <2>2. (u + 128) % 16 = u + 16
    BY <1>2, SMT
  <2> QED
    BY <2>1, <2>2, <1>2, SMT
<1> QED
  BY <1>1, <1>2, SMT

LEMMA ValueOfVarint ==
  ASSUME NEW v \in int32, NEW b, NEW q \in Nat \ {0}, Len(b) \in Nat, Begins(b, q, Varint(v)),
         q + Length(v) - 1 <= Len(b)
  PROVE  ReadVarint32(b, q) = v
<1> DEFINE n == Length(v)
           g(i) == IF q + i <= VarintEnd(b, q) THEN b[q + i] % 128 ELSE 0
           h == g(4) % 16
<1>1. ReadVarint32(b, q)
        = g(0) + 2^7 * g(1) + 2^14 * g(2) + 2^21 * g(3) + 2^28 * (IF h < 8 THEN h ELSE h - 16)
  BY Zenon DEF ReadVarint32
<1>2. n \in 1..10 /\ Len(Varint(v)) = n
  BY VarintBytes, Zenon
<1>3. VarintEnd(b, q) = q + n - 1
  BY EndOfVarint, Zenon
<1> HIDE DEF n
<1>4. ASSUME NEW i \in 0..4 PROVE g(i) = Groups(v)[i + 1]
  <2>1. CASE i + 1 <= n
    <3>1. i + 1 \in 1..n /\ q + i = q + (i + 1) - 1 /\ q + i <= VarintEnd(b, q)
          /\ q + (i + 1) - 1 <= Len(b)
      BY <1>2, <1>3, <2>1, SMT DEF n
    <3>2. b[q + i] = Varint(v)[i + 1]
      BY <1>2, <3>1, Zenon DEF Begins
    <3>3. /\ i + 1 < n => Varint(v)[i + 1] = Groups(v)[i + 1] + 128
          /\ i + 1 = n => Varint(v)[i + 1] = Groups(v)[i + 1]
          /\ Groups(v)[i + 1] \in 0..127
      BY <3>1, VarintBytes, Zenon DEF n
    <3>4. i + 1 < n \/ i + 1 = n
      BY <1>2, <2>1, SMT
    <3>5. b[q + i] % 128 = Groups(v)[i + 1]
      <4> DEFINE w == Groups(v)[i + 1]
                 c == b[q + i]
      <4>1. w \in 0..127 /\ (c = w + 128 \/ c = w)
        BY <3>2, <3>3, <3>4, Zenon
      <4> HIDE DEF w, c
      <4>2. c % 128 = w
        BY <4>1, SMT
      <4> QED
        BY <4>2, Zenon DEF w, c
    <3> QED
      BY <3>1, <3>5, Zenon
  <2>2. CASE ~(i + 1 <= n)
    <3>1. ~(q + i <= VarintEnd(b, q)) /\ i + 1 \in 1..10 /\ i + 1 > n
      BY <1>2, <1>3, <2>2, SMT
    <3>2. Groups(v)[i + 1] = 0
      BY <3>1, GroupsLeft, Zenon DEF n
    <3> QED
      BY <3>1, <3>2, Zenon
  <2> QED
    BY <2>1, <2>2, Zenon
<1>5. v \in Int
  BY LastQuotient, Zenon
<1>6. g(0) = v % 128 /\ g(1) = Q1(v) % 128 /\ g(2) = Q2(v) % 128 /\ g(3) = Q3(v) % 128
      /\ g(4) = Q4(v) % 128
  <2>1. /\ Groups(v)[1] = v % 128
        /\ Groups(v)[2] = Q1(v) % 128
        /\ Groups(v)[3] = Q2(v) % 128
        /\ Groups(v)[4] = Q3(v) % 128
        /\ Groups(v)[5] = Q4(v) % 128
    BY <1>5, GroupsAre, ZenonT(40)
  <2> HIDE DEF g
  <2>2. g(0) = Groups(v)[0 + 1] /\ g(1) = Groups(v)[1 + 1] /\ g(2) = Groups(v)[2 + 1]
        /\ g(3) = Groups(v)[3 + 1] /\ g(4) = Groups(v)[4 + 1]
    BY <1>4, SMT
  <2> QED
    BY <2>1, <2>2, SMT
<1> HIDE DEF g
<1>7. (IF h < 8 THEN h ELSE h - 16) = Q4(v)
  <2>1. Q4(v) \in -8..7
    BY LastQuotient, SMT
  <2> QED
    BY <1>6, <2>1, Signed, ZenonT(40)
<1> HIDE DEF h
<1>8. v = (v % 128) + 2^7 * (Q1(v) % 128) + 2^14 * (Q2(v) % 128) + 2^21 * (Q3(v) % 128) + 2^28 * Q4(v)
  BY Weights, SMT
<1> QED
  BY <1>1, <1>6, <1>7, <1>8, SMT

-----------------------------------------------------------------------------
(* Items: the fields as they are in a stream.                               *)

Tags == {8, 10, 16, 18, 29}
Numbers == {8, 16}
Texts == {10, 18}
Values(T) == CASE T \in Numbers -> int32 [] T \in Texts -> string [] T = 29 -> float
Default(T) == CASE T \in Numbers -> 0 [] T \in Texts -> <<>> [] T = 29 -> NoFloat
Encoded(T, v) == CASE T \in Numbers -> Int32Field(T, v) [] T \in Texts -> StringField(T, v)
                   [] T = 29 -> FloatField(T, v)

Item(T, v) == [tag |-> T, value |-> v, raw |-> Encoded(T, v)]
Items == UNION {{Item(T, v) : v \in Values(T) \ {Default(T)}} : T \in Tags}

LEMMA IsItem == ASSUME NEW t \in Items
                PROVE  /\ t.tag \in Tags /\ t.value \in Values(t.tag) /\ t.value # Default(t.tag)
                       /\ t.raw = Encoded(t.tag, t.value)
BY SMT DEF Items, Item

\* The parts of a string field.
LEMMA StringBytes == ASSUME NEW s \in string
                     PROVE  /\ s \in Seq(Byte) /\ Len(s) \in Nat /\ Len(s) \in int32
                            /\ s # <<>> => Len(s) > 0
<1>1. s \in Seq(Byte)
  BY SMT DEF string
<1>2. Len(s) \in Nat
  BY <1>1, SMT
<1>3. Len(s) \in int32
  BY <1>2, SMT DEF int32, string
<1>4. s # <<>> => Len(s) > 0
  BY <1>1, <1>2, SMT
<1> QED
  BY <1>1, <1>2, <1>3, <1>4, Zenon

\* Two sequences of bytes, one behind the other.
LEMMA Concat ==
  ASSUME NEW S, NEW p \in Seq(S), NEW q \in Seq(S)
  PROVE  /\ p \o q \in Seq(S) /\ Len(p \o q) = Len(p) + Len(q)
         /\ Len(p) \in Nat /\ Len(q) \in Nat
         /\ \A i \in 1..Len(p) : (p \o q)[i] = p[i]
         /\ \A i \in 1..Len(q) : (p \o q)[Len(p) + i] = q[i]
<1>1. p \o q \in Seq(S) /\ Len(p \o q) = Len(p) + Len(q) /\ Len(p) \in Nat /\ Len(q) \in Nat
  BY ConcatProperties, LenProperties, Zenon
<1>2. \A i \in 1..(Len(p) + Len(q)) : (p \o q)[i] = IF i <= Len(p) THEN p[i] ELSE q[i - Len(p)]
  BY ConcatProperties, Zenon
<1>3. ASSUME NEW i \in 1..Len(p) PROVE (p \o q)[i] = p[i]
  <2>1. i \in 1..(Len(p) + Len(q)) /\ i <= Len(p)
    BY <1>1, SMT
  <2> QED
    BY <1>2, <2>1, Zenon
<1>4. ASSUME NEW i \in 1..Len(q) PROVE (p \o q)[Len(p) + i] = q[i]
  <2>1. Len(p) + i \in 1..(Len(p) + Len(q)) /\ ~(Len(p) + i <= Len(p)) /\ (Len(p) + i) - Len(p) = i
    BY <1>1, SMT
  <2>2. (p \o q)[Len(p) + i] = q[(Len(p) + i) - Len(p)]
    BY <1>2, <2>1, Zenon
  <2> QED
    BY <2>1, <2>2, Zenon
<1> QED
  BY <1>1, <1>3, <1>4, Zenon

\* The bytes of an item.
LEMMA NumberItem == ASSUME NEW t \in Items, t.tag \in Numbers
                    PROVE  /\ t.value \in int32 /\ t.raw = <<t.tag>> \o Varint(t.value)
                           /\ t.tag \in Byte
<1>1. /\ t.tag \in Tags /\ t.value \in Values(t.tag) /\ t.value # Default(t.tag)
      /\ t.raw = Encoded(t.tag, t.value)
  BY IsItem, Zenon
<1>2. \A T \in Numbers : /\ Values(T) = int32 /\ Default(T) = 0 /\ T \in Byte
                         /\ \A v : Encoded(T, v) = Int32Field(T, v)
  BY SMT DEF Values, Default, Encoded, Numbers, Texts, Byte
<1>3. t.value \in int32 /\ t.value # 0 /\ t.raw = Int32Field(t.tag, t.value) /\ t.tag \in Byte
  BY <1>1, <1>2, Zenon
<1> QED
  BY <1>3, Zenon DEF Int32Field

LEMMA StringItem == ASSUME NEW t \in Items, t.tag \in Texts
                    PROVE  /\ t.value \in string /\ t.tag \in Byte
                           /\ t.raw = (<<t.tag>> \o Varint(Len(t.value))) \o t.value
<1>1. /\ t.tag \in Tags /\ t.value \in Values(t.tag) /\ t.value # Default(t.tag)
      /\ t.raw = Encoded(t.tag, t.value)
  BY IsItem, Zenon
<1>2. t.tag \notin Numbers /\ t.tag \in Byte
  BY SMT DEF Numbers, Texts, Byte
<1>3. t.value \in string /\ t.value # <<>> /\ t.raw = StringField(t.tag, t.value)
  <2>1. \A T \in Texts : /\ Values(T) = string /\ Default(T) = <<>>
                            /\ \A v : Encoded(T, v) = StringField(T, v)
    BY SMT DEF Values, Default, Encoded, Numbers, Texts
  <2> QED
    BY <1>1, <2>1, Zenon
<1> QED
  BY <1>2, <1>3, Zenon DEF StringField

LEMMA FloatItem == ASSUME NEW t \in Items, t.tag = 29
                   PROVE  /\ t.value \in float /\ t.raw = <<t.tag>> \o t.value /\ t.tag \in Byte
<1>1. /\ t.tag \in Tags /\ t.value \in Values(t.tag) /\ t.value # Default(t.tag)
      /\ t.raw = Encoded(t.tag, t.value)
  BY IsItem, Zenon
<1>2. /\ Values(29) = float /\ Default(29) = NoFloat
      /\ \A v : Encoded(29, v) = FloatField(29, v)
  BY SMT DEF Values, Default, Encoded, Numbers, Texts
<1>3. t.value \in float /\ t.value # NoFloat /\ t.raw = FloatField(29, t.value)
  BY <1>1, <1>2, Zenon
<1>4. t.tag \in Byte
  BY SMT DEF Byte
<1> QED
  BY <1>3, <1>4, Zenon DEF FloatField

LEMMA FunctionSeq == \A n \in Nat : \A f \in [1..n -> Byte] : f \in Seq(Byte) /\ Len(f) = n
BY SMT

LEMMA FloatBytes == ASSUME NEW f \in float PROVE f \in Seq(Byte) /\ Len(f) = 4
<1>1. f \in [1..4 -> Byte]
  BY Zenon DEF float
<1>2. 4 \in Nat
  BY SMT
<1> QED
  BY <1>1, <1>2, FunctionSeq, Zenon

LEMMA Joined == \A p, q \in Seq(Byte) :
  /\ p \o q \in Seq(Byte) /\ Len(p \o q) = Len(p) + Len(q)
  /\ Len(p) \in Nat /\ Len(q) \in Nat
  /\ \A i \in 1..Len(p) : (p \o q)[i] = p[i]
  /\ \A i \in 1..Len(q) : (p \o q)[Len(p) + i] = q[i]
<1> SUFFICES ASSUME NEW p \in Seq(Byte), NEW q \in Seq(Byte)
             PROVE  /\ p \o q \in Seq(Byte) /\ Len(p \o q) = Len(p) + Len(q)
                    /\ Len(p) \in Nat /\ Len(q) \in Nat
                    /\ \A i \in 1..Len(p) : (p \o q)[i] = p[i]
                    /\ \A i \in 1..Len(q) : (p \o q)[Len(p) + i] = q[i]
  OBVIOUS
<1> QED
  BY Concat

\* A field: its tag, and what follows.
LEMMA TagBytes == ASSUME NEW T \in Byte, NEW s \in Seq(Byte)
                  PROVE  /\ <<T>> \o s \in Seq(Byte) /\ Len(<<T>> \o s) = 1 + Len(s)
                         /\ (<<T>> \o s)[1] = T
                         /\ \A i \in 1..Len(s) : (<<T>> \o s)[1 + i] = s[i]
<1>1. <<T>> \in Seq(Byte) /\ Len(<<T>>) = 1 /\ <<T>>[1] = T
  BY SMT
<1>2. 1 \in 1..1
  BY SMT
<1> DEFINE p == <<T>>
<1> HIDE DEF p
<1>3. p \in Seq(Byte) /\ Len(p) = 1 /\ p[1] = T
  BY <1>1, Zenon DEF p
<1>4. /\ p \o s \in Seq(Byte) /\ Len(p \o s) = Len(p) + Len(s)
      /\ \A i \in 1..Len(p) : (p \o s)[i] = p[i]
      /\ \A i \in 1..Len(s) : (p \o s)[Len(p) + i] = s[i]
  BY <1>3, Joined, Zenon
<1>5. /\ p \o s \in Seq(Byte) /\ Len(p \o s) = 1 + Len(s) /\ (p \o s)[1] = T
      /\ \A i \in 1..Len(s) : (p \o s)[1 + i] = s[i]
  BY <1>2, <1>3, <1>4, Zenon
<1> QED
  BY <1>5, Zenon DEF p

-----------------------------------------------------------------------------
(* Reading an item: Field, where one begins in the stream and may be cut.  *)

\* What begins with two parts begins with the first, and behind it with the second.
LEMMA BeginsParts ==
  ASSUME NEW b, NEW q \in Nat \ {0}, NEW p \in Seq(Byte), NEW r \in Seq(Byte), Begins(b, q, p \o r)
  PROVE  Begins(b, q, p) /\ Begins(b, q + Len(p), r)
<1>1. /\ Len(p \o r) = Len(p) + Len(r) /\ Len(p) \in Nat /\ Len(r) \in Nat
      /\ \A i \in 1..Len(p) : (p \o r)[i] = p[i]
      /\ \A i \in 1..Len(r) : (p \o r)[Len(p) + i] = r[i]
  BY Joined
<1>2. ASSUME NEW i \in 1..Len(p), q + i - 1 <= Len(b) PROVE b[q + i - 1] = p[i]
  <2>1. i \in 1..Len(p \o r)
    BY <1>1, SMT
  <2> QED
    BY <1>1, <1>2, <2>1, Zenon DEF Begins
<1>3. ASSUME NEW i \in 1..Len(r), q + Len(p) + i - 1 <= Len(b) PROVE b[q + Len(p) + i - 1] = r[i]
  <2>1. Len(p) + i \in 1..Len(p \o r) /\ q + (Len(p) + i) - 1 = q + Len(p) + i - 1
    BY <1>1, SMT
  <2> QED
    BY <1>1, <1>3, <2>1, Zenon DEF Begins
<1> QED
  BY <1>2, <1>3, Zenon DEF Begins

\* The part of b that is there is s.
LEMMA SubSeqIs ==
  ASSUME NEW b \in Seq(Byte), NEW q \in Nat \ {0}, NEW s \in Seq(Byte), Begins(b, q, s),
         q + Len(s) - 1 <= Len(b)
  PROVE  SubSeq(b, q, q + Len(s) - 1) = s
<1>1. Len(s) \in Nat /\ Len(b) \in Nat
  BY SMT
<1>2. ASSUME NEW i \in 1..Len(s) PROVE b[q + i - 1] = s[i]
  <2>1. q + i - 1 <= Len(b)
    BY <1>1, SMT
  <2> QED
    BY <2>1, Zenon DEF Begins
<1>3. SubSeq(b, q, q + Len(s) - 1) = [i \in 1..Len(s) |-> b[q + i - 1]]
  BY <1>1, SMT
<1>4. s = [i \in 1..Len(s) |-> s[i]]
  BY <1>1, SMT
<1> QED
  BY <1>2, <1>3, <1>4, Zenon

\* The field at p, where an item begins that may be cut.
FieldOf(t, b, p) ==
  IF p + Len(t.raw) - 1 <= Len(b)
  THEN [tag |-> t.tag, next |-> p + Len(t.raw), raw |-> t.raw, value |-> t.value]
  ELSE [tag |-> t.tag, next |-> 0]

\* The parts of a field, by the wire type in its tag.
LEMMA FieldNumber ==
  ASSUME NEW b, NEW p, b[p] % 8 = 0
  PROVE  /\ FieldEnd(b, p) = VarintEnd(b, p + 1)
         /\ \A last : FieldValue(b, p, last) = ReadVarint32(b, p + 1)
BY SMT DEF FieldEnd, FieldValue

LEMMA FieldString ==
  ASSUME NEW b, NEW p, b[p] % 8 = 2
  PROVE  /\ VarintEnd(b, p + 1) = 0 => FieldEnd(b, p) = 0
         /\ VarintEnd(b, p + 1) # 0 /\ ReadVarint32(b, p + 1) >= 0
              => FieldEnd(b, p) = VarintEnd(b, p + 1) + ReadVarint32(b, p + 1)
         /\ \A last : FieldValue(b, p, last) = SubSeq(b, VarintEnd(b, p + 1) + 1, last)
<1>1. b[p] % 8 # 0 /\ b[p] % 8 # 5
  BY SMT
<1>2. VarintEnd(b, p + 1) = 0 => FieldEnd(b, p) = 0
  BY <1>1, Zenon DEF FieldEnd
<1>3. VarintEnd(b, p + 1) # 0 /\ ReadVarint32(b, p + 1) >= 0
        => FieldEnd(b, p) = VarintEnd(b, p + 1) + ReadVarint32(b, p + 1)
  BY <1>1, Zenon DEF FieldEnd
<1>4. \A last : FieldValue(b, p, last) = SubSeq(b, VarintEnd(b, p + 1) + 1, last)
  BY <1>1, Zenon DEF FieldValue
<1> QED
  BY <1>2, <1>3, <1>4, Zenon

LEMMA FieldFloat ==
  ASSUME NEW b, NEW p, b[p] % 8 = 5
  PROVE  /\ FieldEnd(b, p) = p + 4
         /\ \A last : FieldValue(b, p, last) = SubSeq(b, p + 1, last)
<1>1. b[p] % 8 # 0 /\ b[p] % 8 # 2
  BY SMT
<1> QED
  BY <1>1, Zenon DEF FieldEnd, FieldValue

LEMMA FieldWhole ==
  ASSUME NEW b, NEW p, NEW last, FieldEnd(b, p) = last, last # 0, ~(last > Len(b))
  PROVE  Field(b, p) = [tag |-> b[p], next |-> last + 1, raw |-> SubSeq(b, p, last),
                        value |-> FieldValue(b, p, last)]
BY Zenon DEF Field

LEMMA FieldCut ==
  ASSUME NEW b, NEW p, FieldEnd(b, p) = 0 \/ FieldEnd(b, p) > Len(b)
  PROVE  Field(b, p) = [tag |-> b[p], next |-> 0]
BY Zenon DEF Field

\* Field reads an item of each wire type as it was written, whole or not at all.
LEMMA NumberField ==
  ASSUME NEW t \in Items, t.tag \in Numbers, NEW b \in Seq(Byte), NEW p \in 1..Len(b),
         Begins(b, p, t.raw)
  PROVE  Field(b, p) = FieldOf(t, b, p)
<1> DEFINE v == t.value
           n == Length(v)
<1>1. v \in int32 /\ t.raw = <<t.tag>> \o Varint(v) /\ t.tag \in Byte
  BY NumberItem, Zenon
<1>2. Varint(v) \in Seq(Byte) /\ Len(Varint(v)) = n /\ n \in 1..10
  BY <1>1, VarintBytes, Zenon
<1>3. /\ t.raw \in Seq(Byte) /\ Len(t.raw) = 1 + n /\ t.raw[1] = t.tag
  BY <1>1, <1>2, TagBytes
<1> HIDE DEF v, n
<1>4. p \in Nat \ {0} /\ Len(b) \in Nat /\ p + 1 \in Nat \ {0}
  BY SMT
<1>5. b[p] = t.tag
  <2>1. 1 \in 1..Len(t.raw) /\ p + 1 - 1 = p /\ p + 1 - 1 <= Len(b)
    BY <1>2, <1>3, <1>4, SMT
  <2> QED
    BY <1>3, <2>1, Zenon DEF Begins
<1>6. Begins(b, p + 1, Varint(v))
  <2>1. <<t.tag>> \in Seq(Byte) /\ Len(<<t.tag>>) = 1
    BY <1>1, SMT
  <2>2. Begins(b, p + Len(<<t.tag>>), Varint(v))
    <3>1. Begins(b, p, <<t.tag>> \o Varint(v))
      BY <1>1, Zenon
    <3> QED
      BY <1>2, <1>4, <2>1, <3>1, BeginsParts, Zenon
  <2> QED
    BY <2>1, <2>2, Zenon
<1>7. VarintEnd(b, p + 1) = IF (p + 1) + n - 1 <= Len(b) THEN (p + 1) + n - 1 ELSE 0
  BY <1>1, <1>4, <1>6, EndOfVarint, Zenon DEF n
<1>8. t.tag % 8 = 0
  BY SMT DEF Numbers
<1>9. CASE p + Len(t.raw) - 1 <= Len(b)
  <2>1. VarintEnd(b, p + 1) = p + Len(t.raw) - 1 /\ (p + 1) + n - 1 <= Len(b)
    BY <1>2, <1>3, <1>4, <1>7, <1>9, SMT
  <2>2. ReadVarint32(b, p + 1) = v
    BY <1>1, <1>4, <1>6, <2>1, ValueOfVarint, Zenon DEF n
  <2>3. SubSeq(b, p, p + Len(t.raw) - 1) = t.raw
    BY <1>3, <1>4, <1>9, SubSeqIs, Zenon
  <2> DEFINE e == p + Len(t.raw) - 1
  <2>4. e # 0 /\ ~(e > Len(b)) /\ e + 1 = p + Len(t.raw)
    BY <1>2, <1>3, <1>4, <1>9, SMT
  <2> HIDE DEF e
  <2>5. VarintEnd(b, p + 1) = e /\ SubSeq(b, p, e) = t.raw
    BY <2>1, <2>3, Zenon DEF e
  <2>6. Field(b, p) = [tag |-> t.tag, next |-> e + 1, raw |-> t.raw, value |-> v]
    <3>1. b[p] % 8 = 0
      BY <1>5, <1>8, Zenon
    <3>2. FieldEnd(b, p) = e /\ FieldValue(b, p, e) = v
      BY <2>2, <2>5, <3>1, FieldNumber, Zenon
    <3>3. Field(b, p) = [tag |-> b[p], next |-> e + 1, raw |-> SubSeq(b, p, e),
                         value |-> FieldValue(b, p, e)]
      BY <2>4, <3>2, FieldWhole, Zenon
    <3> QED
      BY <1>5, <2>5, <3>2, <3>3, Zenon
  <2> QED
    BY <1>9, <2>4, <2>6, Zenon DEF FieldOf, v
<1>10. CASE ~(p + Len(t.raw) - 1 <= Len(b))
  <2>1. VarintEnd(b, p + 1) = 0
    BY <1>2, <1>3, <1>4, <1>7, <1>10, SMT
  <2>2. Field(b, p) = [tag |-> t.tag, next |-> 0]
    <3>1. FieldEnd(b, p) = 0
      BY <1>5, <1>8, <2>1, FieldNumber, Zenon
    <3> QED
      BY <1>5, <3>1, FieldCut, Zenon
  <2> QED
    BY <1>10, <2>2, Zenon DEF FieldOf
<1> QED
  BY <1>9, <1>10, Zenon

LEMMA FloatFieldAt ==
  ASSUME NEW t \in Items, t.tag = 29, NEW b \in Seq(Byte), NEW p \in 1..Len(b),
         Begins(b, p, t.raw)
  PROVE  Field(b, p) = FieldOf(t, b, p)
<1> DEFINE f == t.value
<1>1. f \in float /\ t.raw = <<t.tag>> \o f /\ t.tag \in Byte
  BY FloatItem, Zenon
<1> HIDE DEF f
<1>2. f \in Seq(Byte) /\ Len(f) = 4
  BY <1>1, FloatBytes, Zenon
<1>3. /\ t.raw \in Seq(Byte) /\ Len(t.raw) = 1 + 4 /\ t.raw[1] = t.tag
  <2>1. /\ <<t.tag>> \o f \in Seq(Byte) /\ Len(<<t.tag>> \o f) = 1 + Len(f)
        /\ (<<t.tag>> \o f)[1] = t.tag
    BY <1>1, <1>2, TagBytes, ZenonT(40)
  <2> QED
    BY <1>1, <1>2, <2>1, Zenon
<1>4. p \in Nat \ {0} /\ Len(b) \in Nat /\ p + 1 \in Nat \ {0}
  BY SMT
<1>5. b[p] = t.tag
  <2>1. 1 \in 1..Len(t.raw) /\ p + 1 - 1 = p /\ p + 1 - 1 <= Len(b)
    BY <1>2, <1>3, <1>4, SMT
  <2> QED
    BY <1>3, <2>1, Zenon DEF Begins
<1>6. Begins(b, p + 1, f)
  <2>1. <<t.tag>> \in Seq(Byte) /\ Len(<<t.tag>>) = 1
    BY <1>1, SMT
  <2>2. Begins(b, p + Len(<<t.tag>>), f)
    <3>1. Begins(b, p, <<t.tag>> \o f)
      BY <1>1, Zenon
    <3> QED
      BY <1>2, <1>4, <2>1, <3>1, BeginsParts, Zenon
  <2> QED
    BY <2>1, <2>2, Zenon
<1>7. t.tag % 8 = 5
  BY SMT
<1> DEFINE e == p + 4
<1>8. /\ e # 0 /\ e + 1 = p + Len(t.raw) /\ p + Len(t.raw) - 1 = e /\ (p + 1) + Len(f) - 1 = e
      /\ (e > Len(b) <=> ~(e <= Len(b)))
  BY <1>2, <1>3, <1>4, SMT
<1>9. CASE e <= Len(b)
  <2>1. SubSeq(b, p, p + Len(t.raw) - 1) = t.raw
    BY <1>3, <1>4, <1>8, <1>9, SubSeqIs, Zenon
  <2>2. SubSeq(b, p + 1, (p + 1) + Len(f) - 1) = f
    BY <1>2, <1>4, <1>6, <1>8, <1>9, SubSeqIs, Zenon
  <2>3. SubSeq(b, p, p + 4) = t.raw /\ SubSeq(b, p + 1, p + 4) = f
    BY <1>8, <2>1, <2>2, Zenon
  <2>4. Field(b, p) = [tag |-> t.tag, next |-> p + 4 + 1, raw |-> t.raw, value |-> f]
    <3>1. FieldEnd(b, p) = e /\ FieldValue(b, p, e) = f
      BY <1>5, <1>7, <2>3, FieldFloat, Zenon
    <3>2. Field(b, p) = [tag |-> b[p], next |-> e + 1, raw |-> SubSeq(b, p, e),
                         value |-> FieldValue(b, p, e)]
      BY <1>8, <1>9, <3>1, FieldWhole, Zenon
    <3> QED
      BY <1>5, <2>3, <3>1, <3>2, Zenon
  <2> QED
    BY <1>8, <1>9, <2>4, Zenon DEF FieldOf, f
<1>10. CASE ~(e <= Len(b))
  <2>1. Field(b, p) = [tag |-> t.tag, next |-> 0]
    <3>1. FieldEnd(b, p) = e /\ e > Len(b)
      BY <1>5, <1>7, <1>8, <1>10, FieldFloat, Zenon
    <3> QED
      BY <1>5, <3>1, FieldCut, Zenon
  <2> QED
    BY <1>8, <1>10, <2>1, Zenon DEF FieldOf
<1> QED
  BY <1>9, <1>10, Zenon

LEMMA StringArithmetic ==
  ASSUME NEW p \in Nat \ {0}, NEW n \in 1..10, NEW l \in Nat, NEW B \in Nat, NEW h, NEW r, NEW k,
         h = 1 + n, r = h + l, k = l
  PROVE  LET e == p + n
             last == p + n + l
         IN  /\ e # 0 /\ (p + 1) + n - 1 = e /\ e + l = last /\ last + 1 = p + r
             /\ p + r - 1 = last /\ last # 0 /\ (last > B <=> ~(last <= B))
             /\ (e + 1) + k - 1 = last /\ e + 1 = p + h /\ e + 1 \in Nat \ {0}
             /\ e \in Nat /\ last \in Nat
BY SMT

LEMMA StringFieldAt ==
  ASSUME NEW t \in Items, t.tag \in Texts, NEW b \in Seq(Byte), NEW p \in 1..Len(b),
         Begins(b, p, t.raw)
  PROVE  Field(b, p) = FieldOf(t, b, p)
<1> DEFINE s == t.value
           l == Len(s)
           n == Length(l)
           head == <<t.tag>> \o Varint(l)
<1>1. s \in string /\ t.raw = head \o s /\ t.tag \in Byte
  BY StringItem, Zenon
<1>2. s \in Seq(Byte) /\ l \in Nat /\ l \in int32
  BY <1>1, StringBytes, Zenon
<1> HIDE DEF s, l
<1>3. Varint(l) \in Seq(Byte) /\ Len(Varint(l)) = n /\ n \in 1..10
  BY <1>2, VarintBytes, Zenon
<1> HIDE DEF n
<1>4. /\ head \in Seq(Byte) /\ Len(head) = 1 + n /\ head[1] = t.tag
  BY <1>1, <1>3, TagBytes
<1>5. p \in Nat \ {0} /\ Len(b) \in Nat /\ p + 1 \in Nat \ {0}
  BY SMT
<1>6. Begins(b, p, head) /\ Begins(b, p + Len(head), s)
  BY <1>1, <1>2, <1>4, <1>5, BeginsParts, Zenon
<1>7. b[p] = t.tag
  <2>1. 1 \in 1..Len(head) /\ p + 1 - 1 = p /\ p + 1 - 1 <= Len(b)
    BY <1>3, <1>4, <1>5, SMT
  <2> QED
    BY <1>4, <1>6, <2>1, Zenon DEF Begins
<1>8. Begins(b, p + 1, Varint(l))
  <2>1. <<t.tag>> \in Seq(Byte) /\ Len(<<t.tag>>) = 1
    BY <1>1, SMT
  <2>2. Begins(b, p + Len(<<t.tag>>), Varint(l))
    BY <1>3, <1>5, <1>6, <2>1, BeginsParts, Zenon
  <2> QED
    BY <2>1, <2>2, Zenon
<1> HIDE DEF head
<1>9. /\ t.raw \in Seq(Byte) /\ Len(t.raw) = Len(head) + l
  BY <1>1, <1>2, <1>4, Joined, Zenon DEF l
<1>10. VarintEnd(b, p + 1) = IF (p + 1) + n - 1 <= Len(b) THEN (p + 1) + n - 1 ELSE 0
  BY <1>2, <1>5, <1>8, EndOfVarint, Zenon DEF n
<1>11. t.tag % 8 = 2
  BY SMT DEF Texts
<1> DEFINE e == p + n
           last == p + n + l
<1>12. /\ e # 0 /\ (p + 1) + n - 1 = e /\ e + l = last /\ last + 1 = p + Len(t.raw)
       /\ p + Len(t.raw) - 1 = last /\ last # 0 /\ (last > Len(b) <=> ~(last <= Len(b)))
       /\ (e + 1) + Len(s) - 1 = last /\ e + 1 = p + Len(head) /\ e + 1 \in Nat \ {0}
       /\ e \in Nat /\ last \in Nat
  <2>1. Len(s) = l
    BY Zenon DEF l
  <2>2. /\ p \in Nat \ {0} /\ Len(b) \in Nat /\ n \in 1..10 /\ l \in Nat
        /\ Len(head) = 1 + n /\ Len(t.raw) = Len(head) + l
    BY <1>2, <1>3, <1>4, <1>5, <1>9, Zenon
  <2> QED
    BY <2>1, <2>2, StringArithmetic DEF e, last
<1> HIDE DEF e, last
<1>13. CASE last <= Len(b)
  <2>1. e <= Len(b)
    BY <1>2, <1>5, <1>12, <1>13, SMT
  <2>2. VarintEnd(b, p + 1) = e
    BY <1>10, <1>12, <2>1, Zenon
  <2>3. ReadVarint32(b, p + 1) = l
    BY <1>2, <1>5, <1>8, <1>12, <2>1, ValueOfVarint, Zenon DEF n
  <2>4. SubSeq(b, p, last) = t.raw
    <3>1. SubSeq(b, p, p + Len(t.raw) - 1) = t.raw
      BY <1>5, <1>9, <1>12, <1>13, SubSeqIs, Zenon
    <3> QED
      BY <1>12, <3>1, Zenon
  <2>5. SubSeq(b, e + 1, last) = s
    <3>1. SubSeq(b, e + 1, (e + 1) + Len(s) - 1) = s
      BY <1>2, <1>6, <1>12, <1>13, SubSeqIs, Zenon
    <3> QED
      BY <1>12, <3>1, Zenon
  <2>6. Field(b, p) = [tag |-> t.tag, next |-> last + 1, raw |-> t.raw, value |-> s]
    <3>1. l >= 0
      BY <1>2, SMT
    <3> QED
      <4>1. FieldEnd(b, p) = last /\ FieldValue(b, p, last) = s
        <5>1. b[p] % 8 = 2
          BY <1>7, <1>11, Zenon
        <5>2. VarintEnd(b, p + 1) # 0 /\ ReadVarint32(b, p + 1) >= 0
          BY <1>12, <2>2, <2>3, <3>1, Zenon
        <5>3. FieldEnd(b, p) = VarintEnd(b, p + 1) + ReadVarint32(b, p + 1)
          BY <5>1, <5>2, FieldString, Zenon
        <5>4. FieldEnd(b, p) = last
          BY <1>12, <2>2, <2>3, <5>3, Zenon
        <5>5. FieldValue(b, p, last) = s
          <6>1. FieldValue(b, p, last) = SubSeq(b, VarintEnd(b, p + 1) + 1, last)
            BY <5>1, FieldString, Zenon
          <6> QED
            BY <2>2, <2>5, <6>1, Zenon
        <5> QED
          BY <5>4, <5>5, Zenon
      <4>2. Field(b, p) = [tag |-> b[p], next |-> last + 1, raw |-> SubSeq(b, p, last),
                           value |-> FieldValue(b, p, last)]
        BY <1>12, <1>13, <4>1, FieldWhole, Zenon
      <4> QED
        BY <1>7, <2>4, <4>1, <4>2, Zenon
  <2> QED
    BY <1>12, <1>13, <2>6, Zenon DEF FieldOf, s
<1>14. CASE ~(last <= Len(b))
  <2>1. Field(b, p) = [tag |-> t.tag, next |-> 0]
    <3>1. CASE e <= Len(b)
      <4>1. VarintEnd(b, p + 1) = e
        BY <1>10, <1>12, <3>1, Zenon
      <4>2. ReadVarint32(b, p + 1) = l
        BY <1>2, <1>5, <1>8, <1>12, <3>1, ValueOfVarint, Zenon DEF n
      <4>3. l >= 0
        BY <1>2, SMT
      <4> QED
        <5>1. FieldEnd(b, p) = last /\ last > Len(b)
          BY <1>7, <1>11, <1>12, <1>14, <4>1, <4>2, <4>3, FieldString, Zenon
        <5> QED
          BY <1>7, <5>1, FieldCut, Zenon
    <3>2. CASE ~(e <= Len(b))
      <4>1. VarintEnd(b, p + 1) = 0
        BY <1>10, <1>12, <3>2, Zenon
      <4> QED
        <5>1. FieldEnd(b, p) = 0
          BY <1>7, <1>11, <4>1, FieldString, Zenon
        <5> QED
          BY <1>7, <5>1, FieldCut, Zenon
    <3> QED
      BY <3>1, <3>2, Zenon
  <2> QED
    BY <1>12, <1>14, <2>1, Zenon DEF FieldOf
<1> QED
  BY <1>13, <1>14, Zenon

\* Field on any item.
LEMMA FieldOfItem ==
  ASSUME NEW t \in Items, NEW b \in Seq(Byte), NEW p \in 1..Len(b), Begins(b, p, t.raw)
  PROVE  Field(b, p) = FieldOf(t, b, p)
<1>1. t.tag \in Numbers \/ t.tag \in Texts \/ t.tag = 29
  BY IsItem, SMT DEF Tags, Numbers, Texts
<1> QED
  BY <1>1, NumberField, StringFieldAt, FloatFieldAt, Zenon

-----------------------------------------------------------------------------
(* Streams: b is the items its, one behind the other; e[i] ends the i-th.  *)

\* Each item lies behind the one before it, and the last ends the stream.
Offsets(b, its, e) ==
  /\ e \in [0..Len(its) -> Nat]
  /\ e[0] = 0 /\ e[Len(its)] = Len(b)
  /\ \A i \in 1..Len(its) :
       /\ e[i] = e[i-1] + Len(its[i].raw) /\ e[i] <= Len(b)
       /\ \A j \in 1..Len(its[i].raw) : b[e[i-1] + j] = its[i].raw[j]

Laid(b, its) == b \in Seq(Byte) /\ its \in Seq(Items) /\ \E e : Offsets(b, its, e)

LEMMA RawIsBytes == ASSUME NEW t \in Items
                    PROVE  t.raw \in Seq(Byte) /\ Len(t.raw) \in Nat /\ Len(t.raw) > 0
<1>1. t.tag \in Numbers \/ t.tag \in Texts \/ t.tag = 29
  BY IsItem, SMT DEF Tags, Numbers, Texts
<1>2. CASE t.tag \in Numbers
  <2>1. t.value \in int32 /\ t.raw = <<t.tag>> \o Varint(t.value) /\ t.tag \in Byte
    BY <1>2, NumberItem, Zenon
  <2>2. Varint(t.value) \in Seq(Byte)
    BY <2>1, VarintBytes, Zenon
  <2>3. t.raw \in Seq(Byte) /\ Len(t.raw) = 1 + Len(Varint(t.value))
    BY <2>1, <2>2, TagBytes, Zenon
  <2>4. Len(Varint(t.value)) \in Nat
    BY <2>2, LenProperties, Zenon
  <2> QED
    BY <2>3, <2>4, SMT
<1>3. CASE t.tag \in Texts
  <2>1. /\ t.value \in string /\ t.tag \in Byte
        /\ t.raw = (<<t.tag>> \o Varint(Len(t.value))) \o t.value
    BY <1>3, StringItem, Zenon
  <2>2. t.value \in Seq(Byte) /\ Len(t.value) \in int32
    BY <2>1, StringBytes, Zenon
  <2>3. Varint(Len(t.value)) \in Seq(Byte)
    BY <2>2, VarintBytes, Zenon
  <2> DEFINE h == <<t.tag>> \o Varint(Len(t.value))
  <2>4. h \in Seq(Byte) /\ Len(h) = 1 + Len(Varint(Len(t.value)))
    BY <2>1, <2>3, TagBytes, Zenon
  <2>5. t.raw = h \o t.value
    BY <2>1, Zenon
  <2> HIDE DEF h
  <2>6. t.raw \in Seq(Byte) /\ Len(t.raw) = Len(h) + Len(t.value)
    <3>1. h \o t.value \in Seq(Byte) /\ Len(h \o t.value) = Len(h) + Len(t.value)
      BY <2>2, <2>4, Joined, Zenon
    <3> QED
      BY <2>5, <3>1, Zenon
  <2>7. Len(Varint(Len(t.value))) \in Nat /\ Len(t.value) \in Nat
    BY <2>2, <2>3, LenProperties, Zenon
  <2>8. \A i, j \in Nat : (1 + i) + j \in Nat /\ (1 + i) + j > 0
    BY SMT
  <2>9. Len(t.raw) = (1 + Len(Varint(Len(t.value)))) + Len(t.value)
    BY <2>4, <2>6, Zenon
  <2> QED
    BY <2>6, <2>7, <2>8, <2>9, Zenon
<1>4. CASE t.tag = 29
  <2>1. t.value \in float /\ t.raw = <<t.tag>> \o t.value /\ t.tag \in Byte
    BY <1>4, FloatItem, Zenon
  <2>2. t.value \in Seq(Byte) /\ Len(t.value) = 4
    BY <2>1, FloatBytes, Zenon
  <2>3. t.raw \in Seq(Byte) /\ Len(t.raw) = 1 + Len(t.value)
    <3>1. <<t.tag>> \o t.value \in Seq(Byte) /\ Len(<<t.tag>> \o t.value) = 1 + Len(t.value)
      BY <2>1, <2>2, TagBytes, Zenon
    <3> QED
      BY <2>1, <3>1, Zenon
  <2> QED
    BY <2>2, <2>3, SMT
<1> QED
  BY <1>1, <1>2, <1>3, <1>4, Zenon

\* No item is no byte, and one is its bytes.
LEMMA LaidEmpty == Laid(<<>>, <<>>)
<1>1. Offsets(<<>>, <<>>, [i \in 0..0 |-> 0])
  BY SMT DEF Offsets
<1>2. <<>> \in Seq(Byte) /\ <<>> \in Seq(Items)
  BY SMT
<1> QED
  BY <1>1, <1>2, Zenon DEF Laid

LEMMA LaidOne == ASSUME NEW t \in Items PROVE Laid(t.raw, <<t>>)
<1>1. t.raw \in Seq(Byte) /\ Len(t.raw) \in Nat
  BY RawIsBytes, Zenon
<1>2. <<t>> \in Seq(Items) /\ Len(<<t>>) = 1 /\ <<t>>[1] = t
  BY SMT
<1> DEFINE n == Len(t.raw)
           e == [i \in 0..1 |-> IF i = 0 THEN 0 ELSE n]
<1>3. /\ e \in [0..Len(<<t>>) -> Nat] /\ e[0] = 0 /\ e[Len(<<t>>)] = n
  BY <1>1, <1>2, SMT
<1>4. ASSUME NEW i \in 1..Len(<<t>>)
      PROVE  /\ e[i] = e[i-1] + Len(<<t>>[i].raw) /\ e[i] <= n
             /\ \A j \in 1..Len(<<t>>[i].raw) : t.raw[e[i-1] + j] = <<t>>[i].raw[j]
  <2>1. i = 1 /\ i - 1 = 0
    BY <1>2, SMT
  <2>2. <<t>>[i] = t /\ e[i-1] = 0 /\ e[i] = n
    BY <1>2, <1>3, <2>1, Zenon
  <2> HIDE DEF e
  <2>3. \A j \in 1..n : 0 + j = j
    BY SMT
  <2>4. n = 0 + n /\ n <= n
    BY <1>1, SMT
  <2> QED
    BY <2>2, <2>3, <2>4, Zenon
<1>5. Offsets(t.raw, <<t>>, e)
  <2> HIDE DEF e
  <2> QED
    BY <1>3, <1>4, Zenon DEF Offsets
<1> QED
  BY <1>1, <1>2, <1>5, Zenon DEF Laid

LEMMA Shifted == \A a, u, v, n, B \in Nat : v = u + n /\ v <= B =>
  /\ a + v = (a + u) + n /\ a + v <= a + B
  /\ \A j \in 1..n : u + j \in 1..B /\ (a + u) + j = a + (u + j)
BY SMT

\* One stream behind another.
LEMMA LaidJoined ==
  ASSUME NEW b1, NEW its1, NEW b2, NEW its2, Laid(b1, its1), Laid(b2, its2)
  PROVE  Laid(b1 \o b2, its1 \o its2)
<1>1. PICK e1 : Offsets(b1, its1, e1)
  BY Zenon DEF Laid
<1>2. PICK e2 : Offsets(b2, its2, e2)
  BY Zenon DEF Laid
<1> DEFINE b == b1 \o b2
           its == its1 \o its2
           n1 == Len(its1)
           n2 == Len(its2)
           e == [i \in 0..n1+n2 |-> IF i <= n1 THEN e1[i] ELSE Len(b1) + e2[i - n1]]
<1>3. b1 \in Seq(Byte) /\ b2 \in Seq(Byte) /\ its1 \in Seq(Items) /\ its2 \in Seq(Items)
  BY Zenon DEF Laid
<1>4. /\ b \in Seq(Byte) /\ Len(b) = Len(b1) + Len(b2) /\ Len(b1) \in Nat /\ Len(b2) \in Nat
      /\ \A i \in 1..Len(b1) : b[i] = b1[i]
      /\ \A i \in 1..Len(b2) : b[Len(b1) + i] = b2[i]
  BY <1>3, Joined, Zenon
<1>5. /\ its \in Seq(Items) /\ Len(its) = n1 + n2 /\ n1 \in Nat /\ n2 \in Nat
      /\ \A i \in 1..n1 : its[i] = its1[i]
      /\ \A i \in 1..n2 : its[n1 + i] = its2[i]
  BY <1>3, Concat
<1> HIDE DEF b, its, n1, n2
<1>6. /\ e1 \in [0..n1 -> Nat] /\ e1[0] = 0 /\ e1[n1] = Len(b1)
      /\ e2 \in [0..n2 -> Nat] /\ e2[0] = 0 /\ e2[n2] = Len(b2)
  BY <1>1, <1>2, Zenon DEF Offsets, n1, n2
<1>7. ASSUME NEW i \in 1..n1
      PROVE  /\ e1[i] = e1[i-1] + Len(its1[i].raw) /\ e1[i] <= Len(b1)
             /\ \A j \in 1..Len(its1[i].raw) : b1[e1[i-1] + j] = its1[i].raw[j]
             /\ its1[i] \in Items
  BY <1>1, <1>3, Zenon, ElementOfSeq DEF Offsets, n1
<1>8. ASSUME NEW i \in 1..n2
      PROVE  /\ e2[i] = e2[i-1] + Len(its2[i].raw) /\ e2[i] <= Len(b2)
             /\ \A j \in 1..Len(its2[i].raw) : b2[e2[i-1] + j] = its2[i].raw[j]
             /\ its2[i] \in Items
  BY <1>2, <1>3, Zenon, ElementOfSeq DEF Offsets, n2
<1>9. \A i \in 0..n1 : e[i] = e1[i]
  BY <1>5, SMT
<1>10. \A i \in 0..n2 : e[n1 + i] = Len(b1) + e2[i]
  <2>1. ASSUME NEW i \in 0..n2, i # 0 PROVE e[n1 + i] = Len(b1) + e2[i]
    BY <1>5, <2>1, SMT
  <2>2. e[n1 + 0] = Len(b1) + e2[0]
    <3>1. n1 \in 0..n1 /\ n1 + 0 = n1 /\ Len(b1) + 0 = Len(b1)
      BY <1>4, <1>5, SMT
    <3> QED
      BY <1>6, <1>9, <3>1, Zenon
  <2> QED
    BY <2>1, <2>2, Zenon
<1>11. e \in [0..n1+n2 -> Nat]
  BY <1>4, <1>5, <1>6, SMT
<1> HIDE DEF e
<1>12. e[0] = 0 /\ e[n1+n2] = Len(b)
  <2>1. 0 \in 0..n1 /\ n2 \in 0..n2
    BY <1>5, SMT
  <2> QED
    BY <1>4, <1>6, <1>9, <1>10, <2>1, Zenon
<1>13. ASSUME NEW i \in 1..n1+n2
       PROVE  /\ e[i] = e[i-1] + Len(its[i].raw) /\ e[i] <= Len(b)
              /\ \A j \in 1..Len(its[i].raw) : b[e[i-1] + j] = its[i].raw[j]
  <2>1. CASE i \in 1..n1
    <3>1. its[i] = its1[i] /\ e1[i] = e1[i-1] + Len(its1[i].raw) /\ e1[i] <= Len(b1)
      BY <1>5, <1>7, <2>1, Zenon
    <3>2. i \in 0..n1 /\ i - 1 \in 0..n1
      BY <1>5, <2>1, SMT
    <3>3. e[i] = e1[i] /\ e[i-1] = e1[i-1] /\ e1[i] \in Nat /\ e1[i-1] \in Nat
      BY <1>6, <1>9, <3>2, Zenon
    <3>4. e[i] <= Len(b)
      BY <1>4, <3>1, <3>3, SMT
    <3>5. ASSUME NEW j \in 1..Len(its[i].raw) PROVE b[e[i-1] + j] = its[i].raw[j]
      <4>1. Len(its1[i].raw) \in Nat
        BY <1>7, <2>1, RawIsBytes, Zenon
      <4>2. e1[i-1] + j \in 1..Len(b1)
        BY <1>4, <3>1, <3>3, <4>1, SMTT(40)
      <4>3. b1[e1[i-1] + j] = its1[i].raw[j]
        BY <1>7, <2>1, <3>1, Zenon
      <4> QED
        BY <1>4, <3>1, <3>3, <4>2, <4>3, Zenon
    <3> QED
      BY <3>1, <3>3, <3>4, <3>5, Zenon
  <2>2. CASE i \notin 1..n1
    <3>1. PICK k \in 1..n2 : i = n1 + k
      <4>1. i - n1 \in 1..n2 /\ i = n1 + (i - n1)
        BY <1>5, <2>2, SMT
      <4> QED
        BY <4>1, Zenon
    <3>2. its[i] = its2[k] /\ e2[k] = e2[k-1] + Len(its2[k].raw) /\ e2[k] <= Len(b2)
      BY <1>5, <1>8, <3>1, Zenon
    <3>3. k \in 0..n2 /\ k - 1 \in 0..n2 /\ i - 1 = n1 + (k - 1)
      BY <1>5, <3>1, SMT
    <3>4. e[i] = Len(b1) + e2[k] /\ e[i-1] = Len(b1) + e2[k-1] /\ e2[k] \in Nat /\ e2[k-1] \in Nat
      BY <1>6, <1>10, <3>1, <3>3, Zenon
    <3>5. Len(its2[k].raw) \in Nat
      BY <1>8, RawIsBytes, Zenon
    <3>6. /\ Len(b1) + e2[k] = (Len(b1) + e2[k-1]) + Len(its2[k].raw)
          /\ Len(b1) + e2[k] <= Len(b1) + Len(b2)
          /\ \A j \in 1..Len(its2[k].raw) :
               e2[k-1] + j \in 1..Len(b2) /\ (Len(b1) + e2[k-1]) + j = Len(b1) + (e2[k-1] + j)
      <4> DEFINE a == Len(b1)
                 u == e2[k-1]
                 v == e2[k]
                 n == Len(its2[k].raw)
                 B == Len(b2)
      <4>1. a \in Nat /\ u \in Nat /\ v \in Nat /\ n \in Nat /\ B \in Nat /\ v = u + n /\ v <= B
        BY <1>4, <3>2, <3>4, <3>5, Zenon
      <4> HIDE DEF a, u, v, n, B
      <4>2. /\ a + v = (a + u) + n /\ a + v <= a + B
            /\ \A j \in 1..n : u + j \in 1..B /\ (a + u) + j = a + (u + j)
        BY <4>1, Shifted
      <4> QED
        BY <4>2, Zenon DEF a, u, v, n, B
    <3>7. e[i] = e[i-1] + Len(its2[k].raw) /\ e[i] <= Len(b)
      <4>1. Len(b1) + e2[k] = (Len(b1) + e2[k-1]) + Len(its2[k].raw)
            /\ Len(b1) + e2[k] <= Len(b1) + Len(b2)
        BY <3>6, Zenon
      <4> QED
        BY <1>4, <3>4, <4>1, Zenon
    <3>8. ASSUME NEW j \in 1..Len(its2[k].raw) PROVE b[e[i-1] + j] = its2[k].raw[j]
      <4>1. e2[k-1] + j \in 1..Len(b2) /\ (Len(b1) + e2[k-1]) + j = Len(b1) + (e2[k-1] + j)
        BY <3>6, Zenon
      <4>2. b2[e2[k-1] + j] = its2[k].raw[j]
        BY <1>8, Zenon
      <4> QED
        BY <1>4, <3>4, <4>1, <4>2, Zenon
    <3> QED
      BY <3>2, <3>7, <3>8, Zenon
  <2> QED
    BY <2>1, <2>2, Zenon
<1>14. Offsets(b, its, e)
  BY <1>5, <1>11, <1>12, <1>13, Zenon DEF Offsets
<1> QED
  BY <1>4, <1>5, <1>14, Zenon DEF Laid, b, its

-----------------------------------------------------------------------------
(* The value a reader gets for a tag: the last one.                        *)

\* v is the value of the last of the first j items that has the tag T, the
\* default if there is none.
Last(its, j, T, v) ==
  \/ \E i \in 1..j : its[i].tag = T /\ its[i].value = v /\ \A k \in i+1..j : its[k].tag # T
  \/ v = Default(T) /\ \A k \in 1..j : its[k].tag # T

LEMMA LastIsUnique == ASSUME NEW its, NEW j \in Nat, NEW T, NEW v, NEW u, Last(its, j, T, v),
                             Last(its, j, T, u)
                      PROVE  u = v
<1>1. ASSUME NEW i \in 1..j, its[i].tag = T, \A k \in i+1..j : its[k].tag # T,
             NEW h \in 1..j, its[h].tag = T, \A k \in h+1..j : its[k].tag # T
      PROVE  h = i
  <2>1. ~(h \in i+1..j) /\ ~(i \in h+1..j)
    BY <1>1, Zenon
  <2> QED
    BY <2>1, SMT
<1> DEFINE At(i, w) == its[i].tag = T /\ its[i].value = w /\ \A k \in i+1..j : its[k].tag # T
           None(w) == w = Default(T) /\ \A k \in 1..j : its[k].tag # T
<1>2. ((\E i \in 1..j : At(i, v)) \/ None(v)) /\ ((\E i \in 1..j : At(i, u)) \/ None(u))
  BY Zenon DEF Last
<1>3. CASE \E i \in 1..j : At(i, v)
  <2>1. PICK i \in 1..j : At(i, v)
    BY <1>3, Zenon
  <2>2. ~None(u)
    BY <2>1, Zenon
  <2>3. PICK h \in 1..j : At(h, u)
    BY <1>2, <2>2, Zenon
  <2>4. h = i
    BY <1>1, <2>1, <2>3, Zenon
  <2> QED
    BY <2>1, <2>3, <2>4, Zenon
<1>4. CASE None(v)
  <2>1. ~\E h \in 1..j : At(h, u)
    BY <1>4, Zenon
  <2> QED
    BY <1>2, <1>4, <2>1, Zenon
<1> QED
  BY <1>2, <1>3, <1>4, Zenon

LEMMA LastOfNone == ASSUME NEW its, NEW T PROVE Last(its, 0, T, Default(T))
<1>1. 1..0 = {}
  BY SMT
<1> QED
  BY <1>1, Zenon DEF Last

LEMMA LastOfAbsent == ASSUME NEW its, NEW j, NEW T, \A k \in 1..j : its[k].tag # T
                      PROVE  Last(its, j, T, Default(T))
BY Zenon DEF Last

LEMMA LastIsThere == ASSUME NEW its, NEW j, NEW T, NEW v, Last(its, j, T, v), v # Default(T)
                     PROVE  \E i \in 1..j : its[i].tag = T /\ its[i].value = v
BY Zenon DEF Last

\* The last value after one more item, and in two sequences joined.
LEMMA LastNext ==
  ASSUME NEW its, NEW j \in Nat, NEW T, NEW v,
         IF its[j+1].tag = T THEN v = its[j+1].value ELSE Last(its, j, T, v)
  PROVE  Last(its, j + 1, T, v)
<1>1. CASE its[j+1].tag = T
  <2>1. j + 1 \in 1..j+1 /\ j+1+1..j+1 = {}
    BY SMT
  <2>2. its[j+1].value = v
    BY <1>1, Zenon
  <2>3. \A k \in j+1+1..j+1 : its[k].tag # T
    BY <2>1, Zenon
  <2> QED
    BY <1>1, <2>1, <2>2, <2>3, Zenon DEF Last
<1>2. CASE its[j+1].tag # T
  <2>1. Last(its, j, T, v)
    BY <1>2, Zenon
  <2>2. \A k \in 1..j+1 : k \in 1..j \/ k = j + 1
    BY SMT
  <2>3. \A i \in 1..j : i \in 1..j+1 /\ \A k \in i+1..j+1 : k \in i+1..j \/ k = j + 1
    BY SMT
  <2> QED
    BY <1>2, <2>1, <2>2, <2>3, Zenon DEF Last
<1> QED
  BY <1>1, <1>2, Zenon

LEMMA LastJoined ==
  ASSUME NEW s1 \in Seq(Items), NEW s2 \in Seq(Items), NEW T, NEW v1, NEW v2,
         Last(s1, Len(s1), T, v1), Last(s2, Len(s2), T, v2)
  PROVE  Last(s1 \o s2, Len(s1 \o s2), T, Or(v2, Default(T), v1))
<1> DEFINE s == s1 \o s2
           n1 == Len(s1)
           n2 == Len(s2)
<1>1. /\ s \in Seq(Items) /\ Len(s) = n1 + n2 /\ n1 \in Nat /\ n2 \in Nat
      /\ \A i \in 1..n1 : s[i] = s1[i]
      /\ \A i \in 1..n2 : s[n1 + i] = s2[i]
  BY Concat
<1> HIDE DEF s
<1>2. \A k \in 1..n1+n2 : k \in 1..n1 \/ \E h \in 1..n2 : k = n1 + h
  <2>1. ASSUME NEW k \in 1..n1+n2, k \notin 1..n1 PROVE k - n1 \in 1..n2 /\ k = n1 + (k - n1)
    BY <1>1, <2>1, SMT
  <2> QED
    BY <2>1, Zenon
<1>3. CASE \E i \in 1..n2 : s2[i].tag = T /\ s2[i].value = v2 /\ \A k \in i+1..n2 : s2[k].tag # T
  <2>1. PICK i \in 1..n2 : s2[i].tag = T /\ s2[i].value = v2 /\ \A k \in i+1..n2 : s2[k].tag # T
    BY <1>3, Zenon
  <2>2. v2 # Default(T)
    <3>1. s2[i] \in Items
      BY ElementOfSeq, Zenon
    <3> QED
      BY <2>1, <3>1, IsItem, Zenon
  <2>3. n1 + i \in 1..n1+n2 /\ s[n1 + i].tag = T /\ s[n1 + i].value = v2
    <3>1. n1 + i \in 1..n1+n2
      BY <1>1, SMT
    <3> QED
      BY <1>1, <2>1, <3>1, Zenon
  <2>4. ASSUME NEW k \in (n1+i)+1..n1+n2 PROVE s[k].tag # T
    <3>1. k - n1 \in i+1..n2 /\ k - n1 \in 1..n2 /\ k = n1 + (k - n1)
      BY <1>1, SMT
    <3> QED
      BY <1>1, <2>1, <3>1, Zenon
  <2>5. Or(v2, Default(T), v1) = v2
    BY <2>2, Zenon DEF Or
  <2> QED
    BY <1>1, <2>3, <2>4, <2>5, Zenon DEF Last, s
<1>4. CASE v2 = Default(T) /\ \A k \in 1..n2 : s2[k].tag # T
  <2>1. Or(v2, Default(T), v1) = v1
    BY <1>4, Zenon DEF Or
  <2>2. CASE \E i \in 1..n1 : s1[i].tag = T /\ s1[i].value = v1 /\ \A k \in i+1..n1 : s1[k].tag # T
    <3>1. PICK i \in 1..n1 : s1[i].tag = T /\ s1[i].value = v1 /\ \A k \in i+1..n1 : s1[k].tag # T
      BY <2>2, Zenon
    <3>2. i \in 1..n1+n2 /\ \A k \in i+1..n1+n2 : k \in 1..n1+n2 /\ (k \in 1..n1 => k \in i+1..n1)
      BY <1>1, SMT
    <3>3. ASSUME NEW k \in i+1..n1+n2 PROVE s[k].tag # T
      <4>1. CASE k \in 1..n1
        BY <1>1, <3>1, <3>2, <4>1, Zenon
      <4>2. CASE k \notin 1..n1
        <5>1. PICK h \in 1..n2 : k = n1 + h
          BY <1>2, <3>2, <4>2, Zenon
        <5> QED
          BY <1>1, <1>4, <5>1, Zenon
      <4> QED
        BY <4>1, <4>2, Zenon
    <3>4. s[i].tag = T /\ s[i].value = v1
      BY <1>1, <3>1, Zenon
    <3> QED
      BY <1>1, <2>1, <3>2, <3>3, <3>4, Zenon DEF Last, s
  <2>3. CASE v1 = Default(T) /\ \A k \in 1..n1 : s1[k].tag # T
    <3>1. \A k \in 1..n1+n2 : s[k].tag # T
      BY <1>1, <1>2, <1>4, <2>3, ZenonT(40)
    <3> QED
      BY <1>1, <2>1, <2>3, <3>1, Zenon DEF Last, s
  <2> QED
    BY <2>2, <2>3, Zenon DEF Last
<1> QED
  BY <1>3, <1>4, Zenon DEF Last

-----------------------------------------------------------------------------
(* What a field with the value v becomes: nothing, or an item.             *)

ItemsOf(T, v) == IF v = Default(T) THEN <<>> ELSE <<Item(T, v)>>
Flag(T, v) == IF v = Default(T) THEN 0 ELSE 1

LEMMA EncodedDefault == ASSUME NEW T \in Tags PROVE Encoded(T, Default(T)) = <<>>
<1>1. CASE T \in Numbers
  <2>1. Default(T) = 0 /\ \A v : Encoded(T, v) = Int32Field(T, v)
    BY <1>1, SMT DEF Default, Encoded, Numbers, Texts
  <2> QED
    BY <2>1, Zenon DEF Int32Field
<1>2. CASE T \in Texts
  <2>1. Default(T) = <<>> /\ \A v : Encoded(T, v) = StringField(T, v)
    BY <1>2, SMT DEF Default, Encoded, Numbers, Texts
  <2> QED
    BY <2>1, Zenon DEF StringField
<1>3. CASE T = 29
  <2>1. Default(T) = NoFloat /\ \A v : Encoded(T, v) = FloatField(T, v)
    BY <1>3, SMT DEF Default, Encoded, Numbers, Texts
  <2> QED
    BY <2>1, Zenon DEF FloatField
<1> QED
  BY <1>1, <1>2, <1>3, SMT DEF Tags, Numbers, Texts

LEMMA ItemIsItem == ASSUME NEW T \in Tags, NEW v \in Values(T), v # Default(T)
                    PROVE  /\ Item(T, v) \in Items
                           /\ Item(T, v).tag = T /\ Item(T, v).value = v
                              /\ Item(T, v).raw = Encoded(T, v)
<1> DEFINE S(U) == {Item(U, u) : u \in Values(U) \ {Default(U)}}
<1>1. Item(T, v) \in Items
  <2>1. Item(T, v) \in S(T) /\ S(T) \in {S(U) : U \in Tags}
    <3>1. v \in Values(T) \ {Default(T)}
      OBVIOUS
    <3> QED
      BY <3>1, Zenon
  <2>2. Item(T, v) \in UNION {S(U) : U \in Tags}
    <3> HIDE DEF S
    <3> QED
      BY <2>1, Zenon
  <2> QED
    BY <2>2, Zenon DEF Items
<1> HIDE DEF S
<1>2. Item(T, v).tag = T /\ Item(T, v).value = v /\ Item(T, v).raw = Encoded(T, v)
  BY SMT DEF Item
<1> QED
  BY <1>1, <1>2, Zenon

\* A field is written as its item, or not at all if it has its default.
LEMMA ItemsOfField ==
  ASSUME NEW T \in Tags, NEW v \in Values(T)
  PROVE  /\ Laid(Encoded(T, v), ItemsOf(T, v))
         /\ ItemsOf(T, v) \in Seq(Items) /\ Len(ItemsOf(T, v)) = Flag(T, v)
         /\ \A U : Last(ItemsOf(T, v), Len(ItemsOf(T, v)), U, IF U = T THEN v ELSE Default(U))
<1>1. CASE v = Default(T)
  <2>1. ItemsOf(T, v) = <<>> /\ Flag(T, v) = 0 /\ Encoded(T, v) = <<>>
    BY <1>1, EncodedDefault, Zenon DEF ItemsOf, Flag
  <2>2. Len(<<>>) = 0 /\ <<>> \in Seq(Items)
    BY SMT
  <2>3. \A U : Last(<<>>, 0, U, IF U = T THEN v ELSE Default(U))
    BY <1>1, LastOfNone, Zenon
  <2> QED
    BY <2>1, <2>2, <2>3, LaidEmpty, Zenon
<1>2. CASE v # Default(T)
  <2> DEFINE t == Item(T, v)
  <2>1. ItemsOf(T, v) = <<t>> /\ Flag(T, v) = 1
    BY <1>2, Zenon DEF ItemsOf, Flag
  <2>2. t \in Items /\ t.tag = T /\ t.value = v /\ t.raw = Encoded(T, v)
    BY <1>2, ItemIsItem, Zenon
  <2> HIDE DEF t
  <2>3. Len(<<t>>) = 1 /\ <<t>> \in Seq(Items) /\ <<t>>[1] = t
    BY <2>2, SMT
  <2>4. 1 \in 1..1 /\ 1+1..1 = {} /\ \A k \in 1..1 : k = 1
    BY SMT
  <2>5. ASSUME NEW U PROVE Last(<<t>>, 1, U, IF U = T THEN v ELSE Default(U))
    <3>1. CASE U = T
      BY <2>2, <2>3, <2>4, <3>1, Zenon DEF Last
    <3>2. CASE U # T
      BY <2>2, <2>3, <2>4, <3>2, Zenon DEF Last
    <3> QED
      BY <3>1, <3>2, Zenon
  <2>6. Laid(t.raw, <<t>>)
    BY <2>2, LaidOne, Zenon
  <2> QED
    BY <2>1, <2>2, <2>3, <2>5, <2>6, Zenon
<1> QED
  BY <1>1, <1>2, Zenon

-----------------------------------------------------------------------------
(* The classes by the tags of their fields.                                *)

\* The fields a class knows, by their tags, and the field with the tag T in m.
Own(c) == IF c \in {"MsgData", "Client"} THEN {8, 18} ELSE IF c = "Book" THEN {10, 16, 29} ELSE {10}

Get(c, m, T) == IF T \notin Own(c) THEN Default(T)
                ELSE IF T = 8 THEN m.id
                ELSE IF T = 16 THEN m.pages
                ELSE IF T = 29 THEN m.price
                ELSE IF T = 18 THEN IF c = "Client" THEN m.dara ELSE m.data
                ELSE IF c = "Book" THEN m.name ELSE m.message

\* The messages of a class, whatever they have been given or parsed.
Typed(c) == IF c = "MsgData" THEN [id : int32, data : string, unknown : Seq(Byte)]
            ELSE IF c = "Client" THEN [id : int32, dara : string, unknown : Seq(Byte)]
            ELSE IF c = "Book" THEN [name : string, pages : int32, price : float, unknown : Seq(Byte)]
            ELSE [message : string, unknown : Seq(Byte)]

\* A string the class c knows is checked as UTF-8.
Fine(c, t) == t.tag \in Own(c) \cap Texts => Valid(t.value)

\* A turn gives the field its value, keeps what the class does not know, or fails.
TurnIs(c, m, t) ==
  LET r == Turn(c, m, t)
  IN  /\ r.msg \in Typed(c) /\ (r.ok <=> Fine(c, t))
      /\ t.tag \in Own(c) => /\ r.msg.unknown = m.unknown
                             /\ \A T \in Tags : Get(c, r.msg, T)
                                                  = IF T = t.tag THEN t.value ELSE Get(c, m, T)
      /\ t.tag \notin Own(c) => /\ r.msg.unknown = m.unknown \o t.raw
                                /\ \A T \in Tags : Get(c, r.msg, T) = Get(c, m, T)

LEMMA Record == ASSUME NEW r, NEW a, NEW b, r = [ok |-> a, msg |-> b] PROVE r.ok = a /\ r.msg = b
BY SMT

LEMMA TurnOfNumber ==
  ASSUME NEW c, NEW m, NEW t, NEW q \in Typed(c), Turn(c, m, t) = Known(q),
         t.tag \in Own(c) \ Texts,
         q.unknown = m.unknown,
         \A T \in Tags : Get(c, q, T) = IF T = t.tag THEN t.value ELSE Get(c, m, T)
  PROVE  TurnIs(c, m, t)
<1>1. Turn(c, m, t).ok = TRUE /\ Turn(c, m, t).msg = q
  BY Record, Zenon DEF Known
<1> QED
  BY <1>1, Zenon DEF TurnIs, Fine

LEMMA TurnOfString ==
  ASSUME NEW c, NEW m, NEW t, NEW q \in Typed(c), Turn(c, m, t) = KnownString(q, t.value),
         t.tag \in Own(c) \cap Texts,
         q.unknown = m.unknown,
         \A T \in Tags : Get(c, q, T) = IF T = t.tag THEN t.value ELSE Get(c, m, T)
  PROVE  TurnIs(c, m, t)
<1>1. Turn(c, m, t).ok = Valid(t.value) /\ Turn(c, m, t).msg = q
  BY Record, Zenon DEF KnownString
<1> QED
  BY <1>1, Zenon DEF TurnIs, Fine

LEMMA TypesOfValues == /\ Values(8) = int32 /\ Values(16) = int32 /\ Values(10) = string
                       /\ Values(18) = string /\ Values(29) = float
                       /\ Default(8) = 0 /\ Default(16) = 0 /\ Default(10) = <<>>
                       /\ Default(18) = <<>> /\ Default(29) = NoFloat
BY SMT DEF Values, Default, Numbers, Texts

LEMMA ItemHas == ASSUME NEW t \in Items
                 PROVE /\ t.tag \in {8, 10, 16, 18, 29} 
                       /\ t.tag \in {8, 16} => t.value \in int32
                       /\ t.tag \in {10, 18} => t.value \in string
                       /\ t.tag = 29 => t.value \in float
<1>1. t.tag \in {8, 10, 16, 18, 29} /\ t.value \in Values(t.tag)
  BY IsItem, Zenon DEF Tags
<1>2. t.tag \in {8, 16} => t.tag = 8 \/ t.tag = 16
  OBVIOUS
<1>3. t.tag \in {10, 18} => t.tag = 10 \/ t.tag = 18
  OBVIOUS
<1> QED
  BY <1>1, <1>2, <1>3, TypesOfValues, Zenon

LEMMA TagsEndNothing == ASSUME NEW k \in {8, 10, 16, 18, 29} PROVE ~EndsMessage(k)
BY SMT DEF EndsMessage

LEMMA TurnOfUnknown ==
  ASSUME NEW c, NEW m, NEW t \in Items, NEW w, NEW q \in Typed(c), q = [m EXCEPT !.unknown = w],
         w = m.unknown \o t.raw,
         Turn(c, m, t) = Unknown(m, t), t.tag \notin Own(c),
         q.unknown = w, \A T \in Tags : Get(c, q, T) = Get(c, m, T)
  PROVE  TurnIs(c, m, t)
<1>0. (~EndsMessage(t.tag)) = TRUE
  BY ItemHas, TagsEndNothing, Zenon
<1>1. Turn(c, m, t) = [ok |-> TRUE, msg |-> q]
  BY <1>0, Zenon DEF Unknown
<1>2. Turn(c, m, t).ok = TRUE /\ Turn(c, m, t).msg = q
  BY <1>1, Record, ZenonT(40)
<1> QED
  BY <1>2, Zenon DEF TurnIs, Fine

LEMMA AppendBytes == ASSUME NEW u \in Seq(Byte), NEW t \in Items PROVE u \o t.raw \in Seq(Byte)
BY RawIsBytes, Joined, Zenon

-----------------------------------------------------------------------------
(* MsgData, turns of the loop in _InternalParse.                           *)

LEMMA MsgDataIs == Own("MsgData") = {8, 18}
                   /\ Typed("MsgData") = [id : int32, data : string, unknown : Seq(Byte)]
BY Zenon DEF Own, Typed

LEMMA MsgDataFields ==
  \A m : /\ Get("MsgData", m, 8) = m.id
         /\ Get("MsgData", m, 18) = m.data
         /\ Get("MsgData", m, 10) = Default(10)
         /\ Get("MsgData", m, 16) = Default(16)
         /\ Get("MsgData", m, 29) = Default(29)
<1>1. 8 \in {8, 18} /\ 10 \notin {8, 18} /\ 16 \notin {8, 18} /\ 18 \in {8, 18} /\ 29 \notin {8, 18}
      /\ 18 # 8 /\ 18 # 16 /\ 18 # 29 /\ 10 # 8 /\ 10 # 16 /\ 10 # 18 /\ 10 # 29 /\ 29 # 8
         /\ 29 # 16 /\ 16 # 8
  BY SMT
<1> QED
  BY <1>1, MsgDataIs, Zenon DEF Get

LEMMA MsgDataTurn == ASSUME NEW m \in Typed("MsgData"), NEW t \in Items
                     PROVE  TurnIs("MsgData", m, t)
<1>1. m \in [id : int32, data : string, unknown : Seq(Byte)]
  BY MsgDataIs, Zenon
<1>2. Turn("MsgData", m, t) = MsgData_InternalParse(m, t)
  BY Zenon DEF Turn
<1>3. 8 # 18
  BY SMT
<1>4. CASE t.tag = 8
  <2> DEFINE q == [m EXCEPT !.id = t.value]
  <2>1. Turn("MsgData", m, t) = Known(q)
    BY <1>2, <1>3, <1>4, Zenon DEF MsgData_InternalParse
  <2>2. t.value \in int32
    BY <1>4, ItemHas, SMT
  <2>3. q \in [id : int32, data : string, unknown : Seq(Byte)] /\ q.id = t.value
        /\ q.data = m.data /\ q.unknown = m.unknown
    BY <1>1, <2>2, SMT
  <2> HIDE DEF q
  <2>4. \A T \in Tags : Get("MsgData", q, T) = IF T = t.tag THEN t.value ELSE Get("MsgData", m, T)
    BY <1>4, <2>3, MsgDataFields, SMT DEF Tags
  <2>5. t.tag \in Own("MsgData") \ Texts
    BY <1>4, MsgDataIs, SMT DEF Texts
  <2>6. q \in Typed("MsgData") /\ q.unknown = m.unknown
    BY <2>3, MsgDataIs, Zenon
  <2> QED
    BY <2>1, <2>4, <2>5, <2>6, TurnOfNumber
<1>5. CASE t.tag = 18
  <2> DEFINE q == [m EXCEPT !.data = t.value]
  <2>1. Turn("MsgData", m, t) = KnownString(q, t.value)
    BY <1>2, <1>3, <1>5, Zenon DEF MsgData_InternalParse
  <2>2. t.value \in string
    BY <1>5, ItemHas, SMT
  <2>3. q \in [id : int32, data : string, unknown : Seq(Byte)] /\ q.data = t.value
        /\ q.id = m.id /\ q.unknown = m.unknown
    BY <1>1, <2>2, SMT
  <2> HIDE DEF q
  <2>4. \A T \in Tags : Get("MsgData", q, T) = IF T = t.tag THEN t.value ELSE Get("MsgData", m, T)
    BY <1>5, <2>3, MsgDataFields, SMT DEF Tags
  <2>5. t.tag \in Own("MsgData") \cap Texts
    BY <1>5, MsgDataIs, SMT DEF Texts
  <2>6. q \in Typed("MsgData") /\ q.unknown = m.unknown
    BY <2>3, MsgDataIs, Zenon
  <2> QED
    BY <2>1, <2>4, <2>5, <2>6, TurnOfString
<1>6. CASE t.tag # 8 /\ t.tag # 18
  <2>1. PICK w \in Seq(Byte) : w = m.unknown \o t.raw
    <3>1. m.unknown \in Seq(Byte)
      BY <1>1, SMT
    <3> QED
      BY <3>1, AppendBytes, Zenon
  <2> DEFINE q == [m EXCEPT !.unknown = w]
  <2>2. Turn("MsgData", m, t) = Unknown(m, t)
    BY <1>2, <1>6, Zenon DEF MsgData_InternalParse
  <2>3. q \in [id : int32, data : string, unknown : Seq(Byte)] /\ q.unknown = w
        /\ q.id = m.id /\ q.data = m.data
    <3>1. w \in Seq(Byte)
      BY <2>1, Zenon
    <3> QED
      BY <1>1, <3>1, SMT
  <2>4. q = [m EXCEPT !.unknown = w]
    OBVIOUS
  <2> HIDE DEF q
  <2>5. \A T \in Tags : Get("MsgData", q, T) = Get("MsgData", m, T)
    BY <2>3, MsgDataFields, SMT DEF Tags
  <2>6. t.tag \notin Own("MsgData") /\ q \in Typed("MsgData") /\ q.unknown = w
    BY <1>6, <2>3, MsgDataIs, Zenon
  <2> QED
    BY <2>1, <2>2, <2>4, <2>5, <2>6, TurnOfUnknown, Zenon
<1> QED
  BY <1>4, <1>5, <1>6, Zenon

-----------------------------------------------------------------------------
(* Client, turns of the loop in _InternalParse.                            *)

LEMMA ClientIs == Own("Client") = {8, 18}
                  /\ Typed("Client") = [id : int32, dara : string, unknown : Seq(Byte)]
BY Zenon DEF Own, Typed

LEMMA ClientFields ==
  \A m : /\ Get("Client", m, 8) = m.id
         /\ Get("Client", m, 18) = m.dara
         /\ Get("Client", m, 10) = Default(10)
         /\ Get("Client", m, 16) = Default(16)
         /\ Get("Client", m, 29) = Default(29)
<1>1. 8 \in {8, 18} /\ 10 \notin {8, 18} /\ 16 \notin {8, 18} /\ 18 \in {8, 18} /\ 29 \notin {8, 18}
      /\ 18 # 8 /\ 18 # 16 /\ 18 # 29 /\ 10 # 8 /\ 10 # 16 /\ 10 # 18 /\ 10 # 29 /\ 29 # 8
         /\ 29 # 16 /\ 16 # 8
  BY SMT
<1> QED
  BY <1>1, ClientIs, Zenon DEF Get

LEMMA ClientTurn == ASSUME NEW m \in Typed("Client"), NEW t \in Items PROVE TurnIs("Client", m, t)
<1>1. m \in [id : int32, dara : string, unknown : Seq(Byte)]
  BY ClientIs, Zenon
<1>2. Turn("Client", m, t) = Client_InternalParse(m, t)
  BY Zenon DEF Turn
<1>3. 8 # 18
  BY SMT
<1>4. CASE t.tag = 8
  <2> DEFINE q == [m EXCEPT !.id = t.value]
  <2>1. Turn("Client", m, t) = Known(q)
    BY <1>2, <1>3, <1>4, Zenon DEF Client_InternalParse
  <2>2. t.value \in int32
    BY <1>4, ItemHas, SMT
  <2>3. q \in [id : int32, dara : string, unknown : Seq(Byte)] /\ q.id = t.value
        /\ q.dara = m.dara /\ q.unknown = m.unknown
    BY <1>1, <2>2, SMT
  <2> HIDE DEF q
  <2>4. \A T \in Tags : Get("Client", q, T) = IF T = t.tag THEN t.value ELSE Get("Client", m, T)
    BY <1>4, <2>3, ClientFields, SMT DEF Tags
  <2>5. t.tag \in Own("Client") \ Texts
    BY <1>4, ClientIs, SMT DEF Texts
  <2>6. q \in Typed("Client") /\ q.unknown = m.unknown
    BY <2>3, ClientIs, Zenon
  <2> QED
    BY <2>1, <2>4, <2>5, <2>6, TurnOfNumber
<1>5. CASE t.tag = 18
  <2> DEFINE q == [m EXCEPT !.dara = t.value]
  <2>1. Turn("Client", m, t) = KnownString(q, t.value)
    BY <1>2, <1>3, <1>5, Zenon DEF Client_InternalParse
  <2>2. t.value \in string
    BY <1>5, ItemHas, SMT
  <2>3. q \in [id : int32, dara : string, unknown : Seq(Byte)] /\ q.dara = t.value
        /\ q.id = m.id /\ q.unknown = m.unknown
    BY <1>1, <2>2, SMT
  <2> HIDE DEF q
  <2>4. \A T \in Tags : Get("Client", q, T) = IF T = t.tag THEN t.value ELSE Get("Client", m, T)
    BY <1>5, <2>3, ClientFields, SMT DEF Tags
  <2>5. t.tag \in Own("Client") \cap Texts
    BY <1>5, ClientIs, SMT DEF Texts
  <2>6. q \in Typed("Client") /\ q.unknown = m.unknown
    BY <2>3, ClientIs, Zenon
  <2> QED
    BY <2>1, <2>4, <2>5, <2>6, TurnOfString
<1>6. CASE t.tag # 8 /\ t.tag # 18
  <2>1. PICK w \in Seq(Byte) : w = m.unknown \o t.raw
    <3>1. m.unknown \in Seq(Byte)
      BY <1>1, SMT
    <3> QED
      BY <3>1, AppendBytes, Zenon
  <2> DEFINE q == [m EXCEPT !.unknown = w]
  <2>2. Turn("Client", m, t) = Unknown(m, t)
    BY <1>2, <1>6, Zenon DEF Client_InternalParse
  <2>3. q \in [id : int32, dara : string, unknown : Seq(Byte)] /\ q.unknown = w
        /\ q.id = m.id /\ q.dara = m.dara
    <3>1. w \in Seq(Byte)
      BY <2>1, Zenon
    <3> QED
      BY <1>1, <3>1, SMT
  <2>4. q = [m EXCEPT !.unknown = w]
    OBVIOUS
  <2> HIDE DEF q
  <2>5. \A T \in Tags : Get("Client", q, T) = Get("Client", m, T)
    BY <2>3, ClientFields, SMT DEF Tags
  <2>6. t.tag \notin Own("Client") /\ q \in Typed("Client") /\ q.unknown = w
    BY <1>6, <2>3, ClientIs, Zenon
  <2> QED
    BY <2>1, <2>2, <2>4, <2>5, <2>6, TurnOfUnknown, Zenon
<1> QED
  BY <1>4, <1>5, <1>6, Zenon

-----------------------------------------------------------------------------
(* Book, turns of the loop in _InternalParse.                              *)

LEMMA BookIs == Own("Book") = {10, 16, 29}
                /\ Typed("Book") = [name : string, pages : int32, price : float, unknown : Seq(Byte)]
BY Zenon DEF Own, Typed

LEMMA BookFields ==
  \A m : /\ Get("Book", m, 10) = m.name
         /\ Get("Book", m, 16) = m.pages
         /\ Get("Book", m, 29) = m.price
         /\ Get("Book", m, 8) = Default(8)
         /\ Get("Book", m, 18) = Default(18)
<1>1. 8 \notin {10, 16, 29} /\ 10 \in {10, 16, 29} /\ 16 \in {10, 16, 29} /\ 18 \notin {10, 16, 29}
      /\ 29 \in {10, 16, 29}
      /\ 18 # 8 /\ 18 # 16 /\ 18 # 29 /\ 10 # 8 /\ 10 # 16 /\ 10 # 18 /\ 10 # 29 /\ 29 # 8
         /\ 29 # 16 /\ 16 # 8
  BY SMT
<1> QED
  BY <1>1, BookIs, Zenon DEF Get

LEMMA BookTurn == ASSUME NEW m \in Typed("Book"), NEW t \in Items PROVE TurnIs("Book", m, t)
<1>1. m \in [name : string, pages : int32, price : float, unknown : Seq(Byte)]
  BY BookIs, Zenon
<1>2. Turn("Book", m, t) = Book_InternalParse(m, t)
  BY Zenon DEF Turn
<1>3. 10 # 16 /\ 10 # 29 /\ 16 # 29
  BY SMT
<1>4. CASE t.tag = 10
  <2> DEFINE q == [m EXCEPT !.name = t.value]
  <2>1. Turn("Book", m, t) = KnownString(q, t.value)
    BY <1>2, <1>3, <1>4, Zenon DEF Book_InternalParse
  <2>2. t.value \in string
    BY <1>4, ItemHas, SMT
  <2>3. q \in [name : string, pages : int32, price : float, unknown : Seq(Byte)] /\ q.name = t.value
        /\ q.pages = m.pages /\ q.price = m.price /\ q.unknown = m.unknown
    BY <1>1, <2>2, SMT
  <2> HIDE DEF q
  <2>4. \A T \in Tags : Get("Book", q, T) = IF T = t.tag THEN t.value ELSE Get("Book", m, T)
    BY <1>4, <2>3, BookFields, SMT DEF Tags
  <2>5. t.tag \in Own("Book") \cap Texts
    BY <1>4, BookIs, SMT DEF Texts
  <2>6. q \in Typed("Book") /\ q.unknown = m.unknown
    BY <2>3, BookIs, Zenon
  <2> QED
    BY <2>1, <2>4, <2>5, <2>6, TurnOfString
<1>5. CASE t.tag = 16
  <2> DEFINE q == [m EXCEPT !.pages = t.value]
  <2>1. Turn("Book", m, t) = Known(q)
    BY <1>2, <1>3, <1>5, Zenon DEF Book_InternalParse
  <2>2. t.value \in int32
    BY <1>5, ItemHas, SMT
  <2>3. q \in [name : string, pages : int32, price : float, unknown : Seq(Byte)]
        /\ q.pages = t.value
        /\ q.name = m.name /\ q.price = m.price /\ q.unknown = m.unknown
    BY <1>1, <2>2, SMT
  <2> HIDE DEF q
  <2>4. \A T \in Tags : Get("Book", q, T) = IF T = t.tag THEN t.value ELSE Get("Book", m, T)
    BY <1>5, <2>3, BookFields, SMT DEF Tags
  <2>5. t.tag \in Own("Book") \ Texts
    BY <1>5, BookIs, SMT DEF Texts
  <2>6. q \in Typed("Book") /\ q.unknown = m.unknown
    BY <2>3, BookIs, Zenon
  <2> QED
    BY <2>1, <2>4, <2>5, <2>6, TurnOfNumber
<1>6. CASE t.tag = 29
  <2> DEFINE q == [m EXCEPT !.price = t.value]
  <2>1. Turn("Book", m, t) = Known(q)
    BY <1>2, <1>3, <1>6, Zenon DEF Book_InternalParse
  <2>2. t.value \in float
    BY <1>6, ItemHas, SMT
  <2>3. q \in [name : string, pages : int32, price : float, unknown : Seq(Byte)]
        /\ q.price = t.value
        /\ q.name = m.name /\ q.pages = m.pages /\ q.unknown = m.unknown
    BY <1>1, <2>2, SMT
  <2> HIDE DEF q
  <2>4. \A T \in Tags : Get("Book", q, T) = IF T = t.tag THEN t.value ELSE Get("Book", m, T)
    BY <1>6, <2>3, BookFields, SMT DEF Tags
  <2>5. t.tag \in Own("Book") \ Texts
    BY <1>6, BookIs, SMT DEF Texts
  <2>6. q \in Typed("Book") /\ q.unknown = m.unknown
    BY <2>3, BookIs, Zenon
  <2> QED
    BY <2>1, <2>4, <2>5, <2>6, TurnOfNumber
<1>7. CASE t.tag # 10 /\ t.tag # 16 /\ t.tag # 29
  <2>1. PICK w \in Seq(Byte) : w = m.unknown \o t.raw
    <3>1. m.unknown \in Seq(Byte)
      BY <1>1, SMT
    <3> QED
      BY <3>1, AppendBytes, Zenon
  <2> DEFINE q == [m EXCEPT !.unknown = w]
  <2>2. Turn("Book", m, t) = Unknown(m, t)
    BY <1>2, <1>7, Zenon DEF Book_InternalParse
  <2>3. q \in [name : string, pages : int32, price : float, unknown : Seq(Byte)] /\ q.unknown = w
        /\ q.name = m.name /\ q.pages = m.pages /\ q.price = m.price
    <3>1. w \in Seq(Byte)
      BY <2>1, Zenon
    <3> QED
      BY <1>1, <3>1, SMT
  <2>4. q = [m EXCEPT !.unknown = w]
    OBVIOUS
  <2> HIDE DEF q
  <2>5. \A T \in Tags : Get("Book", q, T) = Get("Book", m, T)
    BY <2>3, BookFields, SMT DEF Tags
  <2>6. t.tag \notin Own("Book") /\ q \in Typed("Book") /\ q.unknown = w
    BY <1>7, <2>3, BookIs, Zenon
  <2> QED
    BY <2>1, <2>2, <2>4, <2>5, <2>6, TurnOfUnknown, Zenon
<1> QED
  BY <1>4, <1>5, <1>6, <1>7, Zenon

-----------------------------------------------------------------------------
(* Request, turns of the loop in _InternalParse.                           *)

LEMMA RequestIs == Own("Request") = {10}
                   /\ Typed("Request") = [message : string, unknown : Seq(Byte)]
BY Zenon DEF Own, Typed

LEMMA RequestFields ==
  \A m : /\ Get("Request", m, 10) = m.message
         /\ Get("Request", m, 8) = Default(8)
         /\ Get("Request", m, 16) = Default(16)
         /\ Get("Request", m, 18) = Default(18)
         /\ Get("Request", m, 29) = Default(29)
<1>1. 8 \notin {10} /\ 10 \in {10} /\ 16 \notin {10} /\ 18 \notin {10} /\ 29 \notin {10}
      /\ 18 # 8 /\ 18 # 16 /\ 18 # 29 /\ 10 # 8 /\ 10 # 16 /\ 10 # 18 /\ 10 # 29 /\ 29 # 8
         /\ 29 # 16 /\ 16 # 8
  BY SMT
<1> QED
  BY <1>1, RequestIs, Zenon DEF Get

LEMMA RequestTurn == ASSUME NEW m \in Typed("Request"), NEW t \in Items
                     PROVE  TurnIs("Request", m, t)
<1>1. m \in [message : string, unknown : Seq(Byte)]
  BY RequestIs, Zenon
<1>2. Turn("Request", m, t) = Request_InternalParse(m, t)
  BY Zenon DEF Turn
<1>3. CASE t.tag = 10
  <2> DEFINE q == [m EXCEPT !.message = t.value]
  <2>1. Turn("Request", m, t) = KnownString(q, t.value)
    BY <1>2, <1>3, Zenon DEF Request_InternalParse
  <2>2. t.value \in string
    BY <1>3, ItemHas, SMT
  <2>3. q \in [message : string, unknown : Seq(Byte)] /\ q.message = t.value
        /\ q.unknown = m.unknown
    BY <1>1, <2>2, SMT
  <2> HIDE DEF q
  <2>4. \A T \in Tags : Get("Request", q, T) = IF T = t.tag THEN t.value ELSE Get("Request", m, T)
    BY <1>3, <2>3, RequestFields, SMT DEF Tags
  <2>5. t.tag \in Own("Request") \cap Texts
    BY <1>3, RequestIs, SMT DEF Texts
  <2>6. q \in Typed("Request") /\ q.unknown = m.unknown
    BY <2>3, RequestIs, Zenon
  <2> QED
    BY <2>1, <2>4, <2>5, <2>6, TurnOfString
<1>4. CASE t.tag # 10
  <2>1. PICK w \in Seq(Byte) : w = m.unknown \o t.raw
    <3>1. m.unknown \in Seq(Byte)
      BY <1>1, SMT
    <3> QED
      BY <3>1, AppendBytes, Zenon
  <2> DEFINE q == [m EXCEPT !.unknown = w]
  <2>2. Turn("Request", m, t) = Unknown(m, t)
    BY <1>2, <1>4, Zenon DEF Request_InternalParse
  <2>3. q \in [message : string, unknown : Seq(Byte)] /\ q.unknown = w
        /\ q.message = m.message
    <3>1. w \in Seq(Byte)
      BY <2>1, Zenon
    <3> QED
      BY <1>1, <3>1, SMT
  <2>4. q = [m EXCEPT !.unknown = w]
    OBVIOUS
  <2> HIDE DEF q
  <2>5. \A T \in Tags : Get("Request", q, T) = Get("Request", m, T)
    BY <2>3, RequestFields, SMT DEF Tags
  <2>6. t.tag \notin Own("Request") /\ q \in Typed("Request") /\ q.unknown = w
    BY <1>4, <2>3, RequestIs, Zenon
  <2> QED
    BY <2>1, <2>2, <2>4, <2>5, <2>6, TurnOfUnknown, Zenon
<1> QED
  BY <1>3, <1>4, Zenon

-----------------------------------------------------------------------------
(* Reply, turns of the loop in _InternalParse.                             *)

LEMMA ReplyIs == Own("Reply") = {10} /\ Typed("Reply") = [message : string, unknown : Seq(Byte)]
BY Zenon DEF Own, Typed

LEMMA ReplyFields ==
  \A m : /\ Get("Reply", m, 10) = m.message
         /\ Get("Reply", m, 8) = Default(8)
         /\ Get("Reply", m, 16) = Default(16)
         /\ Get("Reply", m, 18) = Default(18)
         /\ Get("Reply", m, 29) = Default(29)
<1>1. 8 \notin {10} /\ 10 \in {10} /\ 16 \notin {10} /\ 18 \notin {10} /\ 29 \notin {10}
      /\ 18 # 8 /\ 18 # 16 /\ 18 # 29 /\ 10 # 8 /\ 10 # 16 /\ 10 # 18 /\ 10 # 29 /\ 29 # 8
         /\ 29 # 16 /\ 16 # 8
  BY SMT
<1> QED
  BY <1>1, ReplyIs, Zenon DEF Get

LEMMA ReplyTurn == ASSUME NEW m \in Typed("Reply"), NEW t \in Items PROVE TurnIs("Reply", m, t)
<1>1. m \in [message : string, unknown : Seq(Byte)]
  BY ReplyIs, Zenon
<1>2. Turn("Reply", m, t) = Reply_InternalParse(m, t)
  BY Zenon DEF Turn
<1>3. CASE t.tag = 10
  <2> DEFINE q == [m EXCEPT !.message = t.value]
  <2>1. Turn("Reply", m, t) = KnownString(q, t.value)
    BY <1>2, <1>3, Zenon DEF Reply_InternalParse
  <2>2. t.value \in string
    BY <1>3, ItemHas, SMT
  <2>3. q \in [message : string, unknown : Seq(Byte)] /\ q.message = t.value
        /\ q.unknown = m.unknown
    BY <1>1, <2>2, SMT
  <2> HIDE DEF q
  <2>4. \A T \in Tags : Get("Reply", q, T) = IF T = t.tag THEN t.value ELSE Get("Reply", m, T)
    BY <1>3, <2>3, ReplyFields, SMT DEF Tags
  <2>5. t.tag \in Own("Reply") \cap Texts
    BY <1>3, ReplyIs, SMT DEF Texts
  <2>6. q \in Typed("Reply") /\ q.unknown = m.unknown
    BY <2>3, ReplyIs, Zenon
  <2> QED
    BY <2>1, <2>4, <2>5, <2>6, TurnOfString
<1>4. CASE t.tag # 10
  <2>1. PICK w \in Seq(Byte) : w = m.unknown \o t.raw
    <3>1. m.unknown \in Seq(Byte)
      BY <1>1, SMT
    <3> QED
      BY <3>1, AppendBytes, Zenon
  <2> DEFINE q == [m EXCEPT !.unknown = w]
  <2>2. Turn("Reply", m, t) = Unknown(m, t)
    BY <1>2, <1>4, Zenon DEF Reply_InternalParse
  <2>3. q \in [message : string, unknown : Seq(Byte)] /\ q.unknown = w
        /\ q.message = m.message
    <3>1. w \in Seq(Byte)
      BY <2>1, Zenon
    <3> QED
      BY <1>1, <3>1, SMT
  <2>4. q = [m EXCEPT !.unknown = w]
    OBVIOUS
  <2> HIDE DEF q
  <2>5. \A T \in Tags : Get("Reply", q, T) = Get("Reply", m, T)
    BY <2>3, ReplyFields, SMT DEF Tags
  <2>6. t.tag \notin Own("Reply") /\ q \in Typed("Reply") /\ q.unknown = w
    BY <1>4, <2>3, ReplyIs, Zenon
  <2> QED
    BY <2>1, <2>2, <2>4, <2>5, <2>6, TurnOfUnknown, Zenon
<1> QED
  BY <1>3, <1>4, Zenon

-----------------------------------------------------------------------------
(* What MergeFrom and _InternalSerialize do to the fields.                 *)

\* A new message; one merged with another, field by field; what is written of one.
NewIs(c) == New(c) \in Typed(c) /\ New(c).unknown = <<>>
            /\ \A T \in Tags : Get(c, New(c), T) = Default(T)

MergeIs(c, m, from) ==
  LET r == MergeFrom(c, m, from)
  IN  /\ r \in Typed(c) /\ r.unknown = m.unknown \o from.unknown
      /\ \A T \in Tags : Get(c, r, T) = Or(Get(c, from, T), Default(T), Get(c, m, T))

Parts(c, m) == Encoded(8, Get(c, m, 8)) \o Encoded(10, Get(c, m, 10)) \o Encoded(16, Get(c, m, 16))
                 \o Encoded(18, Get(c, m, 18)) \o Encoded(29, Get(c, m, 29))

WriteIs(c, m) == /\ Serialize(c, m) = Parts(c, m) \o m.unknown
                 /\ ByteSizeLong(c, m) = Len(Serialize(c, m))

LEMMA StartTypes == /\ 0 \in int32 /\ <<>> \in string /\ NoFloat \in float /\ <<>> \in Seq(Byte)
<1>1. 0 \in int32
  BY SMT DEF int32
<1>2. <<>> \in Seq(Byte) /\ Len(<<>>) = 0
  BY SMT
<1>3. <<>> \in string
  BY <1>2, SMT DEF string
<1>4. NoFloat \in float
  BY SMT DEF NoFloat, float, Byte
<1> QED
  BY <1>1, <1>2, <1>3, <1>4, Zenon

LEMMA NothingJoined == \A s \in Seq(Byte) : <<>> \o s = s /\ s \o <<>> = s
BY ConcatEmptySeq, Zenon

LEMMA TagsAre == \A T \in Tags : T = 8 \/ T = 10 \/ T = 16 \/ T = 18 \/ T = 29
BY SMT DEF Tags

LEMMA EncodedIs == /\ \A v : Encoded(8, v) = Int32Field(8, v) /\ Encoded(16, v) = Int32Field(16, v)
                   /\ \A v : Encoded(10, v) = StringField(10, v)
                      /\ Encoded(18, v) = StringField(18, v)
                   /\ \A v : Encoded(29, v) = FloatField(29, v)
                   /\ \A T \in {8, 10, 16, 18, 29} : Encoded(T, Default(T)) = <<>>
<1>1. 8 \in Numbers /\ 16 \in Numbers /\ 10 \in Texts /\ 18 \in Texts
  BY SMT DEF Numbers, Texts
<1>2. \A T \in Numbers : \A v : Encoded(T, v) = Int32Field(T, v)
  BY SMT DEF Encoded, Numbers, Texts
<1>3. \A T \in Texts : \A v : Encoded(T, v) = StringField(T, v)
  BY SMT DEF Encoded, Numbers, Texts
<1>4. \A v : Encoded(29, v) = FloatField(29, v)
  BY SMT DEF Encoded, Numbers, Texts
<1>5. \A T \in {8, 10, 16, 18, 29} : Encoded(T, Default(T)) = <<>>
  BY EncodedDefault, Zenon DEF Tags
<1> QED
  BY <1>1, <1>2, <1>3, <1>4, <1>5, Zenon

\* The sizes ByteSizeLong adds up are those of the fields written.
LEMMA Int32Size == ASSUME NEW T \in Byte, NEW v \in int32
                   PROVE  /\ Int32Field(T, v) \in Seq(Byte)
                          /\ Len(Int32Field(T, v)) = Int32FieldSize(v)
<1>1. Varint(v) \in Seq(Byte) /\ VarintSize(v) = Len(Varint(v))
  BY VarintBytes, VarintSizeIsLength, Zenon
<1>2. <<T>> \o Varint(v) \in Seq(Byte) /\ Len(<<T>> \o Varint(v)) = 1 + Len(Varint(v))
  BY <1>1, TagBytes, Zenon
<1>3. <<>> \in Seq(Byte) /\ Len(<<>>) = 0
  BY SMT
<1>4. CASE v # 0
  <2>1. Int32Field(T, v) = <<T>> \o Varint(v) /\ Int32FieldSize(v) = 1 + VarintSize(v)
    BY <1>4, Zenon DEF Int32Field, Int32FieldSize
  <2> QED
    BY <1>1, <1>2, <2>1, Zenon
<1>5. CASE v = 0
  <2>1. Int32Field(T, v) = <<>> /\ Int32FieldSize(v) = 0
    BY <1>5, Zenon DEF Int32Field, Int32FieldSize
  <2> QED
    BY <1>3, <2>1, Zenon
<1> QED
  BY <1>4, <1>5, Zenon

LEMMA StringFieldLength == ASSUME NEW T \in Byte, NEW s \in string
                    PROVE  /\ StringField(T, s) \in Seq(Byte)
                           /\ Len(StringField(T, s)) = StringFieldSize(s)
<1>1. s \in Seq(Byte) /\ Len(s) \in int32 /\ Len(s) \in Nat
  BY StringBytes, Zenon
<1>2. Varint(Len(s)) \in Seq(Byte) /\ VarintSize(Len(s)) = Len(Varint(Len(s)))
  BY <1>1, VarintBytes, VarintSizeIsLength, Zenon
<1> DEFINE h == <<T>> \o Varint(Len(s))
<1>3. h \in Seq(Byte) /\ Len(h) = 1 + Len(Varint(Len(s)))
  BY <1>2, TagBytes, Zenon
<1>4. <<>> \in Seq(Byte) /\ Len(<<>>) = 0
  BY SMT
<1>5. CASE s # <<>>
  <2>1. StringField(T, s) = h \o s /\ StringFieldSize(s) = 1 + (VarintSize(Len(s)) + Len(s))
    BY <1>5, Zenon DEF StringField, StringFieldSize, StringSize
  <2> HIDE DEF h
  <2>2. h \o s \in Seq(Byte) /\ Len(h \o s) = Len(h) + Len(s)
    BY <1>1, <1>3, Joined, Zenon
  <2>3. Len(Varint(Len(s))) \in Nat
    BY <1>2, LenProperties, Zenon
  <2>4. \A i, j \in Nat : (1 + i) + j = 1 + (i + j)
    BY SMT
  <2>5. Len(h \o s) = (1 + Len(Varint(Len(s)))) + Len(s)
    BY <1>3, <2>2, Zenon
  <2>6. Len(h \o s) = 1 + (Len(Varint(Len(s))) + Len(s))
    BY <1>1, <2>3, <2>4, <2>5, Zenon
  <2> QED
    BY <1>2, <2>1, <2>2, <2>6, Zenon
<1>6. CASE s = <<>>
  <2>1. StringField(T, s) = <<>> /\ StringFieldSize(s) = 0
    BY <1>6, Zenon DEF StringField, StringFieldSize
  <2> QED
    BY <1>4, <2>1, Zenon
<1> QED
  BY <1>5, <1>6, Zenon

LEMMA FloatFieldLength == ASSUME NEW T \in Byte, NEW f \in float
                   PROVE  /\ FloatField(T, f) \in Seq(Byte)
                          /\ Len(FloatField(T, f)) = FloatFieldSize(f)
<1>1. f \in Seq(Byte) /\ Len(f) = 4
  BY FloatBytes, Zenon
<1>2. <<T>> \o f \in Seq(Byte) /\ Len(<<T>> \o f) = 1 + Len(f)
  BY <1>1, TagBytes, Zenon
<1>3. <<>> \in Seq(Byte) /\ Len(<<>>) = 0
  BY SMT
<1>4. CASE f # NoFloat
  <2>1. FloatField(T, f) = <<T>> \o f /\ FloatFieldSize(f) = 1 + 4
    BY <1>4, Zenon DEF FloatField, FloatFieldSize
  <2> QED
    BY <1>1, <1>2, <2>1, Zenon
<1>5. CASE f = NoFloat
  <2>1. FloatField(T, f) = <<>> /\ FloatFieldSize(f) = 0
    BY <1>5, Zenon DEF FloatField, FloatFieldSize
  <2> QED
    BY <1>3, <2>1, Zenon
<1> QED
  BY <1>4, <1>5, Zenon

LEMMA FieldBytes ==
  /\ \A v \in int32 : /\ Encoded(8, v) \in Seq(Byte) /\ Len(Encoded(8, v)) = Int32FieldSize(v)
                      /\ Encoded(16, v) \in Seq(Byte) /\ Len(Encoded(16, v)) = Int32FieldSize(v)
  /\ \A s \in string : /\ Encoded(10, s) \in Seq(Byte) /\ Len(Encoded(10, s)) = StringFieldSize(s)
                       /\ Encoded(18, s) \in Seq(Byte) /\ Len(Encoded(18, s)) = StringFieldSize(s)
  /\ \A f \in float : Encoded(29, f) \in Seq(Byte) /\ Len(Encoded(29, f)) = FloatFieldSize(f)
<1>1. 8 \in Byte /\ 10 \in Byte /\ 16 \in Byte /\ 18 \in Byte /\ 29 \in Byte
  BY SMT DEF Byte
<1>2. ASSUME NEW v \in int32
      PROVE  /\ Encoded(8, v) \in Seq(Byte) /\ Len(Encoded(8, v)) = Int32FieldSize(v)
             /\ Encoded(16, v) \in Seq(Byte) /\ Len(Encoded(16, v)) = Int32FieldSize(v)
  <2>1. Encoded(8, v) = Int32Field(8, v) /\ Encoded(16, v) = Int32Field(16, v)
    BY EncodedIs, Zenon
  <2> QED
    BY <1>1, <2>1, Int32Size, Zenon
<1>3. ASSUME NEW s \in string
      PROVE  /\ Encoded(10, s) \in Seq(Byte) /\ Len(Encoded(10, s)) = StringFieldSize(s)
             /\ Encoded(18, s) \in Seq(Byte) /\ Len(Encoded(18, s)) = StringFieldSize(s)
  <2>1. Encoded(10, s) = StringField(10, s) /\ Encoded(18, s) = StringField(18, s)
    BY EncodedIs, Zenon
  <2> QED
    BY <1>1, <2>1, StringFieldLength, Zenon
<1>4. ASSUME NEW f \in float
      PROVE  Encoded(29, f) \in Seq(Byte) /\ Len(Encoded(29, f)) = FloatFieldSize(f)
  <2>1. Encoded(29, f) = FloatField(29, f)
    BY EncodedIs, Zenon
  <2> QED
    BY <1>1, <2>1, FloatFieldLength, Zenon
<1> QED
  BY <1>2, <1>3, <1>4, Zenon

LEMMA JoinedTwice == \A a, b, u \in Seq(Byte) : (a \o b) \o u \in Seq(Byte)
                     /\ Len((a \o b) \o u) = (Len(a) + Len(b)) + Len(u)
<1> SUFFICES ASSUME NEW a \in Seq(Byte), NEW b \in Seq(Byte), NEW u \in Seq(Byte)
             PROVE  (a \o b) \o u \in Seq(Byte) /\ Len((a \o b) \o u) = (Len(a) + Len(b)) + Len(u)
  OBVIOUS
<1> DEFINE p == a \o b
<1>1. p \in Seq(Byte) /\ Len(p) = Len(a) + Len(b)
  BY Joined, Zenon
<1> HIDE DEF p
<1>2. p \o u \in Seq(Byte) /\ Len(p \o u) = (Len(a) + Len(b)) + Len(u)
  <2>1. p \o u \in Seq(Byte) /\ Len(p \o u) = Len(p) + Len(u)
    BY <1>1, Joined, Zenon
  <2> QED
    BY <1>1, <2>1, Zenon
<1> QED
  BY <1>2, Zenon DEF p

LEMMA SumsAreSame == \A i, j, k, l \in Nat : /\ i + j = j + i /\ (i + j) + k = (j + i) + k
BY SMT

LEMMA OrIs == ASSUME NEW S, NEW v \in S, NEW none, NEW old \in S
              PROVE  Or(v, none, old) \in S
BY Zenon DEF Or

LEMMA OrNothing == \A none : Or(none, none, none) = none
BY Zenon DEF Or

-----------------------------------------------------------------------------
(* MsgData, New and MergeFrom.                                             *)

LEMMA MsgDataNew == NewIs("MsgData")
<1> DEFINE q == [id |-> 0, data |-> <<>>, unknown |-> <<>>]
<1>1. New("MsgData") = q
  BY Zenon DEF New, MsgData_SharedCtor
<1>2. q \in [id : int32, data : string, unknown : Seq(Byte)] /\ q.unknown = <<>>
      /\ q.id = 0 /\ q.data = <<>>
  BY StartTypes, SMT
<1> HIDE DEF q
<1>3. \A T \in Tags : Get("MsgData", q, T) = Default(T)
  BY <1>2, MsgDataFields, TagsAre, TypesOfValues, ZenonT(40)
<1> QED
  BY <1>1, <1>2, <1>3, MsgDataIs, Zenon DEF NewIs

LEMMA MsgDataMerge == ASSUME NEW m \in Typed("MsgData"), NEW from \in Typed("MsgData")
                      PROVE  MergeIs("MsgData", m, from)
<1>1. /\ m \in [id : int32, data : string, unknown : Seq(Byte)]
      /\ from \in [id : int32, data : string, unknown : Seq(Byte)]
  BY MsgDataIs, Zenon
<1> DEFINE v0 == Or(from.id, 0, m.id)
           v1 == Or(from.data, <<>>, m.data)
           u == m.unknown \o from.unknown
           q == [id |-> v0, data |-> v1, unknown |-> u]
<1>2. MergeFrom("MsgData", m, from).unknown = u
      /\ MergeFrom("MsgData", m, from).id = v0 /\ MergeFrom("MsgData", m, from).data = v1
      /\ MergeFrom("MsgData", m, from) = q
  <2>1. MergeFrom("MsgData", m, from) = MsgData_MergeImpl(m, from)
    BY Zenon DEF MergeFrom
  <2>2. MsgData_MergeImpl(m, from) = q
    BY SMT DEF MsgData_MergeImpl
  <2> HIDE DEF u, v0, v1
  <2> QED
    BY <2>1, <2>2, SMT
<1>3. u \in Seq(Byte) /\ v0 \in int32 /\ v1 \in string
  <2>1. m.unknown \in Seq(Byte) /\ from.unknown \in Seq(Byte)
    BY <1>1, SMT
  <2>2. m.id \in int32 /\ from.id \in int32 /\ m.data \in string /\ from.data \in string
    BY <1>1, SMT
  <2>3. u \in Seq(Byte)
    BY <2>1, Joined, Zenon
  <2> QED
    BY <2>2, <2>3, OrIs, Zenon
<1>4. q \in [id : int32, data : string, unknown : Seq(Byte)]
  <2> HIDE DEF u, v0, v1
  <2> QED
    BY <1>3, SMT
<1> HIDE DEF q
<1>5. \A T \in Tags : Get("MsgData", MergeFrom("MsgData", m, from), T)
                        = Or(Get("MsgData", from, T), Default(T), Get("MsgData", m, T))
  <2> DEFINE r == MergeFrom("MsgData", m, from)
  <2>1. r.id = Or(from.id, 0, m.id) /\ r.data = Or(from.data, <<>>, m.data)
    BY <1>2, Zenon
  <2> HIDE DEF r
  <2>2. \A T \in Tags : Get("MsgData", r, T)
                          = Or(Get("MsgData", from, T), Default(T), Get("MsgData", m, T))
    BY <2>1, MsgDataFields, TypesOfValues, SMT DEF Tags, Or
  <2> QED
    BY <2>2, Zenon DEF r
<1> QED
  BY <1>2, <1>4, <1>5, MsgDataIs, Zenon DEF MergeIs

-----------------------------------------------------------------------------
(* Client, New and MergeFrom.                                              *)

LEMMA ClientNew == NewIs("Client")
<1> DEFINE q == [id |-> 0, dara |-> <<>>, unknown |-> <<>>]
<1>1. New("Client") = q
  BY Zenon DEF New, Client_SharedCtor
<1>2. q \in [id : int32, dara : string, unknown : Seq(Byte)] /\ q.unknown = <<>>
      /\ q.id = 0 /\ q.dara = <<>>
  BY StartTypes, SMT
<1> HIDE DEF q
<1>3. \A T \in Tags : Get("Client", q, T) = Default(T)
  BY <1>2, ClientFields, TagsAre, TypesOfValues, ZenonT(40)
<1> QED
  BY <1>1, <1>2, <1>3, ClientIs, Zenon DEF NewIs

LEMMA ClientMerge == ASSUME NEW m \in Typed("Client"), NEW from \in Typed("Client")
                     PROVE  MergeIs("Client", m, from)
<1>1. /\ m \in [id : int32, dara : string, unknown : Seq(Byte)]
      /\ from \in [id : int32, dara : string, unknown : Seq(Byte)]
  BY ClientIs, Zenon
<1> DEFINE v0 == Or(from.id, 0, m.id)
           v1 == Or(from.dara, <<>>, m.dara)
           u == m.unknown \o from.unknown
           q == [id |-> v0, dara |-> v1, unknown |-> u]
<1>2. MergeFrom("Client", m, from).unknown = u
      /\ MergeFrom("Client", m, from).id = v0 /\ MergeFrom("Client", m, from).dara = v1
      /\ MergeFrom("Client", m, from) = q
  <2>1. MergeFrom("Client", m, from) = Client_MergeImpl(m, from)
    BY Zenon DEF MergeFrom
  <2>2. Client_MergeImpl(m, from) = q
    BY SMT DEF Client_MergeImpl
  <2> HIDE DEF u, v0, v1
  <2> QED
    BY <2>1, <2>2, SMT
<1>3. u \in Seq(Byte) /\ v0 \in int32 /\ v1 \in string
  <2>1. m.unknown \in Seq(Byte) /\ from.unknown \in Seq(Byte)
    BY <1>1, SMT
  <2>2. m.id \in int32 /\ from.id \in int32 /\ m.dara \in string /\ from.dara \in string
    BY <1>1, SMT
  <2>3. u \in Seq(Byte)
    BY <2>1, Joined, Zenon
  <2> QED
    BY <2>2, <2>3, OrIs, Zenon
<1>4. q \in [id : int32, dara : string, unknown : Seq(Byte)]
  <2> HIDE DEF u, v0, v1
  <2> QED
    BY <1>3, SMT
<1> HIDE DEF q
<1>5. \A T \in Tags : Get("Client", MergeFrom("Client", m, from), T)
                        = Or(Get("Client", from, T), Default(T), Get("Client", m, T))
  <2> DEFINE r == MergeFrom("Client", m, from)
  <2>1. r.id = Or(from.id, 0, m.id) /\ r.dara = Or(from.dara, <<>>, m.dara)
    BY <1>2, Zenon
  <2> HIDE DEF r
  <2>2. \A T \in Tags : Get("Client", r, T) = Or(Get("Client", from, T), Default(T), Get("Client", m, T))
    BY <2>1, ClientFields, TypesOfValues, SMT DEF Tags, Or
  <2> QED
    BY <2>2, Zenon DEF r
<1> QED
  BY <1>2, <1>4, <1>5, ClientIs, Zenon DEF MergeIs

-----------------------------------------------------------------------------
(* Book, New and MergeFrom.                                                *)

LEMMA BookNew == NewIs("Book")
<1> DEFINE q == [name |-> <<>>, pages |-> 0, price |-> NoFloat, unknown |-> <<>>]
<1>1. New("Book") = q
  BY Zenon DEF New, Book_SharedCtor
<1>2. q \in [name : string, pages : int32, price : float, unknown : Seq(Byte)] /\ q.unknown = <<>>
      /\ q.name = <<>> /\ q.pages = 0 /\ q.price = NoFloat
  BY StartTypes, SMT
<1> HIDE DEF q
<1>3. \A T \in Tags : Get("Book", q, T) = Default(T)
  BY <1>2, BookFields, TagsAre, TypesOfValues, ZenonT(40)
<1> QED
  BY <1>1, <1>2, <1>3, BookIs, Zenon DEF NewIs

LEMMA BookMerge == ASSUME NEW m \in Typed("Book"), NEW from \in Typed("Book")
                   PROVE  MergeIs("Book", m, from)
<1>1. /\ m \in [name : string, pages : int32, price : float, unknown : Seq(Byte)]
      /\ from \in [name : string, pages : int32, price : float, unknown : Seq(Byte)]
  BY BookIs, Zenon
<1> DEFINE v0 == Or(from.name, <<>>, m.name)
           v1 == Or(from.pages, 0, m.pages)
           v2 == Or(from.price, NoFloat, m.price)
           u == m.unknown \o from.unknown
           q == [name |-> v0, pages |-> v1, price |-> v2, unknown |-> u]
<1>2. MergeFrom("Book", m, from).unknown = u
      /\ MergeFrom("Book", m, from).name = v0 /\ MergeFrom("Book", m, from).pages = v1
         /\ MergeFrom("Book", m, from).price = v2
      /\ MergeFrom("Book", m, from) = q
  <2>1. MergeFrom("Book", m, from) = Book_MergeImpl(m, from)
    BY Zenon DEF MergeFrom
  <2>2. Book_MergeImpl(m, from) = q
    BY SMT DEF Book_MergeImpl
  <2> HIDE DEF u, v0, v1, v2
  <2> QED
    BY <2>1, <2>2, SMT
<1>3. u \in Seq(Byte) /\ v0 \in string /\ v1 \in int32 /\ v2 \in float
  <2>1. m.unknown \in Seq(Byte) /\ from.unknown \in Seq(Byte)
    BY <1>1, SMT
  <2>2. m.name \in string /\ from.name \in string /\ m.pages \in int32 /\ from.pages \in int32
        /\ m.price \in float /\ from.price \in float
    BY <1>1, SMT
  <2>3. u \in Seq(Byte)
    BY <2>1, Joined, Zenon
  <2> QED
    BY <2>2, <2>3, OrIs, Zenon
<1>4. q \in [name : string, pages : int32, price : float, unknown : Seq(Byte)]
  <2> HIDE DEF u, v0, v1, v2
  <2> QED
    BY <1>3, SMT
<1> HIDE DEF q
<1>5. \A T \in Tags : Get("Book", MergeFrom("Book", m, from), T)
                        = Or(Get("Book", from, T), Default(T), Get("Book", m, T))
  <2> DEFINE r == MergeFrom("Book", m, from)
  <2>1. r.name = Or(from.name, <<>>, m.name) /\ r.pages = Or(from.pages, 0, m.pages)
        /\ r.price = Or(from.price, NoFloat, m.price)
    BY <1>2, Zenon
  <2> HIDE DEF r
  <2>2. \A T \in Tags : Get("Book", r, T) = Or(Get("Book", from, T), Default(T), Get("Book", m, T))
    BY <2>1, BookFields, TypesOfValues, SMT DEF Tags, Or
  <2> QED
    BY <2>2, Zenon DEF r
<1> QED
  BY <1>2, <1>4, <1>5, BookIs, Zenon DEF MergeIs

-----------------------------------------------------------------------------
(* Request, New and MergeFrom.                                             *)

LEMMA RequestNew == NewIs("Request")
<1> DEFINE q == [message |-> <<>>, unknown |-> <<>>]
<1>1. New("Request") = q
  BY Zenon DEF New, Request_SharedCtor
<1>2. q \in [message : string, unknown : Seq(Byte)] /\ q.unknown = <<>>
      /\ q.message = <<>>
  BY StartTypes, SMT
<1> HIDE DEF q
<1>3. \A T \in Tags : Get("Request", q, T) = Default(T)
  BY <1>2, RequestFields, TagsAre, TypesOfValues, ZenonT(40)
<1> QED
  BY <1>1, <1>2, <1>3, RequestIs, Zenon DEF NewIs

LEMMA RequestMerge == ASSUME NEW m \in Typed("Request"), NEW from \in Typed("Request")
                      PROVE  MergeIs("Request", m, from)
<1>1. /\ m \in [message : string, unknown : Seq(Byte)]
      /\ from \in [message : string, unknown : Seq(Byte)]
  BY RequestIs, Zenon
<1> DEFINE v0 == Or(from.message, <<>>, m.message)
           u == m.unknown \o from.unknown
           q == [message |-> v0, unknown |-> u]
<1>2. MergeFrom("Request", m, from).unknown = u
      /\ MergeFrom("Request", m, from).message = v0
      /\ MergeFrom("Request", m, from) = q
  <2>1. MergeFrom("Request", m, from) = Request_MergeFrom(m, from)
    BY Zenon DEF MergeFrom
  <2>2. Request_MergeFrom(m, from) = q
    BY SMT DEF Request_MergeFrom
  <2> HIDE DEF u, v0
  <2> QED
    BY <2>1, <2>2, SMT
<1>3. u \in Seq(Byte) /\ v0 \in string
  <2>1. m.unknown \in Seq(Byte) /\ from.unknown \in Seq(Byte)
    BY <1>1, SMT
  <2>2. m.message \in string /\ from.message \in string
    BY <1>1, SMT
  <2>3. u \in Seq(Byte)
    BY <2>1, Joined, Zenon
  <2> QED
    BY <2>2, <2>3, OrIs, Zenon
<1>4. q \in [message : string, unknown : Seq(Byte)]
  <2> HIDE DEF u, v0
  <2> QED
    BY <1>3, SMT
<1> HIDE DEF q
<1>5. \A T \in Tags : Get("Request", MergeFrom("Request", m, from), T)
                        = Or(Get("Request", from, T), Default(T), Get("Request", m, T))
  <2> DEFINE r == MergeFrom("Request", m, from)
  <2>1. r.message = Or(from.message, <<>>, m.message)
    BY <1>2, Zenon
  <2> HIDE DEF r
  <2>2. \A T \in Tags : Get("Request", r, T)
                          = Or(Get("Request", from, T), Default(T), Get("Request", m, T))
    BY <2>1, RequestFields, TypesOfValues, SMT DEF Tags, Or
  <2> QED
    BY <2>2, Zenon DEF r
<1> QED
  BY <1>2, <1>4, <1>5, RequestIs, Zenon DEF MergeIs

-----------------------------------------------------------------------------
(* Reply, New and MergeFrom.                                               *)

LEMMA ReplyNew == NewIs("Reply")
<1> DEFINE q == [message |-> <<>>, unknown |-> <<>>]
<1>1. New("Reply") = q
  BY Zenon DEF New, Reply_SharedCtor
<1>2. q \in [message : string, unknown : Seq(Byte)] /\ q.unknown = <<>>
      /\ q.message = <<>>
  BY StartTypes, SMT
<1> HIDE DEF q
<1>3. \A T \in Tags : Get("Reply", q, T) = Default(T)
  BY <1>2, ReplyFields, TagsAre, TypesOfValues, ZenonT(40)
<1> QED
  BY <1>1, <1>2, <1>3, ReplyIs, Zenon DEF NewIs

LEMMA ReplyMerge == ASSUME NEW m \in Typed("Reply"), NEW from \in Typed("Reply")
                    PROVE  MergeIs("Reply", m, from)
<1>1. /\ m \in [message : string, unknown : Seq(Byte)]
      /\ from \in [message : string, unknown : Seq(Byte)]
  BY ReplyIs, Zenon
<1> DEFINE v0 == Or(from.message, <<>>, m.message)
           u == m.unknown \o from.unknown
           q == [message |-> v0, unknown |-> u]
<1>2. MergeFrom("Reply", m, from).unknown = u
      /\ MergeFrom("Reply", m, from).message = v0
      /\ MergeFrom("Reply", m, from) = q
  <2>1. MergeFrom("Reply", m, from) = Reply_MergeFrom(m, from)
    BY Zenon DEF MergeFrom
  <2>2. Reply_MergeFrom(m, from) = q
    BY SMT DEF Reply_MergeFrom
  <2> HIDE DEF u, v0
  <2> QED
    BY <2>1, <2>2, SMT
<1>3. u \in Seq(Byte) /\ v0 \in string
  <2>1. m.unknown \in Seq(Byte) /\ from.unknown \in Seq(Byte)
    BY <1>1, SMT
  <2>2. m.message \in string /\ from.message \in string
    BY <1>1, SMT
  <2>3. u \in Seq(Byte)
    BY <2>1, Joined, Zenon
  <2> QED
    BY <2>2, <2>3, OrIs, Zenon
<1>4. q \in [message : string, unknown : Seq(Byte)]
  <2> HIDE DEF u, v0
  <2> QED
    BY <1>3, SMT
<1> HIDE DEF q
<1>5. \A T \in Tags : Get("Reply", MergeFrom("Reply", m, from), T)
                        = Or(Get("Reply", from, T), Default(T), Get("Reply", m, T))
  <2> DEFINE r == MergeFrom("Reply", m, from)
  <2>1. r.message = Or(from.message, <<>>, m.message)
    BY <1>2, Zenon
  <2> HIDE DEF r
  <2>2. \A T \in Tags : Get("Reply", r, T) = Or(Get("Reply", from, T), Default(T), Get("Reply", m, T))
    BY <2>1, ReplyFields, TypesOfValues, SMT DEF Tags, Or
  <2> QED
    BY <2>2, Zenon DEF r
<1> QED
  BY <1>2, <1>4, <1>5, ReplyIs, Zenon DEF MergeIs

-----------------------------------------------------------------------------
(* What set_, the strings and numbers given, and the names of fields are.  *)

SetIs(c, m) == \A q \in Assigned(c, m) : q \in Typed(c) /\ q.unknown = m.unknown

MessagesAre(c) == \A m \in Messages(c) : m \in Typed(c) /\ m.unknown = <<>>

NamesAre(c, m) ==
  /\ \A f \in FieldsOf(m) : \E T \in Own(c) : \A n : n[f] = Get(c, n, T)
  /\ \A n : (\A f \in FieldsOf(m) \cap {"data", "dara", "name", "message"} : Valid(n[f]))
              <=> (\A T \in Own(c) \cap Texts : Valid(Get(c, n, T)))

LEMMA InClasses == "MsgData" \in Classes /\ "Client" \in Classes /\ "Book" \in Classes
                   /\ "Request" \in Classes /\ "Reply" \in Classes
BY Zenon DEF Classes

-----------------------------------------------------------------------------
(* MsgData, the other calls.                                               *)

LEMMA MsgDataWrite == ASSUME NEW m \in Typed("MsgData") PROVE WriteIs("MsgData", m)
<1> DEFINE a == Encoded(8, m.id)
           b == Encoded(18, m.data)
           u == m.unknown
<1>1. m \in [id : int32, data : string, unknown : Seq(Byte)]
  BY MsgDataIs, Zenon
<1>2. u \in Seq(Byte) /\ m.id \in int32 /\ m.data \in string
  BY <1>1, SMT
<1>3. /\ a \in Seq(Byte) /\ Len(a) = Int32FieldSize(m.id) /\ b \in Seq(Byte)
         /\ Len(b) = StringFieldSize(m.data)
      /\ Len(u) \in Nat /\ Len(a) \in Nat /\ Len(b) \in Nat
  <2>1. a \in Seq(Byte) /\ Len(a) = Int32FieldSize(m.id) /\ b \in Seq(Byte)
        /\ Len(b) = StringFieldSize(m.data)
    BY <1>2, FieldBytes, Zenon
  <2> QED
    BY <1>2, <2>1, LenProperties, Zenon
<1>4. Parts("MsgData", m) = ((((a \o <<>>) \o <<>>) \o b) \o <<>>)
  BY MsgDataFields, EncodedIs, Zenon DEF Parts
<1>5. Serialize("MsgData", m) = ((a \o b) \o u)
  BY EncodedIs, Zenon DEF Serialize, MsgData_InternalSerialize
<1>6. ByteSizeLong("MsgData", m) = Len(b) + Len(a) + Len(u)
  <2>1. ByteSizeLong("MsgData", m) = StringFieldSize(m.data) + Int32FieldSize(m.id) + Len(m.unknown)
    BY Zenon DEF ByteSizeLong, MsgData_ByteSizeLong
  <2> QED
    BY <1>3, <2>1, Zenon
<1> HIDE DEF a, b, u
<1>7. ((((a \o <<>>) \o <<>>) \o b) \o <<>>) = (a \o b)
  <2>1. a \o <<>> = a
    BY <1>3, NothingJoined, Zenon
  <2>2. a \o b \in Seq(Byte)
    BY <1>3, Joined, Zenon
  <2>3. (a \o b) \o <<>> = a \o b
    BY <2>2, NothingJoined, Zenon
  <2> QED
    BY <2>1, <2>3, Zenon
<1>8. Len(((a \o b) \o u)) = Len(a) + Len(b) + Len(u)
  BY <1>2, <1>3, JoinedTwice, Zenon
<1>9. ByteSizeLong("MsgData", m) = Len(Serialize("MsgData", m))
  BY <1>3, <1>5, <1>6, <1>8, SumsAreSame, Zenon
<1>10. Serialize("MsgData", m) = Parts("MsgData", m) \o m.unknown
  BY <1>4, <1>5, <1>7, Zenon DEF u
<1> QED
  BY <1>9, <1>10, Zenon DEF WriteIs

LEMMA MsgDataSame == ASSUME NEW m \in Typed("MsgData"), NEW n \in Typed("MsgData"),
                            m.unknown = n.unknown,
                          \A T \in Own("MsgData") : Get("MsgData", m, T) = Get("MsgData", n, T)
                   PROVE  m = n
<1>1. /\ m \in [id : int32, data : string, unknown : Seq(Byte)]
      /\ n \in [id : int32, data : string, unknown : Seq(Byte)]
  BY MsgDataIs, Zenon
<1>2. 8 \in Own("MsgData") /\ 18 \in Own("MsgData")
  BY MsgDataIs, Zenon
<1>3. m.id = n.id /\ m.data = n.data
  BY <1>2, MsgDataFields, Zenon
<1> QED
  BY <1>1, <1>3, SMT

LEMMA MsgDataMessages == ASSUME CodecAssumption PROVE MessagesAre("MsgData")
<1> SUFFICES ASSUME NEW m \in Messages("MsgData") PROVE m \in Typed("MsgData") /\ m.unknown = <<>>
  BY Zenon DEF MessagesAre
<1>1. Messages("MsgData") = [id : Ints, data : Strings["MsgData"], unknown : {<<>>}]
  BY Zenon DEF Messages
<1>2. Ints \subseteq int32 /\ Strings["MsgData"] \subseteq string
  BY InClasses, Zenon DEF CodecAssumption
<1> DEFINE none == {<<>>}
<1>3. none \subseteq Seq(Byte) /\ \A u \in none : u = <<>>
  BY StartTypes, Zenon
<1>4. m \in [id : Ints, data : Strings["MsgData"], unknown : none]
  BY <1>1, Zenon
<1> HIDE DEF none
<1>5. m \in [id : int32, data : string, unknown : Seq(Byte)] /\ m.unknown \in none
  BY <1>2, <1>3, <1>4, SMT
<1> QED
  BY <1>3, <1>5, MsgDataIs, Zenon

LEMMA MsgDataSet == ASSUME CodecAssumption, NEW m \in Typed("MsgData") PROVE SetIs("MsgData", m)
<1> SUFFICES ASSUME NEW q \in Assigned("MsgData", m)
             PROVE  q \in Typed("MsgData") /\ q.unknown = m.unknown
  BY Zenon DEF SetIs
<1>1. m \in [id : int32, data : string, unknown : Seq(Byte)]
  BY MsgDataIs, Zenon
<1>2. \/ \E i \in Ints : q = [m EXCEPT !.id = i]
      \/ \E s \in Strings["MsgData"] : q = [m EXCEPT !.data = s]
  BY Zenon DEF Assigned, MsgData_set_id, MsgData_set_data
<1>3. ASSUME NEW i \in Ints, q = [m EXCEPT !.id = i]
      PROVE  q \in [id : int32, data : string, unknown : Seq(Byte)] /\ q.unknown = m.unknown
  <2>1. i \in int32
    BY InClasses, Zenon DEF CodecAssumption
  <2> QED
    BY <1>1, <1>3, <2>1, SMT
<1>4. ASSUME NEW s \in Strings["MsgData"], q = [m EXCEPT !.data = s]
      PROVE  q \in [id : int32, data : string, unknown : Seq(Byte)] /\ q.unknown = m.unknown
  <2>1. s \in string
    BY InClasses, Zenon DEF CodecAssumption
  <2> QED
    BY <1>1, <1>4, <2>1, SMT
<1> QED
  BY <1>2, <1>3, <1>4, MsgDataIs, Zenon

LEMMA MsgDataNames == ASSUME NEW m \in Typed("MsgData") PROVE NamesAre("MsgData", m)
<1>1. m \in [id : int32, data : string, unknown : Seq(Byte)]
  BY MsgDataIs, Zenon
<1>2. DOMAIN m = {"id", "data"} \cup {"unknown"}
  BY <1>1, SMT
<1>3. FieldsOf(m) = {"id", "data"}
  BY <1>2, SMT DEF FieldsOf
<1>4. \A f \in FieldsOf(m) : \E T \in Own("MsgData") : \A n : n[f] = Get("MsgData", n, T)
  <2>1. 8 \in Own("MsgData") /\ 18 \in Own("MsgData")
    BY MsgDataIs, Zenon
  <2>2. (\A n : n["id"] = Get("MsgData", n, 8)) /\ (\A n : n["data"] = Get("MsgData", n, 18))
    BY MsgDataFields, Zenon
  <2> QED
    BY <1>3, <2>1, <2>2, Zenon
<1>5. FieldsOf(m) \cap {"data", "dara", "name", "message"} = {"data"}
  BY <1>3, SMT
<1>6. Own("MsgData") \cap Texts = {18}
  BY MsgDataIs, SMT DEF Texts
<1>7. \A n : n["data"] = Get("MsgData", n, 18)
  BY MsgDataFields, Zenon
<1> QED
  BY <1>4, <1>5, <1>6, <1>7, ZenonT(40) DEF NamesAre

LEMMA MsgDataCopy == \A m, from : CopyFrom("MsgData", m, from)
                                    = MergeFrom("MsgData", New("MsgData"), from)
BY Zenon DEF CopyFrom, MsgData_CopyFrom, MsgData_Clear, MergeFrom, New

LEMMA MsgDataValues == ASSUME NEW m \in Typed("MsgData")
                   PROVE  m.unknown \in Seq(Byte)
                          /\ \A T \in Tags : Get("MsgData", m, T) \in Values(T)
<1>1. m \in [id : int32, data : string, unknown : Seq(Byte)]
  BY MsgDataIs, Zenon
<1>2. m.unknown \in Seq(Byte) /\ m.id \in int32 /\ m.data \in string
  BY <1>1, SMT
<1>3. ASSUME NEW T \in Tags PROVE Get("MsgData", m, T) \in Values(T)
  <2>1. Get("MsgData", m, 8) \in Values(8)
    BY <1>2, MsgDataFields, TypesOfValues, Zenon
  <2>2. Get("MsgData", m, 10) \in Values(10)
    BY <1>2, MsgDataFields, TypesOfValues, StartTypes, Zenon
  <2>3. Get("MsgData", m, 16) \in Values(16)
    BY <1>2, MsgDataFields, TypesOfValues, StartTypes, Zenon
  <2>4. Get("MsgData", m, 18) \in Values(18)
    BY <1>2, MsgDataFields, TypesOfValues, Zenon
  <2>5. Get("MsgData", m, 29) \in Values(29)
    BY <1>2, MsgDataFields, TypesOfValues, StartTypes, Zenon
  <2> QED
    BY <2>1, <2>2, <2>3, <2>4, <2>5, TagsAre, Zenon
<1> QED
  BY <1>2, <1>3, Zenon

LEMMA MsgDataAlike == ASSUME NEW m, NEW t, NEW o, t.tag = o.tag, t.value = o.value, t.raw = o.raw
                  PROVE  Turn("MsgData", m, t) = Turn("MsgData", m, o)
<1>1. MsgData_InternalParse(m, t) = MsgData_InternalParse(m, o)
  BY Zenon DEF MsgData_InternalParse, Unknown, Known, KnownString
<1> QED
  BY <1>1, Zenon DEF Turn

-----------------------------------------------------------------------------
(* Client, the other calls.                                                *)

LEMMA ClientWrite == ASSUME NEW m \in Typed("Client") PROVE WriteIs("Client", m)
<1> DEFINE a == Encoded(8, m.id)
           b == Encoded(18, m.dara)
           u == m.unknown
<1>1. m \in [id : int32, dara : string, unknown : Seq(Byte)]
  BY ClientIs, Zenon
<1>2. u \in Seq(Byte) /\ m.id \in int32 /\ m.dara \in string
  BY <1>1, SMT
<1>3. /\ a \in Seq(Byte) /\ Len(a) = Int32FieldSize(m.id) /\ b \in Seq(Byte)
         /\ Len(b) = StringFieldSize(m.dara)
      /\ Len(u) \in Nat /\ Len(a) \in Nat /\ Len(b) \in Nat
  <2>1. a \in Seq(Byte) /\ Len(a) = Int32FieldSize(m.id) /\ b \in Seq(Byte)
        /\ Len(b) = StringFieldSize(m.dara)
    BY <1>2, FieldBytes, Zenon
  <2> QED
    BY <1>2, <2>1, LenProperties, Zenon
<1>4. Parts("Client", m) = ((((a \o <<>>) \o <<>>) \o b) \o <<>>)
  BY ClientFields, EncodedIs, Zenon DEF Parts
<1>5. Serialize("Client", m) = ((a \o b) \o u)
  BY EncodedIs, Zenon DEF Serialize, Client_InternalSerialize
<1>6. ByteSizeLong("Client", m) = Len(b) + Len(a) + Len(u)
  <2>1. ByteSizeLong("Client", m) = StringFieldSize(m.dara) + Int32FieldSize(m.id) + Len(m.unknown)
    BY Zenon DEF ByteSizeLong, Client_ByteSizeLong
  <2> QED
    BY <1>3, <2>1, Zenon
<1> HIDE DEF a, b, u
<1>7. ((((a \o <<>>) \o <<>>) \o b) \o <<>>) = (a \o b)
  <2>1. a \o <<>> = a
    BY <1>3, NothingJoined, Zenon
  <2>2. a \o b \in Seq(Byte)
    BY <1>3, Joined, Zenon
  <2>3. (a \o b) \o <<>> = a \o b
    BY <2>2, NothingJoined, Zenon
  <2> QED
    BY <2>1, <2>3, Zenon
<1>8. Len(((a \o b) \o u)) = Len(a) + Len(b) + Len(u)
  BY <1>2, <1>3, JoinedTwice, Zenon
<1>9. ByteSizeLong("Client", m) = Len(Serialize("Client", m))
  BY <1>3, <1>5, <1>6, <1>8, SumsAreSame, Zenon
<1>10. Serialize("Client", m) = Parts("Client", m) \o m.unknown
  BY <1>4, <1>5, <1>7, Zenon DEF u
<1> QED
  BY <1>9, <1>10, Zenon DEF WriteIs

LEMMA ClientSame == ASSUME NEW m \in Typed("Client"), NEW n \in Typed("Client"),
                           m.unknown = n.unknown,
                          \A T \in Own("Client") : Get("Client", m, T) = Get("Client", n, T)
                   PROVE  m = n
<1>1. /\ m \in [id : int32, dara : string, unknown : Seq(Byte)]
      /\ n \in [id : int32, dara : string, unknown : Seq(Byte)]
  BY ClientIs, Zenon
<1>2. 8 \in Own("Client") /\ 18 \in Own("Client")
  BY ClientIs, Zenon
<1>3. m.id = n.id /\ m.dara = n.dara
  BY <1>2, ClientFields, Zenon
<1> QED
  BY <1>1, <1>3, SMT

LEMMA ClientMessages == ASSUME CodecAssumption PROVE MessagesAre("Client")
<1> SUFFICES ASSUME NEW m \in Messages("Client") PROVE m \in Typed("Client") /\ m.unknown = <<>>
  BY Zenon DEF MessagesAre
<1>1. Messages("Client") = [id : Ints, dara : Strings["Client"], unknown : {<<>>}]
  BY Zenon DEF Messages
<1>2. Ints \subseteq int32 /\ Strings["Client"] \subseteq string
  BY InClasses, Zenon DEF CodecAssumption
<1> DEFINE none == {<<>>}
<1>3. none \subseteq Seq(Byte) /\ \A u \in none : u = <<>>
  BY StartTypes, Zenon
<1>4. m \in [id : Ints, dara : Strings["Client"], unknown : none]
  BY <1>1, Zenon
<1> HIDE DEF none
<1>5. m \in [id : int32, dara : string, unknown : Seq(Byte)] /\ m.unknown \in none
  BY <1>2, <1>3, <1>4, SMT
<1> QED
  BY <1>3, <1>5, ClientIs, Zenon

LEMMA ClientSet == ASSUME CodecAssumption, NEW m \in Typed("Client") PROVE SetIs("Client", m)
<1> SUFFICES ASSUME NEW q \in Assigned("Client", m)
             PROVE  q \in Typed("Client") /\ q.unknown = m.unknown
  BY Zenon DEF SetIs
<1>1. m \in [id : int32, dara : string, unknown : Seq(Byte)]
  BY ClientIs, Zenon
<1>2. \/ \E i \in Ints : q = [m EXCEPT !.id = i]
      \/ \E s \in Strings["Client"] : q = [m EXCEPT !.dara = s]
  BY Zenon DEF Assigned, Client_set_id, Client_set_dara
<1>3. ASSUME NEW i \in Ints, q = [m EXCEPT !.id = i]
      PROVE  q \in [id : int32, dara : string, unknown : Seq(Byte)] /\ q.unknown = m.unknown
  <2>1. i \in int32
    BY InClasses, Zenon DEF CodecAssumption
  <2> QED
    BY <1>1, <1>3, <2>1, SMT
<1>4. ASSUME NEW s \in Strings["Client"], q = [m EXCEPT !.dara = s]
      PROVE  q \in [id : int32, dara : string, unknown : Seq(Byte)] /\ q.unknown = m.unknown
  <2>1. s \in string
    BY InClasses, Zenon DEF CodecAssumption
  <2> QED
    BY <1>1, <1>4, <2>1, SMT
<1> QED
  BY <1>2, <1>3, <1>4, ClientIs, Zenon

LEMMA ClientNames == ASSUME NEW m \in Typed("Client") PROVE NamesAre("Client", m)
<1>1. m \in [id : int32, dara : string, unknown : Seq(Byte)]
  BY ClientIs, Zenon
<1>2. DOMAIN m = {"id", "dara"} \cup {"unknown"}
  BY <1>1, SMT
<1>3. FieldsOf(m) = {"id", "dara"}
  BY <1>2, SMT DEF FieldsOf
<1>4. \A f \in FieldsOf(m) : \E T \in Own("Client") : \A n : n[f] = Get("Client", n, T)
  <2>1. 8 \in Own("Client") /\ 18 \in Own("Client")
    BY ClientIs, Zenon
  <2>2. (\A n : n["id"] = Get("Client", n, 8)) /\ (\A n : n["dara"] = Get("Client", n, 18))
    BY ClientFields, Zenon
  <2> QED
    BY <1>3, <2>1, <2>2, Zenon
<1>5. FieldsOf(m) \cap {"data", "dara", "name", "message"} = {"dara"}
  BY <1>3, SMT
<1>6. Own("Client") \cap Texts = {18}
  BY ClientIs, SMT DEF Texts
<1>7. \A n : n["dara"] = Get("Client", n, 18)
  BY ClientFields, Zenon
<1> QED
  BY <1>4, <1>5, <1>6, <1>7, ZenonT(40) DEF NamesAre

LEMMA ClientCopy == \A m, from : CopyFrom("Client", m, from) = MergeFrom("Client", New("Client"), from)
BY Zenon DEF CopyFrom, Client_CopyFrom, Client_Clear, MergeFrom, New

LEMMA ClientValues == ASSUME NEW m \in Typed("Client")
                   PROVE  m.unknown \in Seq(Byte)
                          /\ \A T \in Tags : Get("Client", m, T) \in Values(T)
<1>1. m \in [id : int32, dara : string, unknown : Seq(Byte)]
  BY ClientIs, Zenon
<1>2. m.unknown \in Seq(Byte) /\ m.id \in int32 /\ m.dara \in string
  BY <1>1, SMT
<1>3. ASSUME NEW T \in Tags PROVE Get("Client", m, T) \in Values(T)
  <2>1. Get("Client", m, 8) \in Values(8)
    BY <1>2, ClientFields, TypesOfValues, Zenon
  <2>2. Get("Client", m, 10) \in Values(10)
    BY <1>2, ClientFields, TypesOfValues, StartTypes, Zenon
  <2>3. Get("Client", m, 16) \in Values(16)
    BY <1>2, ClientFields, TypesOfValues, StartTypes, Zenon
  <2>4. Get("Client", m, 18) \in Values(18)
    BY <1>2, ClientFields, TypesOfValues, Zenon
  <2>5. Get("Client", m, 29) \in Values(29)
    BY <1>2, ClientFields, TypesOfValues, StartTypes, Zenon
  <2> QED
    BY <2>1, <2>2, <2>3, <2>4, <2>5, TagsAre, Zenon
<1> QED
  BY <1>2, <1>3, Zenon

LEMMA ClientAlike == ASSUME NEW m, NEW t, NEW o, t.tag = o.tag, t.value = o.value, t.raw = o.raw
                  PROVE  Turn("Client", m, t) = Turn("Client", m, o)
<1>1. Client_InternalParse(m, t) = Client_InternalParse(m, o)
  BY Zenon DEF Client_InternalParse, Unknown, Known, KnownString
<1> QED
  BY <1>1, Zenon DEF Turn

-----------------------------------------------------------------------------
(* Book, the other calls.                                                  *)

LEMMA BookWrite == ASSUME NEW m \in Typed("Book") PROVE WriteIs("Book", m)
<1> DEFINE a == Encoded(10, m.name)
           b == Encoded(16, m.pages)
           d == Encoded(29, m.price)
           u == m.unknown
<1>1. m \in [name : string, pages : int32, price : float, unknown : Seq(Byte)]
  BY BookIs, Zenon
<1>2. u \in Seq(Byte) /\ m.name \in string /\ m.pages \in int32 /\ m.price \in float
  BY <1>1, SMT
<1>3. /\ a \in Seq(Byte) /\ Len(a) = StringFieldSize(m.name) /\ b \in Seq(Byte)
         /\ Len(b) = Int32FieldSize(m.pages) /\ d \in Seq(Byte) /\ Len(d) = FloatFieldSize(m.price)
      /\ Len(u) \in Nat /\ Len(a) \in Nat /\ Len(b) \in Nat /\ Len(d) \in Nat
  <2>1. a \in Seq(Byte) /\ Len(a) = StringFieldSize(m.name) /\ b \in Seq(Byte)
        /\ Len(b) = Int32FieldSize(m.pages) /\ d \in Seq(Byte) /\ Len(d) = FloatFieldSize(m.price)
    BY <1>2, FieldBytes, Zenon
  <2> QED
    BY <1>2, <2>1, LenProperties, Zenon
<1>4. Parts("Book", m) = ((((<<>> \o a) \o b) \o <<>>) \o d)
  BY BookFields, EncodedIs, Zenon DEF Parts
<1>5. Serialize("Book", m) = (((a \o b) \o d) \o u)
  BY EncodedIs, Zenon DEF Serialize, Book_InternalSerialize
<1>6. ByteSizeLong("Book", m) = Len(a) + Len(b) + Len(d) + Len(u)
  <2>1. ByteSizeLong("Book", m) = StringFieldSize(m.name) + Int32FieldSize(m.pages) + FloatFieldSize(m.price)
          + Len(m.unknown)
    BY Zenon DEF ByteSizeLong, Book_ByteSizeLong
  <2> QED
    BY <1>3, <2>1, Zenon
<1> HIDE DEF a, b, d, u
<1>7. ((((<<>> \o a) \o b) \o <<>>) \o d) = ((a \o b) \o d)
  <2>1. <<>> \o a = a
    BY <1>3, NothingJoined, Zenon
  <2>2. a \o b \in Seq(Byte)
    BY <1>3, Joined, Zenon
  <2>3. (a \o b) \o <<>> = a \o b
    BY <2>2, NothingJoined, Zenon
  <2> QED
    BY <2>1, <2>3, Zenon
<1>8. Len((((a \o b) \o d) \o u)) = Len(a) + Len(b) + Len(d) + Len(u)
  <2> DEFINE p == a \o b
  <2>1. p \in Seq(Byte) /\ Len(p) = Len(a) + Len(b)
    BY <1>3, Joined, Zenon
  <2> HIDE DEF p
  <2>2. Len((p \o d) \o u) = (Len(p) + Len(d)) + Len(u)
    BY <1>2, <1>3, <2>1, JoinedTwice, Zenon
  <2> QED
    BY <2>1, <2>2, Zenon DEF p
<1>9. ByteSizeLong("Book", m) = Len(Serialize("Book", m))
  BY <1>5, <1>6, <1>8, Zenon
<1>10. Serialize("Book", m) = Parts("Book", m) \o m.unknown
  BY <1>4, <1>5, <1>7, Zenon DEF u
<1> QED
  BY <1>9, <1>10, Zenon DEF WriteIs

LEMMA BookSame == ASSUME NEW m \in Typed("Book"), NEW n \in Typed("Book"), m.unknown = n.unknown,
                          \A T \in Own("Book") : Get("Book", m, T) = Get("Book", n, T)
                   PROVE  m = n
<1>1. /\ m \in [name : string, pages : int32, price : float, unknown : Seq(Byte)]
      /\ n \in [name : string, pages : int32, price : float, unknown : Seq(Byte)]
  BY BookIs, Zenon
<1>2. 10 \in Own("Book") /\ 16 \in Own("Book") /\ 29 \in Own("Book")
  BY BookIs, Zenon
<1>3. m.name = n.name /\ m.pages = n.pages /\ m.price = n.price
  BY <1>2, BookFields, Zenon
<1> QED
  BY <1>1, <1>3, SMT

LEMMA BookMessages == ASSUME CodecAssumption PROVE MessagesAre("Book")
<1> SUFFICES ASSUME NEW m \in Messages("Book") PROVE m \in Typed("Book") /\ m.unknown = <<>>
  BY Zenon DEF MessagesAre
<1>1. Messages("Book") = [name : Strings["Book"], pages : Ints, price : Floats, unknown : {<<>>}]
  BY Zenon DEF Messages
<1>2. Strings["Book"] \subseteq string /\ Ints \subseteq int32 /\ Floats \subseteq float
  BY InClasses, Zenon DEF CodecAssumption
<1> DEFINE none == {<<>>}
<1>3. none \subseteq Seq(Byte) /\ \A u \in none : u = <<>>
  BY StartTypes, Zenon
<1>4. m \in [name : Strings["Book"], pages : Ints, price : Floats, unknown : none]
  BY <1>1, Zenon
<1> HIDE DEF none
<1>5. m \in [name : string, pages : int32, price : float, unknown : Seq(Byte)] /\ m.unknown \in none
  BY <1>2, <1>3, <1>4, SMT
<1> QED
  BY <1>3, <1>5, BookIs, Zenon

LEMMA BookSet == ASSUME CodecAssumption, NEW m \in Typed("Book") PROVE SetIs("Book", m)
<1> SUFFICES ASSUME NEW q \in Assigned("Book", m) PROVE q \in Typed("Book") /\ q.unknown = m.unknown
  BY Zenon DEF SetIs
<1>1. m \in [name : string, pages : int32, price : float, unknown : Seq(Byte)]
  BY BookIs, Zenon
<1>2. \/ \E s \in Strings["Book"] : q = [m EXCEPT !.name = s]
      \/ \E i \in Ints : q = [m EXCEPT !.pages = i]
      \/ \E f \in Floats : q = [m EXCEPT !.price = f]
  BY Zenon DEF Assigned, Book_set_name, Book_set_pages, Book_set_price
<1>3. ASSUME NEW s \in Strings["Book"], q = [m EXCEPT !.name = s]
      PROVE  q \in [name : string, pages : int32, price : float, unknown : Seq(Byte)]
             /\ q.unknown = m.unknown
  <2>1. s \in string
    BY InClasses, Zenon DEF CodecAssumption
  <2> QED
    BY <1>1, <1>3, <2>1, SMT
<1>4. ASSUME NEW i \in Ints, q = [m EXCEPT !.pages = i]
      PROVE  q \in [name : string, pages : int32, price : float, unknown : Seq(Byte)]
             /\ q.unknown = m.unknown
  <2>1. i \in int32
    BY InClasses, Zenon DEF CodecAssumption
  <2> QED
    BY <1>1, <1>4, <2>1, SMT
<1>5. ASSUME NEW f \in Floats, q = [m EXCEPT !.price = f]
      PROVE  q \in [name : string, pages : int32, price : float, unknown : Seq(Byte)]
             /\ q.unknown = m.unknown
  <2>1. f \in float
    BY InClasses, Zenon DEF CodecAssumption
  <2> QED
    BY <1>1, <1>5, <2>1, SMT
<1> QED
  BY <1>2, <1>3, <1>4, <1>5, BookIs, Zenon

LEMMA BookNames == ASSUME NEW m \in Typed("Book") PROVE NamesAre("Book", m)
<1>1. m \in [name : string, pages : int32, price : float, unknown : Seq(Byte)]
  BY BookIs, Zenon
<1>2. DOMAIN m = {"name", "pages", "price"} \cup {"unknown"}
  BY <1>1, SMT
<1>3. FieldsOf(m) = {"name", "pages", "price"}
  BY <1>2, SMT DEF FieldsOf
<1>4. \A f \in FieldsOf(m) : \E T \in Own("Book") : \A n : n[f] = Get("Book", n, T)
  <2>1. 10 \in Own("Book") /\ 16 \in Own("Book") /\ 29 \in Own("Book")
    BY BookIs, Zenon
  <2>2. (\A n : n["name"] = Get("Book", n, 10)) /\ (\A n : n["pages"] = Get("Book", n, 16))
        /\ (\A n : n["price"] = Get("Book", n, 29))
    BY BookFields, Zenon
  <2> QED
    BY <1>3, <2>1, <2>2, Zenon
<1>5. FieldsOf(m) \cap {"data", "dara", "name", "message"} = {"name"}
  BY <1>3, SMT
<1>6. Own("Book") \cap Texts = {10}
  BY BookIs, SMT DEF Texts
<1>7. \A n : n["name"] = Get("Book", n, 10)
  BY BookFields, Zenon
<1> QED
  BY <1>4, <1>5, <1>6, <1>7, ZenonT(40) DEF NamesAre

LEMMA BookCopy == \A m, from : CopyFrom("Book", m, from) = MergeFrom("Book", New("Book"), from)
BY Zenon DEF CopyFrom, Book_CopyFrom, Book_Clear, MergeFrom, New

LEMMA BookValues == ASSUME NEW m \in Typed("Book")
                   PROVE  m.unknown \in Seq(Byte) /\ \A T \in Tags : Get("Book", m, T) \in Values(T)
<1>1. m \in [name : string, pages : int32, price : float, unknown : Seq(Byte)]
  BY BookIs, Zenon
<1>2. m.unknown \in Seq(Byte) /\ m.name \in string /\ m.pages \in int32 /\ m.price \in float
  BY <1>1, SMT
<1>3. ASSUME NEW T \in Tags PROVE Get("Book", m, T) \in Values(T)
  <2>1. Get("Book", m, 8) \in Values(8)
    BY <1>2, BookFields, TypesOfValues, StartTypes, Zenon
  <2>2. Get("Book", m, 10) \in Values(10)
    BY <1>2, BookFields, TypesOfValues, Zenon
  <2>3. Get("Book", m, 16) \in Values(16)
    BY <1>2, BookFields, TypesOfValues, Zenon
  <2>4. Get("Book", m, 18) \in Values(18)
    BY <1>2, BookFields, TypesOfValues, StartTypes, Zenon
  <2>5. Get("Book", m, 29) \in Values(29)
    BY <1>2, BookFields, TypesOfValues, Zenon
  <2> QED
    BY <2>1, <2>2, <2>3, <2>4, <2>5, TagsAre, Zenon
<1> QED
  BY <1>2, <1>3, Zenon

LEMMA BookAlike == ASSUME NEW m, NEW t, NEW o, t.tag = o.tag, t.value = o.value, t.raw = o.raw
                  PROVE  Turn("Book", m, t) = Turn("Book", m, o)
<1>1. Book_InternalParse(m, t) = Book_InternalParse(m, o)
  BY Zenon DEF Book_InternalParse, Unknown, Known, KnownString
<1> QED
  BY <1>1, Zenon DEF Turn

-----------------------------------------------------------------------------
(* Request, the other calls.                                               *)

LEMMA RequestWrite == ASSUME NEW m \in Typed("Request") PROVE WriteIs("Request", m)
<1> DEFINE a == Encoded(10, m.message)
           u == m.unknown
<1>1. m \in [message : string, unknown : Seq(Byte)]
  BY RequestIs, Zenon
<1>2. u \in Seq(Byte) /\ m.message \in string
  BY <1>1, SMT
<1>3. /\ a \in Seq(Byte) /\ Len(a) = StringFieldSize(m.message)
      /\ Len(u) \in Nat /\ Len(a) \in Nat
  <2>1. a \in Seq(Byte) /\ Len(a) = StringFieldSize(m.message)
    BY <1>2, FieldBytes, Zenon
  <2> QED
    BY <1>2, <2>1, LenProperties, Zenon
<1>4. Parts("Request", m) = ((((<<>> \o a) \o <<>>) \o <<>>) \o <<>>)
  BY RequestFields, EncodedIs, Zenon DEF Parts
<1>5. Serialize("Request", m) = (a \o u)
  BY EncodedIs, Zenon DEF Serialize, Request_InternalSerialize
<1>6. ByteSizeLong("Request", m) = Len(a) + Len(u)
  <2>1. ByteSizeLong("Request", m) = StringFieldSize(m.message) + Len(m.unknown)
    BY Zenon DEF ByteSizeLong, Request_ByteSizeLong
  <2> QED
    BY <1>3, <2>1, Zenon
<1> HIDE DEF a, u
<1>7. ((((<<>> \o a) \o <<>>) \o <<>>) \o <<>>) = a
  BY <1>3, NothingJoined, Zenon
<1>8. Len((a \o u)) = Len(a) + Len(u)
  BY <1>2, <1>3, Joined, Zenon
<1>9. ByteSizeLong("Request", m) = Len(Serialize("Request", m))
  BY <1>5, <1>6, <1>8, Zenon
<1>10. Serialize("Request", m) = Parts("Request", m) \o m.unknown
  BY <1>4, <1>5, <1>7, Zenon DEF u
<1> QED
  BY <1>9, <1>10, Zenon DEF WriteIs

LEMMA RequestSame == ASSUME NEW m \in Typed("Request"), NEW n \in Typed("Request"),
                            m.unknown = n.unknown,
                          \A T \in Own("Request") : Get("Request", m, T) = Get("Request", n, T)
                   PROVE  m = n
<1>1. /\ m \in [message : string, unknown : Seq(Byte)]
      /\ n \in [message : string, unknown : Seq(Byte)]
  BY RequestIs, Zenon
<1>2. 10 \in Own("Request")
  BY RequestIs, Zenon
<1>3. m.message = n.message
  BY <1>2, RequestFields, Zenon
<1> QED
  BY <1>1, <1>3, SMT

LEMMA RequestMessages == ASSUME CodecAssumption PROVE MessagesAre("Request")
<1> SUFFICES ASSUME NEW m \in Messages("Request") PROVE m \in Typed("Request") /\ m.unknown = <<>>
  BY Zenon DEF MessagesAre
<1>1. Messages("Request") = [message : Strings["Request"], unknown : {<<>>}]
  BY Zenon DEF Messages
<1>2. Strings["Request"] \subseteq string
  BY InClasses, Zenon DEF CodecAssumption
<1> DEFINE none == {<<>>}
<1>3. none \subseteq Seq(Byte) /\ \A u \in none : u = <<>>
  BY StartTypes, Zenon
<1>4. m \in [message : Strings["Request"], unknown : none]
  BY <1>1, Zenon
<1> HIDE DEF none
<1>5. m \in [message : string, unknown : Seq(Byte)] /\ m.unknown \in none
  BY <1>2, <1>3, <1>4, SMT
<1> QED
  BY <1>3, <1>5, RequestIs, Zenon

LEMMA RequestSet == ASSUME CodecAssumption, NEW m \in Typed("Request") PROVE SetIs("Request", m)
<1> SUFFICES ASSUME NEW q \in Assigned("Request", m)
             PROVE  q \in Typed("Request") /\ q.unknown = m.unknown
  BY Zenon DEF SetIs
<1>1. m \in [message : string, unknown : Seq(Byte)]
  BY RequestIs, Zenon
<1>2. \E s \in Strings["Request"] : q = [m EXCEPT !.message = s]
  BY Zenon DEF Assigned, Request_set_message
<1>3. ASSUME NEW s \in Strings["Request"], q = [m EXCEPT !.message = s]
      PROVE  q \in [message : string, unknown : Seq(Byte)] /\ q.unknown = m.unknown
  <2>1. s \in string
    BY InClasses, Zenon DEF CodecAssumption
  <2> QED
    BY <1>1, <1>3, <2>1, SMT
<1> QED
  BY <1>2, <1>3, RequestIs, Zenon

LEMMA RequestNames == ASSUME NEW m \in Typed("Request") PROVE NamesAre("Request", m)
<1>1. m \in [message : string, unknown : Seq(Byte)]
  BY RequestIs, Zenon
<1>2. DOMAIN m = {"message"} \cup {"unknown"}
  BY <1>1, SMT
<1>3. FieldsOf(m) = {"message"}
  BY <1>2, SMT DEF FieldsOf
<1>4. \A f \in FieldsOf(m) : \E T \in Own("Request") : \A n : n[f] = Get("Request", n, T)
  <2>1. 10 \in Own("Request")
    BY RequestIs, Zenon
  <2>2. (\A n : n["message"] = Get("Request", n, 10))
    BY RequestFields, Zenon
  <2> QED
    BY <1>3, <2>1, <2>2, Zenon
<1>5. FieldsOf(m) \cap {"data", "dara", "name", "message"} = {"message"}
  BY <1>3, SMT
<1>6. Own("Request") \cap Texts = {10}
  BY RequestIs, SMT DEF Texts
<1>7. \A n : n["message"] = Get("Request", n, 10)
  BY RequestFields, Zenon
<1> QED
  BY <1>4, <1>5, <1>6, <1>7, ZenonT(40) DEF NamesAre

LEMMA RequestCopy == \A m, from : CopyFrom("Request", m, from)
                                    = MergeFrom("Request", New("Request"), from)
BY Zenon DEF CopyFrom, Request_CopyFrom, Request_Clear, MergeFrom, New

LEMMA RequestValues == ASSUME NEW m \in Typed("Request")
                   PROVE  m.unknown \in Seq(Byte)
                          /\ \A T \in Tags : Get("Request", m, T) \in Values(T)
<1>1. m \in [message : string, unknown : Seq(Byte)]
  BY RequestIs, Zenon
<1>2. m.unknown \in Seq(Byte) /\ m.message \in string
  BY <1>1, SMT
<1>3. ASSUME NEW T \in Tags PROVE Get("Request", m, T) \in Values(T)
  <2>1. Get("Request", m, 8) \in Values(8)
    BY <1>2, RequestFields, TypesOfValues, StartTypes, Zenon
  <2>2. Get("Request", m, 10) \in Values(10)
    BY <1>2, RequestFields, TypesOfValues, Zenon
  <2>3. Get("Request", m, 16) \in Values(16)
    BY <1>2, RequestFields, TypesOfValues, StartTypes, Zenon
  <2>4. Get("Request", m, 18) \in Values(18)
    BY <1>2, RequestFields, TypesOfValues, StartTypes, Zenon
  <2>5. Get("Request", m, 29) \in Values(29)
    BY <1>2, RequestFields, TypesOfValues, StartTypes, Zenon
  <2> QED
    BY <2>1, <2>2, <2>3, <2>4, <2>5, TagsAre, Zenon
<1> QED
  BY <1>2, <1>3, Zenon

LEMMA RequestAlike == ASSUME NEW m, NEW t, NEW o, t.tag = o.tag, t.value = o.value, t.raw = o.raw
                  PROVE  Turn("Request", m, t) = Turn("Request", m, o)
<1>1. Request_InternalParse(m, t) = Request_InternalParse(m, o)
  BY Zenon DEF Request_InternalParse, Unknown, Known, KnownString
<1> QED
  BY <1>1, Zenon DEF Turn

-----------------------------------------------------------------------------
(* Reply, the other calls.                                                 *)

LEMMA ReplyWrite == ASSUME NEW m \in Typed("Reply") PROVE WriteIs("Reply", m)
<1> DEFINE a == Encoded(10, m.message)
           u == m.unknown
<1>1. m \in [message : string, unknown : Seq(Byte)]
  BY ReplyIs, Zenon
<1>2. u \in Seq(Byte) /\ m.message \in string
  BY <1>1, SMT
<1>3. /\ a \in Seq(Byte) /\ Len(a) = StringFieldSize(m.message)
      /\ Len(u) \in Nat /\ Len(a) \in Nat
  <2>1. a \in Seq(Byte) /\ Len(a) = StringFieldSize(m.message)
    BY <1>2, FieldBytes, Zenon
  <2> QED
    BY <1>2, <2>1, LenProperties, Zenon
<1>4. Parts("Reply", m) = ((((<<>> \o a) \o <<>>) \o <<>>) \o <<>>)
  BY ReplyFields, EncodedIs, Zenon DEF Parts
<1>5. Serialize("Reply", m) = (a \o u)
  BY EncodedIs, Zenon DEF Serialize, Reply_InternalSerialize
<1>6. ByteSizeLong("Reply", m) = Len(a) + Len(u)
  <2>1. ByteSizeLong("Reply", m) = StringFieldSize(m.message) + Len(m.unknown)
    BY Zenon DEF ByteSizeLong, Reply_ByteSizeLong
  <2> QED
    BY <1>3, <2>1, Zenon
<1> HIDE DEF a, u
<1>7. ((((<<>> \o a) \o <<>>) \o <<>>) \o <<>>) = a
  BY <1>3, NothingJoined, Zenon
<1>8. Len((a \o u)) = Len(a) + Len(u)
  BY <1>2, <1>3, Joined, Zenon
<1>9. ByteSizeLong("Reply", m) = Len(Serialize("Reply", m))
  BY <1>5, <1>6, <1>8, Zenon
<1>10. Serialize("Reply", m) = Parts("Reply", m) \o m.unknown
  BY <1>4, <1>5, <1>7, Zenon DEF u
<1> QED
  BY <1>9, <1>10, Zenon DEF WriteIs

LEMMA ReplySame == ASSUME NEW m \in Typed("Reply"), NEW n \in Typed("Reply"), m.unknown = n.unknown,
                          \A T \in Own("Reply") : Get("Reply", m, T) = Get("Reply", n, T)
                   PROVE  m = n
<1>1. /\ m \in [message : string, unknown : Seq(Byte)]
      /\ n \in [message : string, unknown : Seq(Byte)]
  BY ReplyIs, Zenon
<1>2. 10 \in Own("Reply")
  BY ReplyIs, Zenon
<1>3. m.message = n.message
  BY <1>2, ReplyFields, Zenon
<1> QED
  BY <1>1, <1>3, SMT

LEMMA ReplyMessages == ASSUME CodecAssumption PROVE MessagesAre("Reply")
<1> SUFFICES ASSUME NEW m \in Messages("Reply") PROVE m \in Typed("Reply") /\ m.unknown = <<>>
  BY Zenon DEF MessagesAre
<1>1. Messages("Reply") = [message : Strings["Reply"], unknown : {<<>>}]
  BY Zenon DEF Messages
<1>2. Strings["Reply"] \subseteq string
  BY InClasses, Zenon DEF CodecAssumption
<1> DEFINE none == {<<>>}
<1>3. none \subseteq Seq(Byte) /\ \A u \in none : u = <<>>
  BY StartTypes, Zenon
<1>4. m \in [message : Strings["Reply"], unknown : none]
  BY <1>1, Zenon
<1> HIDE DEF none
<1>5. m \in [message : string, unknown : Seq(Byte)] /\ m.unknown \in none
  BY <1>2, <1>3, <1>4, SMT
<1> QED
  BY <1>3, <1>5, ReplyIs, Zenon

LEMMA ReplySet == ASSUME CodecAssumption, NEW m \in Typed("Reply") PROVE SetIs("Reply", m)
<1> SUFFICES ASSUME NEW q \in Assigned("Reply", m)
             PROVE  q \in Typed("Reply") /\ q.unknown = m.unknown
  BY Zenon DEF SetIs
<1>1. m \in [message : string, unknown : Seq(Byte)]
  BY ReplyIs, Zenon
<1>2. \E s \in Strings["Reply"] : q = [m EXCEPT !.message = s]
  BY Zenon DEF Assigned, Reply_set_message
<1>3. ASSUME NEW s \in Strings["Reply"], q = [m EXCEPT !.message = s]
      PROVE  q \in [message : string, unknown : Seq(Byte)] /\ q.unknown = m.unknown
  <2>1. s \in string
    BY InClasses, Zenon DEF CodecAssumption
  <2> QED
    BY <1>1, <1>3, <2>1, SMT
<1> QED
  BY <1>2, <1>3, ReplyIs, Zenon

LEMMA ReplyNames == ASSUME NEW m \in Typed("Reply") PROVE NamesAre("Reply", m)
<1>1. m \in [message : string, unknown : Seq(Byte)]
  BY ReplyIs, Zenon
<1>2. DOMAIN m = {"message"} \cup {"unknown"}
  BY <1>1, SMT
<1>3. FieldsOf(m) = {"message"}
  BY <1>2, SMT DEF FieldsOf
<1>4. \A f \in FieldsOf(m) : \E T \in Own("Reply") : \A n : n[f] = Get("Reply", n, T)
  <2>1. 10 \in Own("Reply")
    BY ReplyIs, Zenon
  <2>2. (\A n : n["message"] = Get("Reply", n, 10))
    BY ReplyFields, Zenon
  <2> QED
    BY <1>3, <2>1, <2>2, Zenon
<1>5. FieldsOf(m) \cap {"data", "dara", "name", "message"} = {"message"}
  BY <1>3, SMT
<1>6. Own("Reply") \cap Texts = {10}
  BY ReplyIs, SMT DEF Texts
<1>7. \A n : n["message"] = Get("Reply", n, 10)
  BY ReplyFields, Zenon
<1> QED
  BY <1>4, <1>5, <1>6, <1>7, ZenonT(40) DEF NamesAre

LEMMA ReplyCopy == \A m, from : CopyFrom("Reply", m, from) = MergeFrom("Reply", New("Reply"), from)
BY Zenon DEF CopyFrom, Reply_CopyFrom, Reply_Clear, MergeFrom, New

LEMMA ReplyValues == ASSUME NEW m \in Typed("Reply")
                   PROVE  m.unknown \in Seq(Byte)
                          /\ \A T \in Tags : Get("Reply", m, T) \in Values(T)
<1>1. m \in [message : string, unknown : Seq(Byte)]
  BY ReplyIs, Zenon
<1>2. m.unknown \in Seq(Byte) /\ m.message \in string
  BY <1>1, SMT
<1>3. ASSUME NEW T \in Tags PROVE Get("Reply", m, T) \in Values(T)
  <2>1. Get("Reply", m, 8) \in Values(8)
    BY <1>2, ReplyFields, TypesOfValues, StartTypes, Zenon
  <2>2. Get("Reply", m, 10) \in Values(10)
    BY <1>2, ReplyFields, TypesOfValues, Zenon
  <2>3. Get("Reply", m, 16) \in Values(16)
    BY <1>2, ReplyFields, TypesOfValues, StartTypes, Zenon
  <2>4. Get("Reply", m, 18) \in Values(18)
    BY <1>2, ReplyFields, TypesOfValues, StartTypes, Zenon
  <2>5. Get("Reply", m, 29) \in Values(29)
    BY <1>2, ReplyFields, TypesOfValues, StartTypes, Zenon
  <2> QED
    BY <2>1, <2>2, <2>3, <2>4, <2>5, TagsAre, Zenon
<1> QED
  BY <1>2, <1>3, Zenon

LEMMA ReplyAlike == ASSUME NEW m, NEW t, NEW o, t.tag = o.tag, t.value = o.value, t.raw = o.raw
                  PROVE  Turn("Reply", m, t) = Turn("Reply", m, o)
<1>1. Reply_InternalParse(m, t) = Reply_InternalParse(m, o)
  BY Zenon DEF Reply_InternalParse, Unknown, Known, KnownString
<1> QED
  BY <1>1, Zenon DEF Turn

-----------------------------------------------------------------------------
(* The same for every class.                                                *)

LEMMA EveryClass == \A c \in Classes : c = "MsgData" \/ c = "Client" \/ c = "Book" \/ c = "Request"
                    \/ c = "Reply"
BY Zenon DEF Classes

LEMMA ClassTurn == ASSUME NEW c \in Classes, NEW m \in Typed(c), NEW t \in Items
                   PROVE  TurnIs(c, m, t)
BY EveryClass, MsgDataTurn, ClientTurn, BookTurn, RequestTurn, ReplyTurn, Zenon

LEMMA ClassAlike == ASSUME NEW c \in Classes, NEW m, NEW t, NEW o, t.tag = o.tag,
                           t.value = o.value, t.raw = o.raw
                    PROVE  Turn(c, m, t) = Turn(c, m, o)
<1>1. CASE c = "MsgData"
  BY <1>1, MsgDataAlike, Zenon
<1>2. CASE c = "Client"
  BY <1>2, ClientAlike, Zenon
<1>3. CASE c = "Book"
  BY <1>3, BookAlike, Zenon
<1>4. CASE c = "Request"
  BY <1>4, RequestAlike, Zenon
<1>5. CASE c = "Reply"
  BY <1>5, ReplyAlike, Zenon
<1> QED
  BY <1>1, <1>2, <1>3, <1>4, <1>5, EveryClass, Zenon

LEMMA ClassNew == ASSUME NEW c \in Classes PROVE NewIs(c)
BY EveryClass, MsgDataNew, ClientNew, BookNew, RequestNew, ReplyNew, Zenon

LEMMA ClassMerge == ASSUME NEW c \in Classes, NEW m \in Typed(c), NEW from \in Typed(c)
                    PROVE  MergeIs(c, m, from)
BY EveryClass, MsgDataMerge, ClientMerge, BookMerge, RequestMerge, ReplyMerge, Zenon

LEMMA ClassCopy == ASSUME NEW c \in Classes, NEW m, NEW from
                   PROVE  CopyFrom(c, m, from) = MergeFrom(c, New(c), from)
BY EveryClass, MsgDataCopy, ClientCopy, BookCopy, RequestCopy, ReplyCopy, ZenonT(40)

LEMMA ClassWrite == ASSUME NEW c \in Classes, NEW m \in Typed(c) PROVE WriteIs(c, m)
BY EveryClass, MsgDataWrite, ClientWrite, BookWrite, RequestWrite, ReplyWrite, Zenon

LEMMA ClassSame == ASSUME NEW c \in Classes, NEW m \in Typed(c), NEW n \in Typed(c),
                          m.unknown = n.unknown,
                          \A T \in Own(c) : Get(c, m, T) = Get(c, n, T)
                   PROVE  m = n
<1>1. CASE c = "MsgData"
  BY <1>1, MsgDataSame, Zenon
<1>2. CASE c = "Client"
  BY <1>2, ClientSame, Zenon
<1>3. CASE c = "Book"
  BY <1>3, BookSame, Zenon
<1>4. CASE c = "Request"
  BY <1>4, RequestSame, Zenon
<1>5. CASE c = "Reply"
  BY <1>5, ReplySame, Zenon
<1> QED
  BY <1>1, <1>2, <1>3, <1>4, <1>5, EveryClass, Zenon

LEMMA ClassMessages == ASSUME CodecAssumption, NEW c \in Classes PROVE MessagesAre(c)
BY EveryClass, MsgDataMessages, ClientMessages, BookMessages, RequestMessages, ReplyMessages, Zenon

LEMMA ClassSet == ASSUME CodecAssumption, NEW c \in Classes, NEW m \in Typed(c) PROVE SetIs(c, m)
BY EveryClass, MsgDataSet, ClientSet, BookSet, RequestSet, ReplySet, Zenon

LEMMA ClassNames == ASSUME NEW c \in Classes, NEW m \in Typed(c) PROVE NamesAre(c, m)
BY EveryClass, MsgDataNames, ClientNames, BookNames, RequestNames, ReplyNames, Zenon

LEMMA ClassValues == ASSUME NEW c \in Classes, NEW m \in Typed(c)
                     PROVE  m.unknown \in Seq(Byte) /\ \A T \in Tags : Get(c, m, T) \in Values(T)
BY EveryClass, MsgDataValues, ClientValues, BookValues, RequestValues, ReplyValues, Zenon

LEMMA OwnTags == ASSUME NEW c \in Classes PROVE Own(c) \subseteq Tags
BY EveryClass, MsgDataIs, ClientIs, BookIs, RequestIs, ReplyIs, Zenon DEF Tags

LEMMA NotOwn == ASSUME NEW c, NEW m, NEW T, T \notin Own(c) PROVE Get(c, m, T) = Default(T)
BY Zenon DEF Get

-----------------------------------------------------------------------------
(* The fields of a message as items.                                        *)

Content(c, m) == ItemsOf(8, Get(c, m, 8)) \o ItemsOf(10, Get(c, m, 10)) \o ItemsOf(16, Get(c, m, 16))
                   \o ItemsOf(18, Get(c, m, 18)) \o ItemsOf(29, Get(c, m, 29))

Count(c, m) == Flag(8, Get(c, m, 8)) + Flag(10, Get(c, m, 10)) + Flag(16, Get(c, m, 16))
                 + Flag(18, Get(c, m, 18)) + Flag(29, Get(c, m, 29))

ItemsIn(c, m) == {t \in Items : t.tag \in Own(c) /\ t.value = Get(c, m, t.tag)}

LEMMA ItemsOfOne ==
  ASSUME NEW c \in Classes, NEW m \in Typed(c), NEW T \in Tags
  PROVE  /\ ItemsOf(T, Get(c, m, T)) \in Seq(ItemsIn(c, m))
         /\ ItemsOf(T, Get(c, m, T)) \in Seq(Items)
         /\ Laid(Encoded(T, Get(c, m, T)), ItemsOf(T, Get(c, m, T)))
         /\ Len(ItemsOf(T, Get(c, m, T))) = Flag(T, Get(c, m, T))
         /\ \A U : Last(ItemsOf(T, Get(c, m, T)), Len(ItemsOf(T, Get(c, m, T))), U,
                        IF U = T THEN Get(c, m, T) ELSE Default(U))
<1> DEFINE v == Get(c, m, T)
<1>1. v \in Values(T)
  BY ClassValues, Zenon
<1>2. CASE v = Default(T)
  <2>1. ItemsOf(T, v) = <<>>
    BY <1>2, Zenon DEF ItemsOf
  <2>2. <<>> \in Seq(ItemsIn(c, m))
    BY SMT
  <2> QED
    BY <1>1, <2>1, <2>2, ItemsOfField, Zenon
<1>3. CASE v # Default(T)
  <2>1. ItemsOf(T, v) = <<Item(T, v)>>
    BY <1>3, Zenon DEF ItemsOf
  <2>2. Item(T, v) \in Items /\ Item(T, v).tag = T /\ Item(T, v).value = v
    BY <1>1, <1>3, ItemIsItem, Zenon
  <2>3. T \in Own(c)
    BY <1>3, NotOwn, Zenon
  <2> DEFINE t == Item(T, v)
  <2>4. t \in ItemsIn(c, m)
    BY <2>2, <2>3, Zenon DEF ItemsIn
  <2> HIDE DEF t
  <2>5. <<t>> \in Seq(ItemsIn(c, m))
    BY <2>4, SMT
  <2> QED
    BY <1>1, <2>1, <2>5, ItemsOfField, Zenon DEF t
<1> QED
  BY <1>2, <1>3, Zenon

\* The items of a message are those of its fields, each the last with its tag.
LEMMA LastOfFive ==
  \A T \in Tags : \A D, g :
     Or(IF T = 29 THEN g ELSE D, D, Or(IF T = 18 THEN g ELSE D, D, Or(IF T = 16 THEN g ELSE D, D,
        Or(IF T = 10 THEN g ELSE D, D, IF T = 8 THEN g ELSE D)))) = g
BY SMT DEF Or, Tags

LEMMA ContentOf ==
  ASSUME NEW c \in Classes, NEW m \in Typed(c)
  PROVE  /\ Content(c, m) \in Seq(ItemsIn(c, m)) /\ Content(c, m) \in Seq(Items)
         /\ Laid(Parts(c, m), Content(c, m))
         /\ Len(Content(c, m)) = Count(c, m)
         /\ \A T \in Tags : Last(Content(c, m), Len(Content(c, m)), T, Get(c, m, T))
<1> DEFINE g(T) == Get(c, m, T)
           I(T) == ItemsOf(T, g(T))
           E(T) == Encoded(T, g(T))
           S == ItemsIn(c, m)
<1>1. 8 \in Tags /\ 10 \in Tags /\ 16 \in Tags /\ 18 \in Tags /\ 29 \in Tags
  BY SMT DEF Tags
<1>2. \A T \in Tags : I(T) \in Seq(S) /\ I(T) \in Seq(Items) /\ Laid(E(T), I(T))
      /\ Len(I(T)) = Flag(T, g(T))
  BY ItemsOfOne, Zenon
<1>3. \A T \in Tags : \A U : Last(I(T), Len(I(T)), U, IF U = T THEN g(T) ELSE Default(U))
  BY ItemsOfOne, Zenon
<1> DEFINE i1 == I(8)
           i2 == I(10)
           i3 == I(16)
           i4 == I(18)
           i5 == I(29)
<1>4. Laid(((((E(8) \o E(10)) \o E(16)) \o E(18)) \o E(29)), ((((i1 \o i2) \o i3) \o i4) \o i5))
  <2>1. Laid(E(8) \o E(10), i1 \o i2)
    BY <1>1, <1>2, LaidJoined, Zenon
  <2>2. Laid((E(8) \o E(10)) \o E(16), (i1 \o i2) \o i3)
    BY <1>1, <1>2, <2>1, LaidJoined, Zenon
  <2>3. Laid(((E(8) \o E(10)) \o E(16)) \o E(18), ((i1 \o i2) \o i3) \o i4)
    BY <1>1, <1>2, <2>2, LaidJoined, Zenon
  <2> QED
    BY <1>1, <1>2, <2>3, LaidJoined, Zenon
<1>5. /\ i1 \in Seq(S) /\ i2 \in Seq(S) /\ i3 \in Seq(S) /\ i4 \in Seq(S) /\ i5 \in Seq(S)
      /\ i1 \in Seq(Items) /\ i2 \in Seq(Items) /\ i3 \in Seq(Items) /\ i4 \in Seq(Items)
         /\ i5 \in Seq(Items)
      /\ Len(i1) = Flag(8, g(8)) /\ Len(i2) = Flag(10, g(10)) /\ Len(i3) = Flag(16, g(16))
      /\ Len(i4) = Flag(18, g(18)) /\ Len(i5) = Flag(29, g(29))
  BY <1>1, <1>2, Zenon
<1>6. ASSUME NEW T \in Tags
      PROVE  /\ Last(i1, Len(i1), T, IF T = 8 THEN g(T) ELSE Default(T))
             /\ Last(i2, Len(i2), T, IF T = 10 THEN g(T) ELSE Default(T))
             /\ Last(i3, Len(i3), T, IF T = 16 THEN g(T) ELSE Default(T))
             /\ Last(i4, Len(i4), T, IF T = 18 THEN g(T) ELSE Default(T))
             /\ Last(i5, Len(i5), T, IF T = 29 THEN g(T) ELSE Default(T))
  <2>1. \A U \in Tags : (IF T = U THEN g(U) ELSE Default(T)) = (IF T = U THEN g(T) ELSE Default(T))
    BY Zenon
  <2>2. \A U \in Tags : Last(I(U), Len(I(U)), T, IF T = U THEN g(T) ELSE Default(T))
    BY <1>3, <2>1, Zenon
  <2> QED
    BY <1>1, <2>2, Zenon
<1> HIDE DEF i1, i2, i3, i4, i5, S
<1>7. (((i1 \o i2) \o i3) \o i4) \o i5 \in Seq(S)
  BY <1>5, ConcatProperties, Zenon
<1>8. /\ i1 \o i2 \in Seq(Items) /\ Len(i1 \o i2) = Len(i1) + Len(i2)
      /\ (i1 \o i2) \o i3 \in Seq(Items) /\ Len((i1 \o i2) \o i3) = Len(i1 \o i2) + Len(i3)
      /\ ((i1 \o i2) \o i3) \o i4 \in Seq(Items)
      /\ Len(((i1 \o i2) \o i3) \o i4) = Len((i1 \o i2) \o i3) + Len(i4)
      /\ (((i1 \o i2) \o i3) \o i4) \o i5 \in Seq(Items)
      /\ Len((((i1 \o i2) \o i3) \o i4) \o i5) = Len(((i1 \o i2) \o i3) \o i4) + Len(i5)
  <2>1. i1 \o i2 \in Seq(Items) /\ Len(i1 \o i2) = Len(i1) + Len(i2)
    BY <1>5, ConcatProperties, Zenon
  <2>2. (i1 \o i2) \o i3 \in Seq(Items) /\ Len((i1 \o i2) \o i3) = Len(i1 \o i2) + Len(i3)
    BY <1>5, <2>1, ConcatProperties, Zenon
  <2>3. /\ ((i1 \o i2) \o i3) \o i4 \in Seq(Items)
        /\ Len(((i1 \o i2) \o i3) \o i4) = Len((i1 \o i2) \o i3) + Len(i4)
    BY <1>5, <2>2, ConcatProperties, Zenon
  <2>4. /\ (((i1 \o i2) \o i3) \o i4) \o i5 \in Seq(Items)
        /\ Len((((i1 \o i2) \o i3) \o i4) \o i5) = Len(((i1 \o i2) \o i3) \o i4) + Len(i5)
    BY <1>5, <2>3, ConcatProperties, Zenon
  <2> QED
    BY <2>1, <2>2, <2>3, <2>4, Zenon
<1>9. Len((((i1 \o i2) \o i3) \o i4) \o i5) = (((Len(i1) + Len(i2)) + Len(i3)) + Len(i4)) + Len(i5)
  BY <1>8, Zenon
<1>10. ASSUME NEW T \in Tags
       PROVE  Last((((i1 \o i2) \o i3) \o i4) \o i5, Len((((i1 \o i2) \o i3) \o i4) \o i5), T, g(T))
  <2> DEFINE D == Default(T)
             a1 == IF T = 8 THEN g(T) ELSE D
             a2 == IF T = 10 THEN g(T) ELSE D
             a3 == IF T = 16 THEN g(T) ELSE D
             a4 == IF T = 18 THEN g(T) ELSE D
             a5 == IF T = 29 THEN g(T) ELSE D
             o2 == Or(a2, D, a1)
             o3 == Or(a3, D, o2)
             o4 == Or(a4, D, o3)
  <2>1. /\ Last(i1, Len(i1), T, a1) /\ Last(i2, Len(i2), T, a2) /\ Last(i3, Len(i3), T, a3)
        /\ Last(i4, Len(i4), T, a4) /\ Last(i5, Len(i5), T, a5)
    BY <1>6, Zenon
  <2>2. Or(a5, D, o4) = g(T)
    BY LastOfFive, Zenon
  <2> HIDE DEF a1, a2, a3, a4, a5
  <2>3. Last(i1 \o i2, Len(i1 \o i2), T, o2)
    BY <1>5, <2>1, LastJoined, Zenon
  <2> HIDE DEF o2
  <2>4. Last((i1 \o i2) \o i3, Len((i1 \o i2) \o i3), T, o3)
    BY <1>5, <1>8, <2>1, <2>3, LastJoined, Zenon
  <2> HIDE DEF o3
  <2>5. Last(((i1 \o i2) \o i3) \o i4, Len(((i1 \o i2) \o i3) \o i4), T, o4)
    BY <1>5, <1>8, <2>1, <2>4, LastJoined, Zenon
  <2> HIDE DEF o4
  <2>6. Last((((i1 \o i2) \o i3) \o i4) \o i5, Len((((i1 \o i2) \o i3) \o i4) \o i5), T, Or(a5, D, o4))
    BY <1>5, <1>8, <2>1, <2>5, LastJoined, Zenon
  <2> QED
    BY <2>2, <2>6, Zenon
<1>11. Content(c, m) = (((i1 \o i2) \o i3) \o i4) \o i5
  BY Zenon DEF Content, i1, i2, i3, i4, i5
<1>12. Parts(c, m) = (((E(8) \o E(10)) \o E(16)) \o E(18)) \o E(29)
  BY Zenon DEF Parts
<1>13. Count(c, m) = (((Len(i1) + Len(i2)) + Len(i3)) + Len(i4)) + Len(i5)
  BY <1>5, Zenon DEF Count
<1> QED
  BY <1>4, <1>7, <1>8, <1>9, <1>10, <1>11, <1>12, <1>13, Zenon DEF S

\* What a message is written as.
LEMMA SerializeLaid ==
  ASSUME NEW c \in Classes, NEW m \in Typed(c), NEW u, Laid(m.unknown, u)
  PROVE  Laid(Serialize(c, m), Content(c, m) \o u)
<1>1. Serialize(c, m) = Parts(c, m) \o m.unknown
  BY ClassWrite, Zenon DEF WriteIs
<1> QED
  BY <1>1, ContentOf, LaidJoined, Zenon

-----------------------------------------------------------------------------
(* Induction over the natural numbers, with a set in place of a predicate.  *)

\* Every set of numbers has a smallest, so one that has 0 and all successors is Nat.
LEMMA Smallest == ASSUME NEW T, T \subseteq Nat, T # {}
                  PROVE  \E m \in T : \A n \in T : m <= n
<1>1. PICK m \in T : \A n \in T : ~(<<n, m>> \in OpToRel(<, Nat))
  BY NatLessThanWellFounded, WFMin, Zenon
<1>2. ASSUME NEW n \in T PROVE m <= n
  <2>1. ~ (n < m)
    BY <1>1, Zenon DEF OpToRel
  <2> QED
    BY <2>1
<1> QED
  BY <1>2

LEMMA Induction == ASSUME NEW T, T \subseteq Nat, 0 \in T, \A n \in T : n + 1 \in T
                   PROVE  T = Nat
<1> SUFFICES ASSUME Nat \ T # {} PROVE FALSE
  OBVIOUS
<1>1. PICK m \in Nat \ T : \A n \in Nat \ T : m <= n
  BY Smallest
<1>2. m # 0 /\ m - 1 \in Nat
  BY <1>1
<1>3. m - 1 \in T
  BY <1>1, <1>2
<1> QED
  BY <1>1, <1>2, <1>3

-----------------------------------------------------------------------------
(* The loop of a parse.                                                     *)

\* The loop of Parse, its turns by number.
Start(c) == [at |-> 1, ok |-> TRUE, msg |-> New(c)]

Step(c, b, s) ==
  LET t == Field(b, s.at)
  IN  IF ~s.ok \/ s.at > Len(b) THEN s
      ELSE IF t.next = 0 THEN [s EXCEPT !.ok = FALSE]
      ELSE LET r == Turn(c, s.msg, t)
           IN  [at |-> t.next, ok |-> r.ok, msg |-> r.msg]

Run(c, b, n, run) == run = [k \in 0..n |-> IF k = 0 THEN Start(c) ELSE Step(c, b, run[k-1])]

\* There is such a function, as each turn depends on the one before it.
LEMMA RunExists == ASSUME NEW c, NEW b, NEW n \in Nat PROVE \E run : Run(c, b, n, run)
<1> DEFINE D == {i \in Nat : \E run : Run(c, b, i, run)}
<1>1. 0 \in D
  <2> DEFINE f == [k \in 0..0 |-> Start(c)]
  <2>1. f = [k \in 0..0 |-> IF k = 0 THEN Start(c) ELSE Step(c, b, f[k-1])]
    OBVIOUS
  <2>2. Run(c, b, 0, f)
    BY <2>1, Zenon DEF Run
  <2> QED
    BY <2>2
<1>2. ASSUME NEW i \in D PROVE i + 1 \in D
  <2>1. PICK f : Run(c, b, i, f)
    BY Zenon
  <2> DEFINE h(k) == IF k = 0 THEN Start(c) ELSE Step(c, b, f[k-1])
             g == [k \in 0..i+1 |-> h(k)]
  <2>2. i \in Nat /\ \A k \in 0..i : f[k] = h(k)
    BY <2>1, Zenon DEF Run
  <2>3. \A k \in 0..i+1 : g[k] = h(k)
    BY Zenon
  <2>4. ASSUME NEW k \in 0..i+1 PROVE h(k) = IF k = 0 THEN Start(c) ELSE Step(c, b, g[k-1])
    <3>1. CASE k = 0
      BY <3>1, Zenon
    <3>2. CASE k # 0
      <4>1. k - 1 \in 0..i /\ k - 1 \in 0..i+1
        BY <2>2, <3>2, SMT
      <4>2. g[k-1] = f[k-1]
        BY <2>2, <2>3, <4>1, Zenon
      <4> QED
        BY <3>2, <4>2, Zenon
    <3> QED
      BY <3>1, <3>2, Zenon
  <2>5. Run(c, b, i + 1, g)
    <3>1. g = [k \in 0..i+1 |-> IF k = 0 THEN Start(c) ELSE Step(c, b, g[k-1])]
      BY <2>4, Zenon
    <3> HIDE DEF g
    <3> QED
      BY <3>1, Zenon DEF Run
  <2> QED
    BY <2>2, <2>5, SMT
<1>3. D = Nat
  <2> HIDE DEF D
  <2>1. D \subseteq Nat
    BY Zenon DEF D
  <2> QED
    BY <1>1, <1>2, <2>1, Induction, Zenon
<1> QED
  BY <1>3, Zenon

\* Parse gives what the loop has made after as many turns as there may be fields.
LEMMA ParseIsRun == ASSUME NEW c, NEW b, Fields \in Nat
                    PROVE  \E run : Run(c, b, Fields, run) /\ Parse(c, b) = run[Fields]
<1> DEFINE f == CHOOSE run : Run(c, b, Fields, run)
<1>1. Run(c, b, Fields, f)
  BY RunExists, Zenon
<1>2. Parse(c, b) = f[Fields]
  BY Zenon DEF Parse, Run, Start, Step
<1> QED
  BY <1>1, <1>2, Zenon

-----------------------------------------------------------------------------
(* A message while it is parsed.                                           *)

\* What a message of the class c is after the first j fields of a stream.
At(c, its, j, m) ==
  /\ m \in Typed(c)
  /\ \A T \in Own(c) : Last(its, j, T, Get(c, m, T))
  /\ \E u : /\ Laid(m.unknown, u)
            /\ \A i \in 1..Len(u) : u[i].tag \notin Own(c) /\ \E k \in 1..j : u[i] = its[k]
            /\ \A T \in Tags \ Own(c) : \A v : Last(its, j, T, v) => Last(u, Len(u), T, v)
            /\ Len(u) + Count(c, m) <= j

LEMMA Flags == \A T, v : Flag(T, v) \in {0, 1} /\ Flag(T, Default(T)) = 0
BY Zenon DEF Flag

LEMMA CountOfNew == ASSUME NEW c \in Classes PROVE Count(c, New(c)) = 0
<1>1. \A T \in Tags : Get(c, New(c), T) = Default(T)
  BY ClassNew, Zenon DEF NewIs
<1>2. 8 \in Tags /\ 10 \in Tags /\ 16 \in Tags /\ 18 \in Tags /\ 29 \in Tags
  BY SMT DEF Tags
<1>3. Count(c, New(c)) = 0 + 0 + 0 + 0 + 0
  BY <1>1, <1>2, Flags, Zenon DEF Count
<1> QED
  BY <1>3, SMT

LEMMA CountOfSame == ASSUME NEW c, NEW m, NEW q, \A T \in Tags : Get(c, q, T) = Get(c, m, T)
                     PROVE  Count(c, q) = Count(c, m)
<1>1. 8 \in Tags /\ 10 \in Tags /\ 16 \in Tags /\ 18 \in Tags /\ 29 \in Tags
  BY SMT DEF Tags
<1> QED
  BY <1>1, Zenon DEF Count

LEMMA CountIsNumber == ASSUME NEW c, NEW m PROVE Count(c, m) \in Nat
<1>1. /\ Flag(8, Get(c, m, 8)) \in {0, 1} /\ Flag(10, Get(c, m, 10)) \in {0, 1}
      /\ Flag(16, Get(c, m, 16)) \in {0, 1} /\ Flag(18, Get(c, m, 18)) \in {0, 1}
      /\ Flag(29, Get(c, m, 29)) \in {0, 1}
  BY Flags, Zenon
<1> QED
  BY <1>1, SMT DEF Count

\* One field changed is at most one more that is not the default.
LEMMA CountOfChanged ==
  ASSUME NEW c, NEW m, NEW q, NEW U \in Tags, NEW v,
         \A T \in Tags : Get(c, q, T) = IF T = U THEN v ELSE Get(c, m, T)
  PROVE  Count(c, q) <= Count(c, m) + 1
<1> DEFINE f(n, T) == Flag(T, Get(c, n, T))
<1>1. /\ f(m, 8) \in {0, 1} /\ f(m, 10) \in {0, 1} /\ f(m, 16) \in {0, 1} /\ f(m, 18) \in {0, 1}
      /\ f(m, 29) \in {0, 1}
      /\ f(q, 8) \in {0, 1} /\ f(q, 10) \in {0, 1} /\ f(q, 16) \in {0, 1} /\ f(q, 18) \in {0, 1}
      /\ f(q, 29) \in {0, 1}
  BY Flags, Zenon
<1>2. \A T \in Tags : T # U => f(q, T) = f(m, T)
  BY Zenon
<1>3. 8 \in Tags /\ 10 \in Tags /\ 16 \in Tags /\ 18 \in Tags /\ 29 \in Tags
  BY SMT DEF Tags
<1>4. /\ 8 # U => f(q, 8) = f(m, 8)
      /\ 10 # U => f(q, 10) = f(m, 10)
      /\ 16 # U => f(q, 16) = f(m, 16)
      /\ 18 # U => f(q, 18) = f(m, 18)
      /\ 29 # U => f(q, 29) = f(m, 29)
  BY <1>2, <1>3, Zenon
<1>5. /\ Count(c, q) = f(q, 8) + f(q, 10) + f(q, 16) + f(q, 18) + f(q, 29)
      /\ Count(c, m) = f(m, 8) + f(m, 10) + f(m, 16) + f(m, 18) + f(m, 29)
  BY Zenon DEF Count
<1> HIDE DEF f
<1> QED
  BY <1>1, <1>4, <1>5, SMT

LEMMA AtStart == ASSUME NEW c \in Classes, NEW its PROVE At(c, its, 0, New(c))
<1>1. New(c) \in Typed(c) /\ New(c).unknown = <<>> /\ \A T \in Tags : Get(c, New(c), T) = Default(T)
  BY ClassNew, Zenon DEF NewIs
<1>2. \A T \in Own(c) : Last(its, 0, T, Get(c, New(c), T))
  BY <1>1, OwnTags, LastOfNone, Zenon
<1>3. Laid(New(c).unknown, <<>>)
  BY <1>1, LaidEmpty, Zenon
<1>4. Len(<<>>) = 0 /\ 1..0 = {} /\ Len(<<>>) + 0 <= 0 /\ 0 \in Nat
  BY SMT
<1>5. ASSUME NEW T, NEW v, Last(its, 0, T, v) PROVE Last(<<>>, Len(<<>>), T, v)
  <2>1. v = Default(T)
    BY <1>4, <1>5, LastOfNone, LastIsUnique, Zenon
  <2> QED
    BY <1>4, <2>1, LastOfNone, Zenon
<1>6. \A i \in 1..Len(<<>>) : <<>>[i].tag \notin Own(c) /\ \E k \in 1..0 : <<>>[i] = its[k]
  BY <1>4, Zenon
<1>7. Len(<<>>) + Count(c, New(c)) <= 0
  BY <1>4, CountOfNew, Zenon
<1> QED
  BY <1>1, <1>2, <1>3, <1>5, <1>6, <1>7, Zenon DEF At

\* Last, when the item behind is another, or the items are those of another sequence.
LEMMA LastBefore == ASSUME NEW its, NEW j \in Nat, NEW T, NEW v, Last(its, j + 1, T, v),
                           its[j+1].tag # T
                    PROVE  Last(its, j, T, v)
<1>1. \A k \in 1..j : k \in 1..j+1
  BY SMT
<1>2. \A i \in 1..j+1 : i \in 1..j \/ i = j + 1
  BY SMT
<1>3. \A i \in 1..j : \A k \in i+1..j : k \in i+1..j+1
  BY SMT
<1>4. CASE v = Default(T) /\ \A k \in 1..j+1 : its[k].tag # T
  BY <1>1, <1>4, Zenon DEF Last
<1>5. CASE \E i \in 1..j+1 : its[i].tag = T /\ its[i].value = v
      /\ \A k \in i+1..j+1 : its[k].tag # T
  <2>1. PICK i \in 1..j+1 : its[i].tag = T /\ its[i].value = v /\ \A k \in i+1..j+1 : its[k].tag # T
    BY <1>5, Zenon
  <2>2. i \in 1..j
    BY <1>2, <2>1, Zenon
  <2>3. \A k \in i+1..j : its[k].tag # T
    BY <1>3, <2>1, <2>2, Zenon
  <2> QED
    BY <2>1, <2>2, <2>3, Zenon DEF Last
<1> QED
  BY <1>4, <1>5, Zenon DEF Last

LEMMA LastSame == ASSUME NEW its, NEW s, NEW j \in Nat, NEW T, NEW v,
                         \A i \in 1..j : its[i] = s[i], Last(s, j, T, v)
                  PROVE  Last(its, j, T, v)
<1>1. \A i \in 1..j : \A k \in i+1..j : k \in 1..j
  BY SMT
<1>2. CASE v = Default(T) /\ \A k \in 1..j : s[k].tag # T
  BY <1>2, Zenon DEF Last
<1>3. CASE \E i \in 1..j : s[i].tag = T /\ s[i].value = v /\ \A k \in i+1..j : s[k].tag # T
  <2>1. PICK i \in 1..j : s[i].tag = T /\ s[i].value = v /\ \A k \in i+1..j : s[k].tag # T
    BY <1>3, Zenon
  <2>2. its[i].tag = T /\ its[i].value = v
    BY <2>1, Zenon
  <2>3. \A k \in i+1..j : its[k].tag # T
    BY <1>1, <2>1, Zenon
  <2> QED
    BY <2>2, <2>3, Zenon DEF Last
<1> QED
  BY <1>2, <1>3, Zenon DEF Last

LEMMA JoinedItems == \A p, q \in Seq(Items) :
  /\ p \o q \in Seq(Items) /\ Len(p \o q) = Len(p) + Len(q)
  /\ Len(p) \in Nat /\ Len(q) \in Nat
  /\ \A i \in 1..Len(p) : (p \o q)[i] = p[i]
  /\ \A i \in 1..Len(q) : (p \o q)[Len(p) + i] = q[i]
<1> SUFFICES ASSUME NEW p \in Seq(Items), NEW q \in Seq(Items)
             PROVE  /\ p \o q \in Seq(Items) /\ Len(p \o q) = Len(p) + Len(q)
                    /\ Len(p) \in Nat /\ Len(q) \in Nat
                    /\ \A i \in 1..Len(p) : (p \o q)[i] = p[i]
                    /\ \A i \in 1..Len(q) : (p \o q)[Len(p) + i] = q[i]
  OBVIOUS
<1> QED
  BY Concat

\* The unknown fields, with one more behind them.
LEMMA Appended ==
  ASSUME NEW s \in Seq(Items), NEW t \in Items
  PROVE  /\ s \o <<t>> \in Seq(Items) /\ Len(s \o <<t>>) = Len(s) + 1 /\ Len(s) \in Nat
         /\ \A i \in 1..Len(s) : (s \o <<t>>)[i] = s[i]
         /\ (s \o <<t>>)[Len(s) + 1] = t
         /\ \A T, v : (IF t.tag = T THEN v = t.value ELSE Last(s, Len(s), T, v))
                        => Last(s \o <<t>>, Len(s) + 1, T, v)
<1>1. <<t>> \in Seq(Items) /\ Len(<<t>>) = 1 /\ <<t>>[1] = t /\ 1 \in 1..1
  BY SMT
<1> DEFINE r == s \o <<t>>
<1>2. /\ r \in Seq(Items) /\ Len(r) = Len(s) + 1 /\ Len(s) \in Nat
      /\ \A i \in 1..Len(s) : r[i] = s[i]
      /\ r[Len(s) + 1] = t
  <2> DEFINE z == <<t>>
  <2>1. z \in Seq(Items) /\ Len(z) = 1 /\ z[1] = t /\ 1 \in 1..1
    BY <1>1, Zenon
  <2> HIDE DEF z
  <2>2. /\ s \o z \in Seq(Items) /\ Len(s \o z) = Len(s) + Len(z) /\ Len(s) \in Nat
        /\ \A i \in 1..Len(s) : (s \o z)[i] = s[i]
        /\ \A i \in 1..Len(z) : (s \o z)[Len(s) + i] = z[i]
    BY <2>1, JoinedItems, Zenon
  <2>3. (s \o z)[Len(s) + 1] = t
    BY <2>1, <2>2, Zenon
  <2>4. Len(s \o z) = Len(s) + 1
    BY <2>1, <2>2, Zenon
  <2> QED
    BY <2>2, <2>3, <2>4, Zenon DEF z
<1> HIDE DEF r
<1>3. ASSUME NEW T, NEW v, IF t.tag = T THEN v = t.value ELSE Last(s, Len(s), T, v)
      PROVE  Last(r, Len(s) + 1, T, v)
  <2>1. IF r[Len(s) + 1].tag = T THEN v = r[Len(s) + 1].value ELSE Last(r, Len(s), T, v)
    <3>1. Last(s, Len(s), T, v) => Last(r, Len(s), T, v)
      BY <1>2, LastSame, Zenon
    <3> QED
      BY <1>2, <1>3, <3>1, Zenon
  <2> QED
    BY <1>2, <2>1, LastNext, Zenon
<1> QED
  BY <1>2, <1>3, Zenon DEF r

\* The next field of the stream.
LEMMA AtNext ==
  ASSUME NEW c \in Classes, NEW its, NEW j \in Nat, NEW m, At(c, its, j, m), its[j+1] \in Items
  PROVE  At(c, its, j + 1, Turn(c, m, its[j+1]).msg)
<1> DEFINE t == its[j+1]
           q == Turn(c, m, t).msg
<1>1. m \in Typed(c) /\ \A T \in Own(c) : Last(its, j, T, Get(c, m, T))
  BY Zenon DEF At
<1>2. PICK u : /\ Laid(m.unknown, u)
               /\ \A i \in 1..Len(u) : u[i].tag \notin Own(c) /\ \E k \in 1..j : u[i] = its[k]
               /\ \A T \in Tags \ Own(c) : \A v : Last(its, j, T, v) => Last(u, Len(u), T, v)
               /\ Len(u) + Count(c, m) <= j
  BY Zenon DEF At
<1>3. t \in Items /\ t.tag \in Tags
  BY IsItem, Zenon
<1>4. u \in Seq(Items) /\ Len(u) \in Nat
  BY <1>2, LenProperties, Zenon DEF Laid
<1>5. \A k \in 1..j : k \in 1..j+1
  BY SMT
<1>6. TurnIs(c, m, t)
  BY <1>1, <1>3, ClassTurn, Zenon
<1> HIDE DEF t
<1>7. CASE t.tag \in Own(c)
  <2>1. /\ q \in Typed(c) /\ q.unknown = m.unknown
        /\ \A T \in Tags : Get(c, q, T) = IF T = t.tag THEN t.value ELSE Get(c, m, T)
    BY <1>6, <1>7, Zenon DEF TurnIs
  <2> HIDE DEF q
  <2>2. ASSUME NEW T \in Own(c) PROVE Last(its, j + 1, T, Get(c, q, T))
    <3>1. T \in Tags
      BY OwnTags, Zenon
    <3>2. IF its[j+1].tag = T THEN Get(c, q, T) = its[j+1].value ELSE Last(its, j, T, Get(c, q, T))
      BY <1>1, <2>1, <3>1, Zenon DEF t
    <3> QED
      BY <3>2, LastNext, Zenon
  <2>3. Laid(q.unknown, u)
    BY <1>2, <2>1, Zenon
  <2>4. \A i \in 1..Len(u) : u[i].tag \notin Own(c) /\ \E k \in 1..j+1 : u[i] = its[k]
    BY <1>2, <1>5, Zenon
  <2>5. ASSUME NEW T \in Tags \ Own(c), NEW v, Last(its, j + 1, T, v) PROVE Last(u, Len(u), T, v)
    <3>1. Last(its, j, T, v)
      BY <1>7, <2>5, LastBefore, Zenon DEF t
    <3> QED
      BY <1>2, <3>1, Zenon
  <2>6. Len(u) + Count(c, q) <= j + 1
    <3>1. Count(c, q) <= Count(c, m) + 1
      BY <1>3, <2>1, CountOfChanged, Zenon
    <3>2. Count(c, q) \in Nat /\ Count(c, m) \in Nat
      BY CountIsNumber, Zenon
    <3> QED
      BY <1>2, <1>4, <3>1, <3>2, SMT
  <2>7. At(c, its, j + 1, q)
    BY <2>1, <2>2, <2>3, <2>4, <2>5, <2>6, Zenon DEF At
  <2> QED
    BY <2>7, Zenon DEF q, t
<1>8. CASE t.tag \notin Own(c)
  <2>1. /\ q \in Typed(c) /\ q.unknown = m.unknown \o t.raw
        /\ \A T \in Tags : Get(c, q, T) = Get(c, m, T)
    BY <1>6, <1>8, Zenon DEF TurnIs
  <2> HIDE DEF q
  <2> DEFINE w == u \o <<t>>
  <2>2. /\ w \in Seq(Items) /\ Len(w) = Len(u) + 1
        /\ \A i \in 1..Len(u) : w[i] = u[i]
        /\ w[Len(u) + 1] = t
        /\ \A T, v : (IF t.tag = T THEN v = t.value ELSE Last(u, Len(u), T, v))
                       => Last(w, Len(u) + 1, T, v)
    BY <1>3, <1>4, Appended, Zenon
  <2>3. Laid(q.unknown, w)
    <3>1. Laid(t.raw, <<t>>)
      BY <1>3, LaidOne, Zenon
    <3>2. Laid(m.unknown \o t.raw, w)
      BY <1>2, <3>1, LaidJoined, Zenon
    <3> QED
      BY <2>1, <3>2, Zenon
  <2> HIDE DEF w
  <2>4. ASSUME NEW T \in Own(c) PROVE Last(its, j + 1, T, Get(c, q, T))
    <3>1. T \in Tags /\ its[j+1].tag # T
      BY <1>8, OwnTags, Zenon DEF t
    <3>2. Last(its, j, T, Get(c, q, T))
      BY <1>1, <2>1, <3>1, Zenon
    <3> QED
      BY <3>1, <3>2, LastNext, Zenon
  <2>5. ASSUME NEW i \in 1..Len(w) PROVE w[i].tag \notin Own(c) /\ \E k \in 1..j+1 : w[i] = its[k]
    <3>1. i \in 1..Len(u) \/ i = Len(u) + 1
      BY <1>4, <2>2, SMT
    <3>2. j + 1 \in 1..j+1
      BY SMT
    <3>3. CASE i \in 1..Len(u)
      BY <1>2, <1>5, <2>2, <3>3, Zenon
    <3>4. CASE i = Len(u) + 1
      BY <1>8, <2>2, <3>2, <3>4, Zenon DEF t
    <3> QED
      BY <3>1, <3>3, <3>4, Zenon
  <2>6. ASSUME NEW T \in Tags \ Own(c), NEW v, Last(its, j + 1, T, v) PROVE Last(w, Len(w), T, v)
    <3>1. CASE t.tag = T
      <4>1. Last(its, j + 1, T, t.value)
        BY <3>1, LastNext, Zenon DEF t
      <4>2. j + 1 \in Nat
        BY SMT
      <4>3. v = t.value
        BY <2>6, <4>1, <4>2, LastIsUnique, Zenon
      <4> QED
        BY <2>2, <3>1, <4>3, Zenon
    <3>2. CASE t.tag # T
      <4>1. Last(its, j, T, v)
        BY <2>6, <3>2, LastBefore, Zenon DEF t
      <4>2. Last(u, Len(u), T, v)
        BY <1>2, <4>1, Zenon
      <4> QED
        BY <2>2, <3>2, <4>2, Zenon
    <3> QED
      BY <3>1, <3>2, Zenon
  <2>7. Len(w) + Count(c, q) <= j + 1
    <3>1. Count(c, q) = Count(c, m)
      BY <2>1, CountOfSame, Zenon
    <3>2. Count(c, m) \in Nat
      BY CountIsNumber, Zenon
    <3> QED
      BY <1>2, <1>4, <2>2, <3>1, <3>2, SMT
  <2>8. At(c, its, j + 1, q)
    BY <2>1, <2>3, <2>4, <2>5, <2>6, <2>7, Zenon DEF At
  <2> QED
    BY <2>8, Zenon DEF q, t
<1> QED
  BY <1>7, <1>8, Zenon

-----------------------------------------------------------------------------
(* What a parse makes of a stream that arrived up to n.                     *)

\* After k turns of the loop.
Reached(c, b, its, e, n, k, s) ==
  /\ "ok" \in DOMAIN s
  /\ s.ok => \E j \in 0..Len(its) :
       /\ s.at = e[j] + 1 /\ e[j] <= n /\ (j = k \/ e[j] = n)
       /\ At(c, its, j, s.msg)
       /\ \A i \in 1..j : Fine(c, its[i])
  /\ ~s.ok => n < Len(b) \/ \E i \in 1..Len(its) : ~Fine(c, its[i])

LEMMA Beginning ==
  ASSUME NEW b \in Seq(Byte), NEW n \in 0..Len(b)
  PROVE  /\ SubSeq(b, 1, n) \in Seq(Byte) /\ Len(SubSeq(b, 1, n)) = n
         /\ \A q \in 1..n : SubSeq(b, 1, n)[q] = b[q]
BY SMT

\* The fields of the records the loop works with.
LEMMA StateParts == ASSUME NEW r, NEW a, NEW o, NEW m, r = [at |-> a, ok |-> o, msg |-> m]
                    PROVE  r.at = a /\ r.ok = o /\ r.msg = m /\ "ok" \in DOMAIN r
BY SMT

LEMMA StateFailed == ASSUME NEW s, "ok" \in DOMAIN s
                     PROVE  [s EXCEPT !.ok = FALSE].ok = FALSE
                            /\ "ok" \in DOMAIN [s EXCEPT !.ok = FALSE]
BY SMT

LEMMA StateOfTurn == ASSUME NEW z, NEW a, NEW p, z = [at |-> a, ok |-> p.ok, msg |-> p.msg]
                     PROVE  z.at = a /\ z.ok = p.ok /\ z.msg = p.msg /\ "ok" \in DOMAIN z
BY SMT

LEMMA FieldParts == ASSUME NEW r, NEW g, NEW n, NEW w, NEW v,
                           r = [tag |-> g, next |-> n, raw |-> w, value |-> v]
                    PROVE  r.tag = g /\ r.next = n /\ r.raw = w /\ r.value = v
BY SMT

LEMMA FieldNone == ASSUME NEW r, NEW g, r = [tag |-> g, next |-> 0] PROVE r.next = 0
BY SMT

\* Where the loop starts, and where a turn takes it.
LEMMA StartReached ==
  ASSUME NEW c \in Classes, NEW b, NEW its, NEW e, Offsets(b, its, e), Len(its) \in Nat,
         NEW n \in Nat
  PROVE  Reached(c, b, its, e, n, 0, Start(c))
<1> DEFINE s == Start(c)
<1>1. s.at = 1 /\ s.ok = TRUE /\ s.msg = New(c) /\ "ok" \in DOMAIN s
  BY StateParts, Zenon DEF Start
<1> HIDE DEF s
<1>2. e[0] = 0
  BY Zenon DEF Offsets
<1>3. 0 \in 0..Len(its) /\ 1 = 0 + 1 /\ 0 <= n /\ 1..0 = {}
  BY SMT
<1>4. At(c, its, 0, s.msg)
  BY <1>1, AtStart, Zenon
<1>5. Reached(c, b, its, e, n, 0, s)
  BY <1>1, <1>2, <1>3, <1>4, Zenon DEF Reached
<1> QED
  BY <1>5, Zenon DEF s

LEMMA StepReached ==
  ASSUME NEW c \in Classes, NEW b, NEW its, NEW e, Offsets(b, its, e), b \in Seq(Byte),
         its \in Seq(Items),
         NEW n \in 0..Len(b), NEW k \in Nat, NEW s, Reached(c, b, its, e, n, k, s)
  PROVE  Reached(c, b, its, e, n, k + 1, Step(c, SubSeq(b, 1, n), s))
<1> DEFINE pre == SubSeq(b, 1, n)
           N == Len(its)
           f == Field(pre, s.at)
           z == Step(c, pre, s)
<1>1. /\ pre \in Seq(Byte) /\ Len(pre) = n /\ \A q \in 1..n : pre[q] = b[q]
      /\ N \in Nat /\ n \in Nat /\ Len(b) \in Nat
  BY Beginning, LenProperties, SMT
<1>2. /\ ~s.ok \/ s.at > Len(pre) => z = s
      /\ s.ok /\ ~(s.at > Len(pre)) /\ f.next = 0 => z = [s EXCEPT !.ok = FALSE]
      /\ s.ok /\ ~(s.at > Len(pre)) /\ f.next # 0
           => z = [at |-> f.next, ok |-> Turn(c, s.msg, f).ok, msg |-> Turn(c, s.msg, f).msg]
  BY Zenon DEF Step
<1>3. "ok" \in DOMAIN s
  BY Zenon DEF Reached
<1> HIDE DEF pre, z
<1>4. CASE ~s.ok
  <2>1. z = s
    BY <1>2, <1>4, Zenon
  <2>2. Reached(c, b, its, e, n, k + 1, s)
    BY <1>4, Zenon DEF Reached
  <2> QED
    BY <2>1, <2>2, Zenon DEF z, pre
<1>5. CASE s.ok
  <2>1. PICK j \in 0..N : /\ s.at = e[j] + 1 /\ e[j] <= n /\ (j = k \/ e[j] = n)
                          /\ At(c, its, j, s.msg)
                          /\ \A i \in 1..j : Fine(c, its[i])
    BY <1>5, Zenon DEF Reached
  <2> DEFINE a == e[j]
  <2>2. a \in Nat /\ j \in Nat
    <3>1. e \in [0..N -> Nat]
      BY Zenon DEF Offsets
    <3>2. a \in Nat
      BY <3>1, Zenon
    <3> QED
      BY <1>1, <3>2, SMT
  <2>3. CASE s.at > Len(pre)
    <3>1. z = s
      BY <1>2, <2>3, Zenon
    <3>2. s.at = a + 1 /\ a <= n
      BY <2>1, Zenon
    <3> HIDE DEF a
    <3>3. a = n
      BY <1>1, <2>2, <2>3, <3>2, SMT
    <3>4. Reached(c, b, its, e, n, k + 1, s)
      BY <1>3, <1>5, <2>1, <3>3, Zenon DEF Reached, a
    <3> QED
      BY <3>1, <3>4, Zenon DEF z, pre
  <2>4. CASE ~(s.at > Len(pre))
    <3> DEFINE t == its[j+1]
               h == Len(t.raw)
               d == e[j+1]
    <3>1. a < n
      <4>1. s.at = a + 1 /\ a <= n
        BY <2>1, Zenon
      <4> HIDE DEF a
      <4> QED
        BY <1>1, <2>2, <2>4, <4>1, SMT
    <3>2. j = k
      <4>1. j = k \/ a = n
        BY <2>1, Zenon
      <4> HIDE DEF a
      <4> QED
        BY <1>1, <2>2, <3>1, <4>1, SMT
    <3>3. j # N
      <4>1. e[N] = Len(b)
        BY Zenon DEF Offsets
      <4>2. j = N => a = Len(b)
        BY <4>1, Zenon
      <4> HIDE DEF a
      <4> QED
        BY <1>1, <2>2, <3>1, <4>2, SMT
    <3>4. j + 1 \in 1..N /\ j + 1 \in 0..N /\ (j + 1) - 1 = j /\ j + 1 = k + 1
      BY <1>1, <2>2, <3>2, <3>3, SMT
    <3>5. t \in Items /\ t.raw \in Seq(Byte) /\ h \in Nat /\ h > 0
      <4>1. t \in Items
        BY <3>4, ElementOfSeq, Zenon
      <4> QED
        BY <4>1, RawIsBytes, Zenon
    <3>6. d = a + h /\ d <= Len(b) /\ \A i \in 1..h : b[a + i] = t.raw[i]
      BY <3>4, Zenon DEF Offsets
    <3>7. s.at = a + 1
      BY <2>1, Zenon
    <3>8. Begins(pre, s.at, t.raw)
      <4> SUFFICES ASSUME NEW i \in 1..h, s.at + i - 1 <= Len(pre)
                   PROVE  pre[s.at + i - 1] = t.raw[i]
        BY Zenon DEF Begins
      <4> HIDE DEF a, h
      <4>1. s.at + i - 1 = a + i /\ a + i \in 1..n
        BY <1>1, <2>2, <3>5, <3>7, SMT
      <4>2. pre[a + i] = b[a + i]
        BY <1>1, <4>1, Zenon
      <4>3. pre[a + i] = t.raw[i]
        BY <3>6, <4>2, Zenon
      <4> QED
        BY <4>1, <4>3, Zenon
    <3>9. s.at \in 1..Len(pre)
      <4> HIDE DEF a
      <4> QED
        BY <1>1, <2>2, <3>1, <3>7, SMT
    <3>10. f = FieldOf(t, pre, s.at)
      BY <1>1, <3>5, <3>8, <3>9, FieldOfItem, Zenon
    <3>11. /\ s.at + h - 1 = d /\ s.at + h = d + 1 /\ d + 1 # 0 /\ d \in Nat
      <4> HIDE DEF a, h, d
      <4> QED
        BY <1>1, <2>2, <3>5, <3>6, <3>7, SMT
    <3>12. CASE d <= n
      <4>1. f = [tag |-> t.tag, next |-> d + 1, raw |-> t.raw, value |-> t.value]
        BY <1>1, <3>10, <3>11, <3>12, Zenon DEF FieldOf
      <4> HIDE DEF f, t, d
      <4>2. f.tag = t.tag /\ f.next = d + 1 /\ f.raw = t.raw /\ f.value = t.value
        BY <4>1, FieldParts, Zenon
      <4>3. Turn(c, s.msg, f) = Turn(c, s.msg, t)
        BY <4>2, ClassAlike, Zenon
      <4>4. f.next # 0
        BY <3>11, <4>2, Zenon
      <4>5. z = [at |-> d + 1, ok |-> Turn(c, s.msg, t).ok, msg |-> Turn(c, s.msg, t).msg]
        <5>1. z = [at |-> f.next, ok |-> Turn(c, s.msg, f).ok, msg |-> Turn(c, s.msg, f).msg]
          BY <1>2, <1>5, <2>4, <4>4, Zenon
        <5> QED
          BY <4>2, <4>3, <5>1, Zenon
      <4>6. z.at = d + 1 /\ z.ok = Turn(c, s.msg, t).ok /\ z.msg = Turn(c, s.msg, t).msg
            /\ "ok" \in DOMAIN z
        BY <4>5, StateOfTurn, Zenon
      <4>7. s.msg \in Typed(c)
        BY <2>1, Zenon DEF At
      <4>8. Turn(c, s.msg, t).ok <=> Fine(c, t)
        BY <3>5, <4>7, ClassTurn, Zenon DEF TurnIs
      <4>9. z.ok <=> Fine(c, t)
        BY <4>6, <4>8, Zenon
      <4>10. At(c, its, j + 1, z.msg)
        <5>1. At(c, its, j + 1, Turn(c, s.msg, t).msg)
          BY <2>1, <2>2, <3>5, AtNext, Zenon DEF t
        <5> QED
          BY <4>6, <5>1, Zenon
      <4>11. \A i \in 1..j+1 : i \in 1..j \/ i = j + 1
        BY <2>2, SMT
      <4>12. ASSUME z.ok
             PROVE  /\ z.at = e[j+1] + 1 /\ e[j+1] <= n /\ j + 1 = k + 1
                    /\ At(c, its, j + 1, z.msg)
                    /\ \A i \in 1..j+1 : Fine(c, its[i])
        <5>1. Fine(c, its[j+1])
          BY <4>9, <4>12, Zenon DEF t
        <5>2. \A i \in 1..j+1 : Fine(c, its[i])
          BY <2>1, <4>11, <5>1, Zenon
        <5> QED
          BY <3>4, <3>12, <4>6, <4>10, <5>2, Zenon DEF d
      <4>13. ASSUME ~z.ok PROVE \E i \in 1..N : ~Fine(c, its[i])
        BY <3>4, <4>9, <4>13, Zenon DEF t
      <4>14. Reached(c, b, its, e, n, k + 1, z)
        BY <3>4, <4>6, <4>12, <4>13, Zenon DEF Reached
      <4> QED
        BY <4>14, Zenon DEF z, pre
    <3>13. CASE ~(d <= n)
      <4>1. f = [tag |-> t.tag, next |-> 0]
        BY <1>1, <3>10, <3>11, <3>13, Zenon DEF FieldOf
      <4> HIDE DEF f
      <4>2. f.next = 0
        BY <4>1, FieldNone, Zenon
      <4>3. z = [s EXCEPT !.ok = FALSE]
        BY <1>2, <1>5, <2>4, <4>2, Zenon
      <4>4. z.ok = FALSE /\ "ok" \in DOMAIN z
        BY <1>3, <4>3, StateFailed, Zenon
      <4>5. n < Len(b)
        <5> HIDE DEF d
        <5> QED
          BY <1>1, <3>6, <3>11, <3>13, SMT
      <4>6. Reached(c, b, its, e, n, k + 1, z)
        BY <4>4, <4>5, Zenon DEF Reached
      <4> QED
        BY <4>6, Zenon DEF z, pre
    <3> QED
      BY <3>12, <3>13, Zenon
  <2> QED
    BY <2>3, <2>4, Zenon
<1> QED
  BY <1>4, <1>5, Zenon

\* The loop has read whole fields: all that arrived whole, or up to one it refuses.
LEMMA ParseOf ==
  ASSUME NEW c \in Classes, NEW b, NEW its, Laid(b, its), NEW n \in 0..Len(b), Fields \in Nat,
         Len(its) <= Fields,
         NEW r, r = Parse(c, SubSeq(b, 1, n))
  PROVE  /\ r.ok => \E j \in 0..Len(its) : /\ At(c, its, j, r.msg) /\ (n = Len(b) => j = Len(its))
                                           /\ \A i \in 1..j : Fine(c, its[i])
         /\ n = Len(b) /\ (\A i \in 1..Len(its) : Fine(c, its[i])) => r.ok
<1> DEFINE pre == SubSeq(b, 1, n)
<1>1. b \in Seq(Byte) /\ its \in Seq(Items)
  BY Zenon DEF Laid
<1>2. PICK e : Offsets(b, its, e)
  BY Zenon DEF Laid
<1>3. PICK run : Run(c, pre, Fields, run) /\ Parse(c, pre) = run[Fields]
  BY ParseIsRun, Zenon
<1>4. Len(its) \in Nat /\ Len(b) \in Nat /\ n \in Nat
  BY <1>1, LenProperties, SMT
<1>5. \A k \in 0..Fields : run[k] = IF k = 0 THEN Start(c) ELSE Step(c, pre, run[k-1])
  BY <1>3, Zenon DEF Run
<1> HIDE DEF pre
<1> DEFINE T == {k \in Nat : k <= Fields => Reached(c, b, its, e, n, k, run[k])}
<1>6. 0 \in T
  <2>1. 0 \in Nat /\ 0 \in 0..Fields
    BY SMT
  <2>2. run[0] = Start(c)
    BY <1>5, <2>1, Zenon
  <2>3. Reached(c, b, its, e, n, 0, Start(c))
    BY <1>2, <1>4, StartReached, Zenon
  <2> QED
    BY <2>1, <2>2, <2>3, Zenon
<1>7. ASSUME NEW k \in T PROVE k + 1 \in T
  <2>1. k \in Nat /\ (k <= Fields => Reached(c, b, its, e, n, k, run[k]))
    BY Zenon
  <2>2. k + 1 \in Nat
    BY <2>1, SMT
  <2> SUFFICES ASSUME k + 1 <= Fields PROVE Reached(c, b, its, e, n, k + 1, run[k+1])
    BY <2>2, Zenon
  <2>3. k <= Fields /\ k + 1 \in 0..Fields /\ k + 1 # 0 /\ (k + 1) - 1 = k
    BY <2>1, SMT
  <2>4. run[k+1] = Step(c, pre, run[k])
    BY <1>5, <2>3, Zenon
  <2>5. Reached(c, b, its, e, n, k + 1, Step(c, pre, run[k]))
    BY <1>1, <1>2, <2>1, <2>3, StepReached, Zenon DEF pre
  <2> QED
    BY <2>4, <2>5, Zenon
<1>8. Reached(c, b, its, e, n, Fields, r)
  <2>1. T = Nat
    <3> HIDE DEF T
    <3>1. T \subseteq Nat
      BY Zenon DEF T
    <3> QED
      BY <1>6, <1>7, <3>1, Induction, Zenon
  <2>2. Fields <= Fields
    BY SMT
  <2>3. Reached(c, b, its, e, n, Fields, run[Fields])
    BY <2>1, <2>2, Zenon
  <2>4. r = run[Fields]
    BY <1>3, Zenon DEF pre
  <2> QED
    BY <2>3, <2>4, Zenon
<1>9. ASSUME r.ok
      PROVE  \E j \in 0..Len(its) : /\ At(c, its, j, r.msg) /\ (n = Len(b) => j = Len(its))
                                    /\ \A i \in 1..j : Fine(c, its[i])
  <2>1. PICK j \in 0..Len(its) : /\ e[j] <= n /\ (j = Fields \/ e[j] = n)
                                 /\ At(c, its, j, r.msg)
                                 /\ \A i \in 1..j : Fine(c, its[i])
    BY <1>8, <1>9, Zenon DEF Reached
  <2>2. ASSUME n = Len(b), j # Len(its) PROVE FALSE
    <3> DEFINE N == Len(its)
               a == e[j]
               d == e[j+1]
               h == Len(its[j+1].raw)
    <3>1. j + 1 \in 1..N /\ (j + 1) - 1 = j /\ j # Fields /\ j \in 0..N
      <4> HIDE DEF N
      <4>1. N \in Nat /\ N <= Fields /\ j \in 0..N /\ j # N
        BY <1>4, <2>1, <2>2, Zenon DEF N
      <4> QED
        BY <4>1, SMT
    <3>2. d = a + h /\ d <= Len(b)
      BY <1>2, <3>1, Zenon DEF Offsets
    <3>3. a = n
      BY <2>1, <3>1, Zenon
    <3>4. h \in Nat /\ h > 0
      <4>1. its[j+1] \in Items
        BY <1>1, <3>1, ElementOfSeq, Zenon
      <4> QED
        BY <4>1, RawIsBytes, Zenon
    <3> HIDE DEF a, d, h
    <3> QED
      BY <1>4, <2>2, <3>2, <3>3, <3>4, SMT
  <2> QED
    BY <2>1, <2>2, Zenon
<1>10. ASSUME n = Len(b), \A i \in 1..Len(its) : Fine(c, its[i]), ~r.ok PROVE FALSE
  <2>1. ~(n < Len(b))
    BY <1>4, <1>10, SMT
  <2> QED
    BY <1>8, <1>10, <2>1, Zenon DEF Reached
<1> QED
  BY <1>9, <1>10, Zenon

-----------------------------------------------------------------------------
(* The stream and the messages in it.                                       *)

LEMMA CountIsSmall == ASSUME NEW c \in Classes, NEW m PROVE Count(c, m) <= 3
<1> DEFINE f(T) == Flag(T, Get(c, m, T))
<1>1. f(8) \in {0, 1} /\ f(10) \in {0, 1} /\ f(16) \in {0, 1} /\ f(18) \in {0, 1}
      /\ f(29) \in {0, 1}
  BY Flags, Zenon
<1>2. \A T : T \notin Own(c) => f(T) = 0
  BY NotOwn, Flags, Zenon
<1>3. (10 \notin Own(c) /\ 16 \notin Own(c)) \/ (8 \notin Own(c) /\ 18 \notin Own(c))
  BY SMT DEF Own
<1>4. Count(c, m) = f(8) + f(10) + f(16) + f(18) + f(29)
  BY Zenon DEF Count
<1>5. (f(10) = 0 /\ f(16) = 0) \/ (f(8) = 0 /\ f(18) = 0)
  BY <1>2, <1>3, Zenon
<1> HIDE DEF f
<1> QED
  BY <1>1, <1>4, <1>5, SMT

\* The first n messages of s, merged one after the other.
Merges(c, s, n, all) == all = [i \in 0..n |-> IF i = 0 THEN New(c) ELSE MergeFrom(c, all[i-1], s[i])]

LEMMA MergesOfNone == ASSUME NEW c, NEW s
                      PROVE  /\ \E all : Merges(c, s, 0, all)
                             /\ \A all : Merges(c, s, 0, all) => all[0] = New(c)
<1> DEFINE f == [i \in 0..0 |-> New(c)]
<1>1. f = [i \in 0..0 |-> IF i = 0 THEN New(c) ELSE MergeFrom(c, f[i-1], s[i])]
  OBVIOUS
<1>2. Merges(c, s, 0, f)
  BY <1>1, Zenon DEF Merges
<1>3. 0 \in 0..0
  BY SMT
<1> QED
  BY <1>2, <1>3, Zenon DEF Merges

LEMMA MergesNext ==
  ASSUME NEW c, NEW s, NEW r, NEW n \in Nat, \A i \in 1..n : r[i] = s[i]
  PROVE  /\ (\E all : Merges(c, s, n, all)) => \E all : Merges(c, r, n + 1, all)
         /\ \A all : Merges(c, r, n + 1, all) =>
              \E old : Merges(c, s, n, old) /\ all[n+1] = MergeFrom(c, old[n], r[n+1])
<1>1. ASSUME NEW all, Merges(c, s, n, all) PROVE \E new : Merges(c, r, n + 1, new)
  <2> DEFINE h(i) == IF i = 0 THEN New(c) ELSE MergeFrom(c, all[i-1], r[i])
             g == [i \in 0..n+1 |-> h(i)]
  <2>1. \A i \in 0..n : all[i] = IF i = 0 THEN New(c) ELSE MergeFrom(c, all[i-1], s[i])
    BY <1>1, Zenon DEF Merges
  <2>2. ASSUME NEW i \in 0..n PROVE all[i] = h(i)
    <3>1. CASE i = 0
      BY <2>1, <3>1, Zenon
    <3>2. CASE i # 0
      <4>1. i \in 1..n
        BY <3>2, SMT
      <4>2. r[i] = s[i]
        BY <4>1, Zenon
      <4>3. all[i] = MergeFrom(c, all[i-1], s[i])
        BY <2>1, <3>2, Zenon
      <4> QED
        BY <3>2, <4>2, <4>3, Zenon
    <3> QED
      BY <3>1, <3>2, Zenon
  <2>3. \A i \in 0..n+1 : g[i] = h(i)
    BY Zenon
  <2>4. ASSUME NEW i \in 0..n+1 PROVE h(i) = IF i = 0 THEN New(c) ELSE MergeFrom(c, g[i-1], r[i])
    <3>1. CASE i = 0
      BY <3>1, Zenon
    <3>2. CASE i # 0
      <4>1. i - 1 \in 0..n /\ i - 1 \in 0..n+1
        BY <3>2, SMT
      <4>2. g[i-1] = all[i-1]
        BY <2>2, <2>3, <4>1, Zenon
      <4> QED
        BY <3>2, <4>2, Zenon
    <3> QED
      BY <3>1, <3>2, Zenon
  <2>5. g = [i \in 0..n+1 |-> IF i = 0 THEN New(c) ELSE MergeFrom(c, g[i-1], r[i])]
    BY <2>4, Zenon
  <2> HIDE DEF g
  <2>6. Merges(c, r, n + 1, g)
    BY <2>5, Zenon DEF Merges
  <2> QED
    BY <2>6, Zenon
<1>2. ASSUME NEW all, Merges(c, r, n + 1, all)
      PROVE  \E old : Merges(c, s, n, old) /\ all[n+1] = MergeFrom(c, old[n], r[n+1])
  <2> DEFINE old == [i \in 0..n |-> all[i]]
  <2>1. \A i \in 0..n+1 : all[i] = IF i = 0 THEN New(c) ELSE MergeFrom(c, all[i-1], r[i])
    BY <1>2, Zenon DEF Merges
  <2>2. \A i \in 0..n : old[i] = all[i]
    BY Zenon
  <2>3. ASSUME NEW i \in 0..n PROVE all[i] = IF i = 0 THEN New(c) ELSE MergeFrom(c, old[i-1], s[i])
    <3>1. i \in 0..n+1
      BY SMT
    <3>2. CASE i = 0
      BY <2>1, <3>1, <3>2, Zenon
    <3>3. CASE i # 0
      <4>1. i \in 1..n /\ i - 1 \in 0..n
        BY <3>3, SMT
      <4>2. r[i] = s[i] /\ old[i-1] = all[i-1]
        BY <2>2, <4>1, Zenon
      <4>3. all[i] = MergeFrom(c, all[i-1], r[i])
        BY <2>1, <3>1, <3>3, Zenon
      <4>4. all[i] = MergeFrom(c, old[i-1], s[i])
        BY <4>2, <4>3, Zenon
      <4> QED
        BY <3>3, <4>4, Zenon
    <3> QED
      BY <3>2, <3>3, Zenon
  <2>4. old = [i \in 0..n |-> IF i = 0 THEN New(c) ELSE MergeFrom(c, old[i-1], s[i])]
    BY <2>3, Zenon
  <2>5. n \in 0..n /\ n + 1 \in 0..n+1 /\ n + 1 # 0 /\ (n + 1) - 1 = n
    BY SMT
  <2>6. all[n+1] = MergeFrom(c, old[n], r[n+1])
    BY <2>1, <2>2, <2>5, Zenon
  <2> HIDE DEF old
  <2>7. Merges(c, s, n, old)
    BY <2>4, Zenon DEF Merges
  <2> QED
    BY <2>6, <2>7, Zenon
<1> QED
  BY <1>1, <1>2, Zenon

\* The messages of a class that no parse has made.
Plain(c) == {m \in Typed(c) : m.unknown = <<>>}

\* Each item is a field of one of the messages.
From(c, s, its) ==
  /\ \A i \in 1..Len(its) : /\ its[i].tag \in Own(c)
                            /\ \E w \in 1..Len(s) : its[i].value = Get(c, s[w], its[i].tag)
  /\ \A w \in 1..Len(s) : \A T \in Own(c) :
       Get(c, s[w], T) = Default(T)
         \/ \E i \in 1..Len(its) : its[i].tag = T /\ its[i].value = Get(c, s[w], T)

\* The stream b of the messages s, field by field.
Stream(c, b, s, its) ==
  /\ Laid(b, its) /\ Len(its) <= 3 * Len(s)
  /\ From(c, s, its)
  /\ \E all : Merges(c, s, Len(s), all)
  /\ \A all : Merges(c, s, Len(s), all) =>
       all[Len(s)] \in Plain(c) /\ \A T \in Own(c) : Last(its, Len(its), T, Get(c, all[Len(s)], T))

\* The empty stream, and one with another message written behind.
LEMMA StreamStarts == ASSUME NEW c \in Classes PROVE Stream(c, <<>>, <<>>, <<>>)
<1>1. Len(<<>>) = 0 /\ 1..0 = {} /\ 0 <= 3 * 0
  BY SMT
<1>2. New(c) \in Plain(c) /\ \A T \in Tags : Get(c, New(c), T) = Default(T)
  BY ClassNew, Zenon DEF NewIs, Plain
<1>3. \A T \in Own(c) : Last(<<>>, 0, T, Get(c, New(c), T))
  BY <1>2, OwnTags, LastOfNone, Zenon
<1>4. From(c, <<>>, <<>>)
  BY <1>1, Zenon DEF From
<1> QED
  BY <1>1, <1>2, <1>3, <1>4, LaidEmpty, MergesOfNone, Zenon DEF Stream

LEMMA Added == ASSUME NEW M, NEW s \in Seq(M), NEW x1 \in M
               PROVE  /\ Len(Append(s, x1)) = Len(s) + 1 /\ Len(s) \in Nat
                         /\ Append(s, x1)[Len(s) + 1] = x1
                      /\ \A w \in 1..Len(s) : Append(s, x1)[w] = s[w]
BY SMT

LEMMA FromGrows ==
  ASSUME NEW c \in Classes, NEW M, NEW s \in Seq(M), NEW its \in Seq(Items), From(c, s, its),
         NEW x1 \in Typed(c), x1 \in M
  PROVE  From(c, Append(s, x1), its \o Content(c, x1))
<1> DEFINE r == Append(s, x1)
           o == Content(c, x1)
           new == its \o o
<1>1. /\ Len(r) = Len(s) + 1 /\ Len(s) \in Nat /\ r[Len(s) + 1] = x1
      /\ \A w \in 1..Len(s) : r[w] = s[w]
  BY Added
<1>2. /\ o \in Seq(ItemsIn(c, x1)) /\ o \in Seq(Items)
      /\ \A T \in Tags : Last(o, Len(o), T, Get(c, x1, T))
  BY ContentOf, Zenon
<1> HIDE DEF r, o
<1>3. /\ Len(new) = Len(its) + Len(o) /\ Len(its) \in Nat /\ Len(o) \in Nat
      /\ \A i \in 1..Len(its) : new[i] = its[i]
      /\ \A i \in 1..Len(o) : new[Len(its) + i] = o[i]
  BY <1>2, JoinedItems, Zenon
<1> HIDE DEF new
<1>4. \A w \in 1..Len(s) : w \in 1..Len(r)
  BY <1>1, SMT
<1>5. Len(s) + 1 \in 1..Len(r) /\ \A w \in 1..Len(r) : w \in 1..Len(s) \/ w = Len(s) + 1
  BY <1>1, SMT
<1>6. \A i \in 1..Len(its) : i \in 1..Len(new)
  BY <1>3, SMT
<1>7. \A i \in 1..Len(o) : Len(its) + i \in 1..Len(new)
  BY <1>3, SMT
<1>8. ASSUME NEW i \in 1..Len(new) PROVE i \in 1..Len(its) \/ \E k \in 1..Len(o) : i = Len(its) + k
  <2> SUFFICES ASSUME i \notin 1..Len(its) PROVE \E k \in 1..Len(o) : i = Len(its) + k
    OBVIOUS
  <2>1. i - Len(its) \in 1..Len(o) /\ i = Len(its) + (i - Len(its))
    BY <1>3, SMT
  <2> QED
    BY <2>1, Zenon
<1>9. ASSUME NEW i \in 1..Len(new)
      PROVE  new[i].tag \in Own(c) /\ \E w \in 1..Len(r) : new[i].value = Get(c, r[w], new[i].tag)
  <2>1. CASE i \in 1..Len(its)
    <3>1. its[i].tag \in Own(c)
      BY <2>1, Zenon DEF From
    <3>2. PICK w \in 1..Len(s) : its[i].value = Get(c, s[w], its[i].tag)
      BY <2>1, Zenon DEF From
    <3>3. w \in 1..Len(r) /\ r[w] = s[w] /\ new[i] = its[i]
      BY <1>1, <1>3, <1>4, <2>1, Zenon
    <3> QED
      BY <3>1, <3>2, <3>3, Zenon
  <2>2. CASE \E k \in 1..Len(o) : i = Len(its) + k
    <3>1. PICK k \in 1..Len(o) : i = Len(its) + k
      BY <2>2, Zenon
    <3>2. new[i] = o[k]
      BY <1>3, <3>1, Zenon
    <3>3. o[k] \in ItemsIn(c, x1)
      BY <1>2, ElementOfSeq, Zenon
    <3>4. o[k].tag \in Own(c) /\ o[k].value = Get(c, x1, o[k].tag)
      BY <3>3, Zenon DEF ItemsIn
    <3>5. o[k].value = Get(c, r[Len(s) + 1], o[k].tag)
      BY <1>1, <3>4, Zenon
    <3> QED
      BY <1>5, <3>2, <3>4, <3>5, Zenon
  <2> QED
    BY <1>8, <2>1, <2>2, Zenon
<1>10. ASSUME NEW w \in 1..Len(r), NEW T \in Own(c), Get(c, r[w], T) # Default(T)
       PROVE  \E i \in 1..Len(new) : new[i].tag = T /\ new[i].value = Get(c, r[w], T)
  <2>1. CASE w \in 1..Len(s)
    <3>1. r[w] = s[w]
      BY <1>1, <2>1, Zenon
    <3>2. Get(c, s[w], T) # Default(T)
      BY <1>10, <3>1, Zenon
    <3>3. PICK i \in 1..Len(its) : its[i].tag = T /\ its[i].value = Get(c, s[w], T)
      BY <2>1, <3>2, Zenon DEF From
    <3>4. i \in 1..Len(new) /\ new[i] = its[i]
      BY <1>3, <1>6, Zenon
    <3> QED
      BY <3>1, <3>3, <3>4, Zenon
  <2>2. CASE w = Len(s) + 1
    <3>1. r[w] = x1
      BY <1>1, <2>2, Zenon
    <3>2. T \in Tags
      BY OwnTags, Zenon
    <3>3. Get(c, x1, T) # Default(T)
      BY <1>10, <3>1, Zenon
    <3>4. Last(o, Len(o), T, Get(c, x1, T))
      BY <1>2, <3>2, Zenon
    <3>5. PICK i \in 1..Len(o) : o[i].tag = T /\ o[i].value = Get(c, x1, T)
      <4> DEFINE v == Get(c, x1, T)
      <4>1. v # Default(T) /\ Last(o, Len(o), T, v)
        BY <3>3, <3>4, Zenon
      <4> HIDE DEF v
      <4>2. \E i \in 1..Len(o) : o[i].tag = T /\ o[i].value = v
        BY <4>1, LastIsThere
      <4> QED
        BY <4>2, Zenon DEF v
    <3>6. Len(its) + i \in 1..Len(new) /\ new[Len(its) + i] = o[i]
      BY <1>3, <1>7, Zenon
    <3> QED
      BY <3>1, <3>5, <3>6, Zenon
  <2> QED
    BY <1>5, <2>1, <2>2, Zenon
<1>11. From(c, r, new)
  BY <1>9, <1>10, Zenon DEF From
<1> QED
  BY <1>11, Zenon DEF r, o, new

LEMMA StreamGrows ==
  ASSUME NEW c \in Classes, NEW b, NEW s \in Seq(Plain(c)), NEW its, Stream(c, b, s, its),
         NEW x1 \in Plain(c)
  PROVE  Stream(c, b \o Serialize(c, x1), Append(s, x1), its \o Content(c, x1))
<1> DEFINE r == Append(s, x1)
           o == Content(c, x1)
           new == its \o o
           n == Len(s)
<1>1. x1 \in Typed(c) /\ x1.unknown = <<>>
  BY Zenon DEF Plain
<1>2. Laid(b, its) /\ its \in Seq(Items) /\ Len(its) <= 3 * n /\ From(c, s, its)
  BY Zenon DEF Stream, Laid
<1>3. /\ o \in Seq(Items) /\ Laid(Parts(c, x1), o) /\ Len(o) = Count(c, x1)
      /\ \A T \in Tags : Last(o, Len(o), T, Get(c, x1, T))
  BY <1>1, ContentOf, Zenon
<1>4. Serialize(c, x1) = Parts(c, x1)
  <2>1. Serialize(c, x1) = Parts(c, x1) \o x1.unknown
    BY <1>1, ClassWrite, Zenon DEF WriteIs
  <2>2. Parts(c, x1) \in Seq(Byte)
    BY <1>3, Zenon DEF Laid
  <2>3. Parts(c, x1) \o <<>> = Parts(c, x1)
    BY <2>2, NothingJoined, Zenon
  <2> QED
    BY <1>1, <2>1, <2>3, Zenon
<1>5. Laid(b \o Serialize(c, x1), new)
  <2>1. Laid(Serialize(c, x1), o)
    BY <1>3, <1>4, Zenon
  <2> QED
    BY <1>2, <2>1, LaidJoined, Zenon
<1>6. From(c, r, new)
  BY <1>1, <1>2, FromGrows, Zenon
<1>7. /\ Len(r) = n + 1 /\ n \in Nat /\ r[n+1] = x1 /\ \A w \in 1..n : r[w] = s[w]
  <2>1. \A t \in Seq(Plain(c)) : /\ Len(Append(t, x1)) = Len(t) + 1 /\ Len(t) \in Nat
                                 /\ Append(t, x1)[Len(t) + 1] = x1
                                 /\ \A w \in 1..Len(t) : Append(t, x1)[w] = t[w]
    BY Added
  <2> QED
    BY <2>1, Zenon
<1> HIDE DEF r, o
<1>8. Len(new) = Len(its) + Len(o) /\ Len(its) \in Nat /\ Len(o) \in Nat
  BY <1>2, <1>3, JoinedItems, Zenon
<1>9. Len(new) <= 3 * Len(r)
  <2>1. Len(o) <= 3
    BY <1>1, <1>3, CountIsSmall, Zenon
  <2> HIDE DEF new, n
  <2> QED
    BY <1>2, <1>7, <1>8, <2>1, SMT
<1>10. \E all : Merges(c, r, n + 1, all)
  <2>1. \E all : Merges(c, s, n, all)
    BY Zenon DEF Stream
  <2> QED
    BY <1>7, <2>1, MergesNext, Zenon
<1>11. ASSUME NEW all, Merges(c, r, n + 1, all)
       PROVE  all[n+1] \in Plain(c) /\ \A T \in Own(c) : Last(new, Len(new), T, Get(c, all[n+1], T))
  <2>1. PICK old : Merges(c, s, n, old) /\ all[n+1] = MergeFrom(c, old[n], r[n+1])
    <3>1. n \in Nat /\ \A w \in 1..n : r[w] = s[w]
      BY <1>7, Zenon
    <3> HIDE DEF n
    <3>2. \A a : Merges(c, r, n + 1, a) => \E old : Merges(c, s, n, old) /\ a[n+1]
                   = MergeFrom(c, old[n], r[n+1])
      BY <3>1, MergesNext
    <3> QED
      BY <1>11, <3>2, Zenon
  <2> DEFINE m == old[n]
             q == all[n+1]
  <2>2. m \in Plain(c) /\ \A T \in Own(c) : Last(its, Len(its), T, Get(c, m, T))
    BY <2>1, Zenon DEF Stream
  <2>3. m \in Typed(c) /\ m.unknown = <<>>
    BY <2>2, Zenon DEF Plain
  <2>4. q = MergeFrom(c, m, x1)
    BY <1>7, <2>1, Zenon
  <2> HIDE DEF m, q
  <2>5. /\ q \in Typed(c) /\ q.unknown = m.unknown \o x1.unknown
        /\ \A T \in Tags : Get(c, q, T) = Or(Get(c, x1, T), Default(T), Get(c, m, T))
    BY <1>1, <2>3, <2>4, ClassMerge, Zenon DEF MergeIs
  <2>6. q.unknown = <<>>
    <3>1. <<>> \o <<>> = <<>>
      BY StartTypes, NothingJoined, Zenon
    <3> QED
      BY <1>1, <2>3, <2>5, <3>1, Zenon
  <2>7. ASSUME NEW T \in Own(c) PROVE Last(new, Len(new), T, Get(c, q, T))
    <3>1. T \in Tags
      BY OwnTags, Zenon
    <3>2. Last(its, Len(its), T, Get(c, m, T)) /\ Last(o, Len(o), T, Get(c, x1, T))
      BY <1>3, <2>2, <3>1, Zenon
    <3>3. Last(new, Len(new), T, Or(Get(c, x1, T), Default(T), Get(c, m, T)))
      BY <1>2, <1>3, <3>2, LastJoined, Zenon
    <3> QED
      BY <2>5, <3>1, <3>3, Zenon
  <2>8. q \in Plain(c)
    BY <2>5, <2>6, Zenon DEF Plain
  <2> QED
    BY <2>7, <2>8, Zenon DEF q
<1> HIDE DEF new
<1>12. Stream(c, b \o Serialize(c, x1), r, new)
  BY <1>5, <1>6, <1>7, <1>9, <1>10, <1>11, Zenon DEF Stream
<1> QED
  BY <1>12, Zenon DEF r, new, o

-----------------------------------------------------------------------------
(* The names of the fields.                                                 *)

Names(c) == IF c = "MsgData" THEN {"id", "data"}
            ELSE IF c = "Client" THEN {"id", "dara"}
            ELSE IF c = "Book" THEN {"name", "pages", "price"}
            ELSE {"message"}

LEMMA FieldsAre == ASSUME NEW c \in Classes, NEW m \in Typed(c) PROVE FieldsOf(m) = Names(c)
<1>1. CASE c = "MsgData"
  <2>1. m \in [id : int32, data : string, unknown : Seq(Byte)]
    BY <1>1, Zenon DEF Typed
  <2>2. DOMAIN m = {"id", "data", "unknown"}
    BY <2>1, SMT
  <2> QED
    BY <1>1, <2>2, Zenon DEF FieldsOf, Names
<1>2. CASE c = "Client"
  <2>1. m \in [id : int32, dara : string, unknown : Seq(Byte)]
    BY <1>2, Zenon DEF Typed
  <2>2. DOMAIN m = {"id", "dara", "unknown"}
    BY <2>1, SMT
  <2> QED
    BY <1>2, <2>2, Zenon DEF FieldsOf, Names
<1>3. CASE c = "Book"
  <2>1. m \in [name : string, pages : int32, price : float, unknown : Seq(Byte)]
    BY <1>3, Zenon DEF Typed
  <2>2. DOMAIN m = {"name", "pages", "price", "unknown"}
    BY <2>1, SMT
  <2> QED
    BY <1>3, <2>2, Zenon DEF FieldsOf, Names
<1>4. CASE c \in {"Request", "Reply"}
  <2>1. m \in [message : string, unknown : Seq(Byte)]
    BY <1>4, Zenon DEF Typed
  <2>2. DOMAIN m = {"message", "unknown"}
    BY <2>1, SMT
  <2> QED
    BY <1>4, <2>2, Zenon DEF FieldsOf, Names
<1> QED
  BY <1>1, <1>2, <1>3, <1>4, EveryClass, Zenon

LEMMA SameNames ==
  ASSUME NEW c \in Classes, NEW d \in Classes, Names(c) = Names(d)
  PROVE  \A m, T : Get(c, m, T) = Get(d, m, T)
<1>1. c = d \/ (c \in {"Request", "Reply"} /\ d \in {"Request", "Reply"})
  <2>1. \A e \in Classes : /\ "data" \in Names(e) <=> e = "MsgData"
                           /\ "dara" \in Names(e) <=> e = "Client"
                           /\ "price" \in Names(e) <=> e = "Book"
    BY EveryClass, SMT DEF Names
  <2>2. \A e \in Classes : e # "MsgData" /\ e # "Client" /\ e # "Book" => e \in {"Request", "Reply"}
    BY EveryClass, Zenon
  <2> QED
    BY <2>1, <2>2, Zenon
<1>2. CASE c \in {"Request", "Reply"} /\ d \in {"Request", "Reply"}
  <2>1. Own(c) = {10} /\ Own(d) = {10}
    BY <1>2, Zenon DEF Own
  <2>2. 10 \notin {8, 16, 29, 18} /\ c # "Book" /\ d # "Book"
    BY <1>2, SMT
  <2> QED
    BY <2>1, <2>2, Zenon DEF Get
<1> QED
  BY <1>1, <1>2, Zenon

-----------------------------------------------------------------------------
(* What a reader makes of a stream.                                         *)

LEMMA WholeBytes == \A b \in Seq(Byte) : SubSeq(b, 1, Len(b)) = b /\ Len(b) \in 0..Len(b)
BY SMT

LEMMA NoItems == ASSUME NEW b, Laid(b, <<>>) PROVE b = <<>>
<1>1. PICK e : Offsets(b, <<>>, e)
  BY Zenon DEF Laid
<1>2. Len(<<>>) = 0
  BY SMT
<1>3. Len(b) = 0
  BY <1>1, <1>2, Zenon DEF Offsets
<1>4. b \in Seq(Byte)
  BY Zenon DEF Laid
<1> QED
  BY <1>3, <1>4, EmptySeq, SMT

LEMMA OrDefault == \A D, v : Or(D, D, v) = v /\ Or(v, D, D) = v
BY Zenon DEF Or

\* A reader of the class d has read all of the stream as y1: what it writes is read
\* by the class of the writer as the merge of the messages.
LEMMA WrittenAgain ==
  ASSUME NEW c \in Classes, NEW d \in Classes, NEW b, NEW s, NEW its, Stream(c, b, s, its),
         Fields \in Nat, Len(its) <= Fields,
         \A i \in 1..Len(its) : Fine(c, its[i]),
         NEW y1, At(d, its, Len(its), y1),
         NEW all, Merges(c, s, Len(s), all)
  PROVE  LET r == Parse(c, Serialize(d, y1)) IN r.ok /\ r.msg = all[Len(s)]
<1> DEFINE N == Len(its)
           o == Content(d, y1)
           b2 == Serialize(d, y1)
           r == Parse(c, b2)
           m == all[Len(s)]
<1>1. its \in Seq(Items) /\ N \in Nat
  BY LenProperties, Zenon DEF Stream, Laid
<1>2. \A i \in 1..N : its[i].tag \in Own(c)
  BY Zenon DEF Stream, From
<1>3. /\ m \in Typed(c) /\ m.unknown = <<>>
      /\ \A T \in Own(c) : Last(its, N, T, Get(c, m, T))
  BY Zenon DEF Stream, Plain
<1>4. y1 \in Typed(d) /\ \A T \in Own(d) : Last(its, N, T, Get(d, y1, T))
  BY Zenon DEF At
<1>5. PICK u : /\ Laid(y1.unknown, u)
               /\ \A i \in 1..Len(u) : u[i].tag \notin Own(d) /\ \E k \in 1..N : u[i] = its[k]
               /\ \A T \in Tags \ Own(d) : \A v : Last(its, N, T, v) => Last(u, Len(u), T, v)
               /\ Len(u) + Count(d, y1) <= N
  BY Zenon DEF At
<1>6. u \in Seq(Items) /\ Len(u) \in Nat
  BY <1>5, LenProperties, Zenon DEF Laid
<1>7. /\ o \in Seq(ItemsIn(d, y1)) /\ o \in Seq(Items) /\ Len(o) = Count(d, y1) /\ Len(o) \in Nat
      /\ \A T \in Tags : Last(o, Len(o), T, Get(d, y1, T))
  BY <1>4, ContentOf, CountIsNumber, Zenon
<1> DEFINE new == o \o u
<1>8. Laid(b2, new)
  BY <1>4, <1>5, SerializeLaid, Zenon
<1> HIDE DEF o, m
<1>9. /\ Len(new) = Len(o) + Len(u)
      /\ \A i \in 1..Len(o) : new[i] = o[i]
      /\ \A i \in 1..Len(u) : new[Len(o) + i] = u[i]
  BY <1>6, <1>7, JoinedItems, Zenon
<1>10. ASSUME NEW T \in Own(c) PROVE Last(new, Len(new), T, Get(c, m, T))
  <2>1. T \in Tags
    BY OwnTags, Zenon
  <2>2. Last(its, N, T, Get(c, m, T)) /\ Last(o, Len(o), T, Get(d, y1, T))
    BY <1>3, <1>7, <2>1, Zenon
  <2>3. CASE T \in Own(d)
    <3>1. Last(its, N, T, Get(d, y1, T))
      BY <1>4, <2>3, Zenon
    <3>2. Get(c, m, T) = Get(d, y1, T)
      BY <1>1, <2>2, <3>1, LastIsUnique
    <3>3. Last(u, Len(u), T, Default(T))
      BY <1>5, <2>3, LastOfAbsent, Zenon
    <3>4. Last(new, Len(new), T, Or(Default(T), Default(T), Get(d, y1, T)))
      BY <1>6, <1>7, <2>2, <3>3, LastJoined, Zenon
    <3> QED
      BY <3>2, <3>4, OrDefault, Zenon
  <2>4. CASE T \notin Own(d)
    <3>1. Last(u, Len(u), T, Get(c, m, T))
      BY <1>5, <2>1, <2>2, <2>4, Zenon
    <3>2. Last(o, Len(o), T, Default(T))
      BY <2>2, <2>4, NotOwn, Zenon
    <3>3. Last(new, Len(new), T, Or(Get(c, m, T), Default(T), Default(T)))
      BY <1>6, <1>7, <3>1, <3>2, LastJoined, Zenon
    <3> QED
      BY <3>3, OrDefault, Zenon
  <2> QED
    BY <2>3, <2>4, Zenon
<1> HIDE DEF new
<1>11. ASSUME NEW i \in 1..Len(new) PROVE i \in 1..Len(o) \/ \E k \in 1..Len(u) : i = Len(o) + k
  <2> SUFFICES ASSUME i \notin 1..Len(o) PROVE \E k \in 1..Len(u) : i = Len(o) + k
    OBVIOUS
  <2>1. i - Len(o) \in 1..Len(u) /\ i = Len(o) + (i - Len(o))
    BY <1>6, <1>7, <1>9, SMT
  <2> QED
    BY <2>1, Zenon
<1>12. ASSUME NEW i \in 1..Len(new)
       PROVE  \E k \in 1..N : new[i].tag = its[k].tag /\ new[i].value = its[k].value
  <2>1. CASE i \in 1..Len(o)
    <3>1. o[i] \in ItemsIn(d, y1) /\ new[i] = o[i]
      BY <1>7, <1>9, <2>1, ElementOfSeq, Zenon
    <3> DEFINE t == o[i]
               v == Get(d, y1, t.tag)
    <3>2. t \in Items /\ t.tag \in Own(d) /\ t.value = v
      BY <3>1, Zenon DEF ItemsIn
    <3>3. Last(its, N, t.tag, v) /\ t.value # Default(t.tag)
      BY <1>4, <3>2, IsItem, Zenon
    <3> HIDE DEF t, v
    <3>4. v # Default(t.tag)
      BY <3>2, <3>3, Zenon
    <3>5. PICK k \in 1..N : its[k].tag = t.tag /\ its[k].value = v
      BY <3>3, <3>4, LastIsThere
    <3>6. new[i] = t
      BY <3>1, Zenon DEF t
    <3>7. new[i].tag = its[k].tag /\ new[i].value = its[k].value
      BY <3>2, <3>5, <3>6, Zenon
    <3> QED
      BY <3>7, Zenon
  <2>2. CASE \E k \in 1..Len(u) : i = Len(o) + k
    <3>1. PICK k \in 1..Len(u) : i = Len(o) + k
      BY <2>2, Zenon
    <3>2. new[i] = u[k]
      BY <1>9, <3>1, Zenon
    <3>3. PICK l \in 1..N : u[k] = its[l]
      BY <1>5, Zenon
    <3> QED
      BY <3>2, <3>3, Zenon
  <2> QED
    BY <1>11, <2>1, <2>2, Zenon
<1>13. \A i \in 1..Len(new) : Fine(c, new[i]) /\ new[i].tag \in Own(c)
  BY <1>2, <1>12, Zenon DEF Fine
<1>14. Len(new) <= Fields /\ Len(new) \in Nat
  <2> HIDE DEF N
  <2>1. N <= Fields
    BY Zenon DEF N
  <2> QED
    BY <1>1, <1>5, <1>6, <1>7, <1>9, <2>1, SMT
<1>15. b2 \in Seq(Byte)
  BY <1>8, Zenon DEF Laid
<1> HIDE DEF b2
<1>16. SubSeq(b2, 1, Len(b2)) = b2 /\ Len(b2) \in 0..Len(b2)
  BY <1>15, WholeBytes, Zenon
<1>17. r = Parse(c, SubSeq(b2, 1, Len(b2)))
  BY <1>16, Zenon
<1> HIDE DEF r
<1>18. /\ r.ok => \E j \in 0..Len(new) : At(c, new, j, r.msg) /\ j = Len(new)
       /\ r.ok
  BY <1>8, <1>13, <1>14, <1>16, <1>17, ParseOf
<1>19. At(c, new, Len(new), r.msg)
  BY <1>18, Zenon
<1> DEFINE q == r.msg
<1>20. q \in Typed(c) /\ \A T \in Own(c) : Last(new, Len(new), T, Get(c, q, T))
  BY <1>19, Zenon DEF At
<1>21. q.unknown = <<>>
  <2>1. PICK w : /\ Laid(q.unknown, w)
                 /\ \A i \in 1..Len(w) : w[i].tag \notin Own(c)
                    /\ \E k \in 1..Len(new) : w[i] = new[k]
    <3> HIDE DEF q
    <3>1. At(c, new, Len(new), q)
      BY <1>19, Zenon DEF q
    <3>2. \E w : /\ Laid(q.unknown, w)
                 /\ \A i \in 1..Len(w) : w[i].tag \notin Own(c)
                    /\ \E k \in 1..Len(new) : w[i] = new[k]
                 /\ \A T \in Tags \ Own(c) : \A v : Last(new, Len(new), T, v) => Last(w, Len(w), T, v)
                 /\ Len(w) + Count(c, q) <= Len(new)
      BY <3>1, Zenon DEF At
    <3> QED
      BY <3>2, Zenon
  <2>2. \A i \in 1..Len(w) : FALSE
    BY <1>13, <2>1, Zenon
  <2>3. w \in Seq(Items)
    BY <2>1, Zenon DEF Laid
  <2>4. w = <<>>
    BY <2>2, <2>3, EmptySeq, LenProperties, SMT
  <2> QED
    BY <2>1, <2>4, NoItems, Zenon
<1>22. \A T \in Own(c) : Get(c, q, T) = Get(c, m, T)
  BY <1>10, <1>14, <1>20, LastIsUnique
<1>23. q = m
  BY <1>3, <1>20, <1>21, <1>22, ClassSame
<1> QED
  BY <1>18, <1>23, Zenon DEF q, r, m, b2

-----------------------------------------------------------------------------
(* The inductive invariant.                                                 *)

\* A parse that returned r is the last call, and has left its outcome.
ReadAs(r) == /\ limit \in 0..Len(wire)
             /\ status = IF r.ok THEN "ok" ELSE "failed"
             /\ y = IF r.ok THEN r.msg ELSE New(R)

\* The inductive invariant: x is a message of its class, the stream is the fields of
\* the messages written, and y is new or what a parse has read.
Sound ==
  /\ W \in Classes /\ R \in Classes
  /\ x \in Plain(W) /\ y \in Typed(R)
  /\ written \in Seq(Plain(W)) /\ Len(written) <= MaxWritten
  /\ \E its : Stream(W, wire, written, its)
  /\ status = "none" \/ ReadAs(Parse(R, SubSeq(wire, 1, limit)))

LEMMA FieldsAreMany == ASSUME CodecAssumption
                       PROVE  Fields \in Nat /\ \A n \in Nat : n <= MaxWritten => 3 * n <= Fields
<1>1. MaxWritten \in Nat
  BY Zenon DEF CodecAssumption
<1> QED
  BY <1>1, SMT DEF Fields

LEMMA SoundInit == ASSUME CodecAssumption, Init PROVE Sound
<1>1. W \in Classes /\ R \in Classes
  <2>1. pair \in Classes \X Classes
    BY Zenon DEF Init, CodecAssumption
  <2> QED
    BY <2>1, SMT DEF W, R
<1>2. x \in Plain(W) /\ y \in Typed(R)
  BY <1>1, ClassNew, Zenon DEF Init, NewIs, Plain
<1>3. <<>> \in Seq(Plain(W)) /\ Len(<<>>) <= MaxWritten
  <2>1. MaxWritten \in Nat
    BY Zenon DEF CodecAssumption
  <2> QED
    BY <2>1, SMT
<1>4. Stream(W, wire, written, <<>>)
  BY <1>1, StreamStarts, Zenon DEF Init
<1> QED
  BY <1>1, <1>2, <1>3, <1>4, Zenon DEF Init, Sound

LEMMA SoundSet == ASSUME CodecAssumption, Sound, Set PROVE Sound'
<1>1. x' \in Plain(W)
  BY ClassSet, Zenon DEF Sound, Set, SetIs, Plain
<1> QED
  BY <1>1, Zenon DEF Sound, Set, W, R, ReadAs

LEMMA SoundTake == ASSUME CodecAssumption, Sound, NEW m \in Messages(W), Take(m) PROVE Sound'
<1>1. m \in Typed(W) /\ m.unknown = <<>> /\ x \in Typed(W) /\ x.unknown = <<>> /\ W \in Classes
  BY ClassMessages, Zenon DEF Sound, MessagesAre, Plain
<1>2. <<>> \o <<>> = <<>>
  BY StartTypes, NothingJoined, Zenon
<1>3. MergeFrom(W, x, m) \in Plain(W)
  BY <1>1, <1>2, ClassMerge, Zenon DEF MergeIs, Plain
<1>4. CopyFrom(W, x, m) \in Plain(W)
  <2>1. New(W) \in Typed(W) /\ New(W).unknown = <<>>
    BY <1>1, ClassNew, Zenon DEF NewIs
  <2>2. MergeFrom(W, New(W), m) \in Plain(W)
    BY <1>1, <1>2, <2>1, ClassMerge, Zenon DEF MergeIs, Plain
  <2> QED
    BY <1>1, <2>2, ClassCopy, Zenon
<1>5. x' \in Plain(W)
  BY <1>3, <1>4, Zenon DEF Take
<1> QED
  BY <1>5, Zenon DEF Sound, Take, W, R, ReadAs

LEMMA SoundWrite == ASSUME CodecAssumption, Sound, Write PROVE Sound'
<1>1. PICK its : Stream(W, wire, written, its)
  BY Zenon DEF Sound
<1>2. Stream(W, wire', written', its \o Content(W, x))
  BY <1>1, StreamGrows, Zenon DEF Sound, Write
<1>3. written' \in Seq(Plain(W)) /\ Len(written') <= MaxWritten
  <2>1. /\ x \in Plain(W) /\ written \in Seq(Plain(W)) /\ Len(written) < MaxWritten
        /\ written' = Append(written, x) /\ MaxWritten \in Nat
    BY Zenon DEF Sound, Write, CodecAssumption
  <2> DEFINE S == Plain(W)
  <2> HIDE DEF S
  <2>2. x \in S /\ written \in Seq(S)
    BY <2>1, Zenon DEF S
  <2>3. written' \in Seq(S) /\ Len(written') <= MaxWritten
    BY <2>1, <2>2, SMT
  <2> QED
    BY <2>3, Zenon DEF S
<1> QED
  BY <1>2, <1>3, Zenon DEF Sound, Write, W, R

\* What a successful read leaves in y.
LEMMA ReadIs ==
  ASSUME CodecAssumption, W \in Classes, R \in Classes, written \in Seq(Plain(W)),
         Len(written) <= MaxWritten,
         NEW its, Stream(W, wire, written, its), NEW n \in 0..Len(wire), NEW r,
         r = Parse(R, SubSeq(wire, 1, n))
  PROVE  /\ r.ok => \E j \in 0..Len(its) : /\ At(R, its, j, r.msg) /\ (n = Len(wire) => j = Len(its))
                                           /\ \A i \in 1..j : Fine(R, its[i])
         /\ n = Len(wire) /\ (\A i \in 1..Len(its) : Fine(R, its[i])) => r.ok
         /\ Fields \in Nat /\ Len(its) <= Fields
<1>1. Laid(wire, its) /\ Len(its) <= 3 * Len(written)
  BY Zenon DEF Stream
<1>2. its \in Seq(Items)
  BY <1>1, Zenon DEF Laid
<1>3. Len(its) \in Nat /\ Len(written) \in Nat
  BY <1>2, LenProperties, Zenon
<1>4. Fields \in Nat /\ 3 * Len(written) <= Fields
  BY <1>3, FieldsAreMany, Zenon
<1>5. Len(its) <= Fields
  BY <1>1, <1>3, <1>4, SMT
<1> QED
  BY <1>1, <1>4, <1>5, ParseOf

LEMMA SoundRead == ASSUME CodecAssumption, Sound, NEW n \in 0..Len(wire), Read(n) PROVE Sound'
<1> DEFINE r == Parse(R, SubSeq(wire, 1, n))
<1>1. PICK its : Stream(W, wire, written, its)
  BY Zenon DEF Sound
<1>2. /\ limit' = n /\ status' = (IF r.ok THEN "ok" ELSE "failed")
      /\ y' = (IF r.ok THEN r.msg ELSE New(R))
      /\ UNCHANGED <<pair, x, wire, written>>
  BY Zenon DEF Read
<1>3. r.ok => \E j \in 0..Len(its) : At(R, its, j, r.msg)
  <2> HIDE DEF r
  <2>1. r = Parse(R, SubSeq(wire, 1, n))
    BY Zenon DEF r
  <2> QED
    BY <1>1, <2>1, ReadIs, Zenon DEF Sound
<1>4. y' \in Typed(R)
  <2>1. r.ok => r.msg \in Typed(R)
    BY <1>3, Zenon DEF At
  <2>2. New(R) \in Typed(R)
    BY ClassNew, Zenon DEF Sound, NewIs
  <2> QED
    BY <1>2, <2>1, <2>2, Zenon
<1>5. ReadAs(r)'
  BY <1>2, Zenon DEF ReadAs, R
<1>6. ReadAs(Parse(R, SubSeq(wire, 1, limit)))'
  BY <1>2, <1>5, Zenon DEF R
<1> QED
  BY <1>2, <1>4, <1>6, Zenon DEF Sound, W, R

LEMMA SoundNext == ASSUME CodecAssumption, Sound, [Next]_vars PROVE Sound'
<1>1. CASE Set
  BY <1>1, SoundSet, Zenon
<1>2. CASE \E m \in Messages(W) : Take(m)
  BY <1>2, SoundTake, Zenon
<1>3. CASE Write
  BY <1>3, SoundWrite, Zenon
<1>4. CASE \E n \in 0..Len(wire) : Read(n)
  BY <1>4, SoundRead, Zenon
<1>5. CASE UNCHANGED vars
  BY <1>5, Zenon DEF vars, Sound, W, R, ReadAs
<1> QED
  BY <1>1, <1>2, <1>3, <1>4, <1>5, Zenon DEF Next

-----------------------------------------------------------------------------
(* What follows from it.                                                    *)

\* Each message is written in as many bytes as ByteSizeLong says.
LEMMA SizeIsExactThen == ASSUME Sound PROVE SizeIsExact
BY ClassWrite, Zenon DEF Sound, Plain, WriteIs, SizeIsExact

\* The strings of all messages are valid if those of all fields in the stream are.
LEMMA ValidStreams ==
  ASSUME W \in Classes, x \in Typed(W), NEW its, its \in Seq(Items), From(W, written, its)
  PROVE  AllValid <=> \A i \in 1..Len(its) : Fine(W, its[i])
<1>1. AllValid <=> \A w \in 1..Len(written) : \A T \in Own(W) \cap Texts : Valid(Get(W, written[w], T))
  <2>1. \A n : (\A f \in FieldsOf(x) \cap {"data", "dara", "name", "message"} : Valid(n[f]))
                 <=> (\A T \in Own(W) \cap Texts : Valid(Get(W, n, T)))
    BY ClassNames, Zenon DEF NamesAre
  <2> QED
    BY <2>1, Zenon DEF AllValid
<1>2. ASSUME \A w \in 1..Len(written) : \A T \in Own(W) \cap Texts : Valid(Get(W, written[w], T)),
             NEW i \in 1..Len(its), its[i].tag \in Own(W) \cap Texts
      PROVE  Valid(its[i].value)
  <2>1. PICK w \in 1..Len(written) : its[i].value = Get(W, written[w], its[i].tag)
    BY Zenon DEF From
  <2>2. Valid(Get(W, written[w], its[i].tag))
    BY <1>2, Zenon
  <2> QED
    BY <2>1, <2>2, Zenon
<1>3. ASSUME \A i \in 1..Len(its) : Fine(W, its[i]),
             NEW w \in 1..Len(written), NEW T \in Own(W) \cap Texts
      PROVE  Valid(Get(W, written[w], T))
  <2>1. CASE Get(W, written[w], T) = Default(T)
    <3>1. Default(T) = <<>>
      <4>1. T = 10 \/ T = 18
        BY Zenon DEF Texts
      <4> QED
        BY <4>1, TypesOfValues, Zenon
    <3>2. Valid(<<>>)
      BY SMT DEF Valid
    <3> QED
      BY <2>1, <3>1, <3>2, Zenon
  <2>2. CASE Get(W, written[w], T) # Default(T)
    <3>1. PICK i \in 1..Len(its) : its[i].tag = T /\ its[i].value = Get(W, written[w], T)
      BY <2>2, Zenon DEF From
    <3>2. Valid(its[i].value)
      BY <1>3, <3>1, Zenon DEF Fine
    <3> QED
      BY <3>1, <3>2, Zenon
  <2> QED
    BY <2>1, <2>2, Zenon
<1> QED
  BY <1>1, <1>2, <1>3, Zenon DEF Fine

\* A stream read whole: the parse took all its items, so what y writes again is
\* laid as the items of all messages are, and has the same last values.
LEMMA WholeIsRestoredThen == ASSUME CodecAssumption, Sound PROVE WholeIsRestored
<1> SUFFICES ASSUME status # "none", limit = Len(wire)
             PROVE  IF AllValid
                    THEN /\ status = "ok"
                         /\ Parse(W, Serialize(R, y)).ok /\ Parse(W, Serialize(R, y)).msg = Merged
                    ELSE status = "ok" => W # R
  BY Zenon DEF WholeIsRestored
<1>1. PICK its : Stream(W, wire, written, its)
  BY Zenon DEF Sound
<1> DEFINE r == Parse(R, SubSeq(wire, 1, limit))
<1>2. /\ status = (IF r.ok THEN "ok" ELSE "failed") /\ y = (IF r.ok THEN r.msg ELSE New(R))
      /\ limit \in 0..Len(wire)
  BY Zenon DEF Sound, ReadAs
<1>3. r = Parse(R, SubSeq(wire, 1, limit))
  OBVIOUS
<1> HIDE DEF r
<1>4. /\ r.ok => \E j \in 0..Len(its) : /\ At(R, its, j, r.msg) /\ (limit = Len(wire) => j = Len(its))
                                        /\ \A i \in 1..j : Fine(R, its[i])
      /\ limit = Len(wire) /\ (\A i \in 1..Len(its) : Fine(R, its[i])) => r.ok
      /\ Fields \in Nat /\ Len(its) <= Fields
  BY <1>1, <1>2, <1>3, ReadIs, Zenon DEF Sound
<1>5. AllValid <=> \A i \in 1..Len(its) : Fine(W, its[i])
  <2>1. W \in Classes /\ x \in Typed(W) /\ its \in Seq(Items) /\ From(W, written, its)
    BY <1>1, Zenon DEF Sound, Plain, Stream, Laid
  <2> QED
    BY <2>1, ValidStreams, Zenon
<1>6. CASE AllValid
  <2>1. \A i \in 1..Len(its) : its[i].tag \in Own(W)
    BY <1>1, Zenon DEF Stream, From
  <2>2. \A i \in 1..Len(its) : Fine(R, its[i])
    BY <1>5, <1>6, <2>1, Zenon DEF Fine
  <2>3. r.ok
    BY <1>4, <2>2, Zenon
  <2>4. At(R, its, Len(its), r.msg)
    BY <1>4, <2>3, Zenon
  <2>5. At(R, its, Len(its), y)
    BY <1>2, <2>3, <2>4, Zenon
  <2> DEFINE all == CHOOSE a : Merges(W, written, Len(written), a)
  <2>6. Merges(W, written, Len(written), all)
    BY <1>1, Zenon DEF Stream
  <2>7. Merged = all[Len(written)]
    BY Zenon DEF Merged, Merges
  <2> HIDE DEF all
  <2>8. Parse(W, Serialize(R, y)).ok /\ Parse(W, Serialize(R, y)).msg = all[Len(written)]
    <3>1. W \in Classes /\ R \in Classes /\ \A i \in 1..Len(its) : Fine(W, its[i])
      BY <1>5, <1>6, Zenon DEF Sound
    <3> QED
      BY <1>1, <1>4, <2>5, <2>6, <3>1, WrittenAgain
  <2> QED
    BY <1>2, <1>6, <2>3, <2>7, <2>8, Zenon
<1>7. CASE ~AllValid
  <2>1. ASSUME status = "ok", W = R PROVE FALSE
    <3>1. r.ok
      BY <1>2, <2>1, Zenon
    <3>2. \A i \in 1..Len(its) : Fine(R, its[i])
      BY <1>4, <3>1, Zenon
    <3> QED
      BY <1>5, <1>7, <2>1, <3>2, Zenon
  <2> QED
    BY <1>7, <2>1, Zenon
<1> QED
  BY <1>6, <1>7, Zenon

\* A stream cut: a field that is not the default is the value of an item read,
\* which is a field of a message written.
LEMMA CutIsNeverWrongThen == ASSUME CodecAssumption, Sound PROVE CutIsNeverWrong
<1> SUFFICES ASSUME status = "ok", FieldsOf(x) = FieldsOf(y), NEW f \in FieldsOf(y), y[f] # New(R)[f]
             PROVE  \E w \in 1..Len(written) : y[f] = written[w][f]
  BY Zenon DEF CutIsNeverWrong
<1>1. PICK its : Stream(W, wire, written, its)
  BY Zenon DEF Sound
<1> DEFINE r == Parse(R, SubSeq(wire, 1, limit))
<1>2. r.ok /\ y = r.msg /\ limit \in 0..Len(wire)
  BY Zenon DEF Sound, ReadAs
<1>3. r = Parse(R, SubSeq(wire, 1, limit))
  OBVIOUS
<1> HIDE DEF r
<1>4. PICK j \in 0..Len(its) : At(R, its, j, y)
  <2>1. r.ok => \E j \in 0..Len(its) : At(R, its, j, r.msg)
    BY <1>1, <1>2, <1>3, ReadIs, Zenon DEF Sound
  <2> QED
    BY <1>2, <2>1, Zenon
<1>5. W \in Classes /\ R \in Classes /\ x \in Typed(W) /\ y \in Typed(R)
  BY Zenon DEF Sound, Plain
<1>6. PICK T \in Own(R) : \A n : n[f] = Get(R, n, T)
  BY <1>5, ClassNames, Zenon DEF NamesAre
<1>7. T \in Tags
  BY <1>5, OwnTags, Zenon
<1>8. y[f] # Default(T)
  <2>1. New(R)[f] = Default(T)
    BY <1>5, <1>6, <1>7, ClassNew, Zenon DEF NewIs
  <2> QED
    BY <2>1, Zenon
<1>9. Last(its, j, T, y[f])
  <2>1. Last(its, j, T, Get(R, y, T))
    BY <1>4, Zenon DEF At
  <2> QED
    BY <1>6, <2>1, Zenon
<1>10. PICK i \in 1..j : its[i].tag = T /\ its[i].value = y[f]
  BY <1>8, <1>9, LastIsThere
<1>11. i \in 1..Len(its)
  <2>1. its \in Seq(Items)
    BY <1>1, Zenon DEF Stream, Laid
  <2>2. Len(its) \in Nat
    BY <2>1, LenProperties, Zenon
  <2> QED
    BY <2>2, SMT
<1>12. PICK w \in 1..Len(written) : its[i].value = Get(W, written[w], its[i].tag)
  BY <1>1, <1>11, Zenon DEF Stream, From
<1>13. Get(W, written[w], T) = Get(R, written[w], T)
  <2>1. Names(W) = Names(R)
    BY <1>5, FieldsAre, Zenon
  <2> QED
    BY <1>5, <2>1, SameNames
<1>14. y[f] = Get(R, written[w], T)
  BY <1>10, <1>12, <1>13, Zenon
<1>15. y[f] = written[w][f]
  BY <1>6, <1>14, Zenon
<1> QED
  BY <1>15, Zenon

-----------------------------------------------------------------------------
(* The specification.                                                       *)

\* The invariant.
THEOREM Soundness == ASSUME CodecAssumption PROVE Spec => []Sound
<1>1. CodecAssumption
  OBVIOUS
<1>2. Init => Sound
  BY <1>1, SoundInit
<1>3. Sound /\ [Next]_vars => Sound'
  BY <1>1, SoundNext
<1> QED
  BY <1>2, <1>3, PTL DEF Spec

\* What callers of the generated classes are promised: ByteSizeLong is the number of
\* bytes _InternalSerialize writes, a stream that arrived whole is restored by
\* _InternalParse, and one that was cut is refused or read up to a field's end.
THEOREM Restored == ASSUME CodecAssumption
                    PROVE  Spec => [](SizeIsExact /\ WholeIsRestored /\ CutIsNeverWrong)
<1>1. CodecAssumption
  OBVIOUS
<1>2. Sound => SizeIsExact /\ WholeIsRestored /\ CutIsNeverWrong
  BY <1>1, SizeIsExactThen, WholeIsRestoredThen, CutIsNeverWrongThen
<1>3. Spec => []Sound
  BY <1>1, Soundness
<1> QED
  BY <1>2, <1>3, PTL
=============================================================================
