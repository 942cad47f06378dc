-------------------------- MODULE GeneratedMessages --------------------------
(***************************************************************************)
(* The message classes protoc has generated: MsgData (in the server and in *)
(* the client of AsyncServer_useProtobuf), Book (ProtobufDemo), and        *)
(* HelloRequest and HelloReply (in client and server of the gRPC example;  *)
(* the client writes requests and reads replies, the server the reverse).  *)
(* A message is a record of its fields and of the bytes of unknown fields, *)
(* a string a sequence of bytes, a float its four bytes.  Fields are       *)
(* numbered below 16, so a tag is one byte.                                *)
(* A set_ operator stands for every function that gives the field a value  *)
(* (set_, mutable_, set_allocated_; clear_ and release_ leave the default),*)
(* the field of the record for the functions that read it.                 *)
(***************************************************************************)
EXTENDS Integers, Sequences

\* The types of fields; a string has at most as many bytes as a signed number of
\* 32 bits counts, more is not written.
Byte == 0..255
int32 == {v \in Int : -2147483647 - 1 <= v /\ v <= 2147483647}
string == {s \in Seq(Byte) : Len(s) <= 2147483647}
float == [1..4 -> Byte]

-----------------------------------------------------------------------------
(* The wire format, which the protobuf library provides (external).         *)

\* Seven bits at a time, the sign being repeated up to ten bytes.
Groups(v) == LET rest[i \in 0..9] == IF i = 0 THEN v ELSE rest[i-1] \div 128
             IN  [i \in 1..10 |-> IF i = 10 THEN (IF v < 0 THEN 1 ELSE 0) ELSE rest[i-1] % 128]

Varint(v) == LET g == Groups(v)
                 n == CHOOSE i \in 1..10 : /\ i = 1 \/ g[i] # 0
                                           /\ \A j \in i+1..10 : g[j] = 0
             IN  [i \in 1..n |-> IF i < n THEN g[i] + 128 ELSE g[i]]

\* The library has a formula for the size: the binary logarithm l gives (9l + 73) / 64.
Log2(v) == IF v < 0 THEN 63
           ELSE IF v = 0 THEN 0 ELSE CHOOSE l \in 0..30 : 2^l <= v /\ (l = 30 \/ v < 2^(l+1))
VarintSize(v) == (Log2(v) * 9 + 73) \div 64

StringSize(s) == VarintSize(Len(s)) + Len(s)
NoFloat == <<0, 0, 0, 0>>
Valid(s) == \A i \in 1..Len(s) : s[i] < 128   \* bytes from 128 on are never UTF-8 here

\* The last byte of the varint at p, 0 if there is none.
VarintEnd(b, p) == IF \E n \in p..p+9 : n <= Len(b) /\ b[n] < 128
                   THEN CHOOSE n \in p..p+9 : b[n] < 128 /\ \A j \in p..n-1 : b[j] >= 128
                   ELSE 0

\* Its lower 32 bits, as a signed number.
ReadVarint32(b, p) ==
  LET g(i) == IF p + i <= VarintEnd(b, p) THEN b[p + i] % 128 ELSE 0
      high == g(4) % 16
  IN  g(0) + 2^7 * g(1) + 2^14 * g(2) + 2^21 * g(3) + 2^28 * (IF high < 8 THEN high ELSE high - 16)

\* The last byte of the field at p, 0 if it is cut short or has a negative length.
FieldEnd(b, p) ==
  LET e == VarintEnd(b, p + 1)
      length == ReadVarint32(b, p + 1)
  IN  CASE b[p] % 8 = 0                          -> e
        [] b[p] % 8 = 2 /\ e # 0 /\ length >= 0 -> e + length
        [] b[p] % 8 = 5                          -> p + 4
        [] OTHER                                 -> 0

\* What it holds if it ends at last.
FieldValue(b, p, last) == CASE b[p] % 8 = 0 -> ReadVarint32(b, p + 1)
                            [] b[p] % 8 = 2 -> SubSeq(b, VarintEnd(b, p + 1) + 1, last)
                            [] b[p] % 8 = 5 -> SubSeq(b, p + 1, last)

\* The field at p: its tag, its value, and where the next begins, 0 if it is not whole.
Field(b, p) ==
  LET last == FieldEnd(b, p)
  IN  IF last = 0 \/ last > Len(b) THEN [tag |-> b[p], next |-> 0]
      ELSE [tag |-> b[p], next |-> last + 1, raw |-> SubSeq(b, p, last),
            value |-> FieldValue(b, p, last)]

-----------------------------------------------------------------------------
(* What all classes have in common.                                         *)

Int32Field(tag, v) == IF v # 0 THEN <<tag>> \o Varint(v) ELSE <<>>
StringField(tag, s) == IF s # <<>> THEN <<tag>> \o Varint(Len(s)) \o s ELSE <<>>

\* Altered: compared as a number, by which -0.0 is 0.
FloatFieldByValue(tag, f) == IF f \notin {NoFloat, <<0, 0, 0, 128>>} THEN <<tag>> \o f ELSE <<>>

\* raw_price # 0: compared as bits.
FloatField(tag, f) == IF f # NoFloat THEN <<tag>> \o f ELSE <<>>

Int32FieldSize(v) == IF v # 0 THEN 1 + VarintSize(v) ELSE 0
StringFieldSize(s) == IF s # <<>> THEN 1 + StringSize(s) ELSE 0
FloatFieldSize(f) == IF f # NoFloat THEN 1 + 4 ELSE 0

\* handle_unusual, and what a turn of the loop makes of a field.  A tag 0 ends the
\* message, as one that ends a group does: in a stream parsed as a whole a failure.
EndsMessage(tag) == tag = 0 \/ tag % 8 = 4
Unknown(m, t) == [ok |-> ~EndsMessage(t.tag), msg |-> [m EXCEPT !.unknown = @ \o t.raw]]
Known(m) == [ok |-> TRUE, msg |-> m]
KnownString(m, s) == [ok |-> Valid(s), msg |-> m]
Or(v, none, old) == IF v # none THEN v ELSE old

-----------------------------------------------------------------------------
(* MsgData of the server.                                                   *)

MsgData_SharedCtor == [id |-> 0, data |-> <<>>, unknown |-> <<>>]
MsgData_Clear(m) == MsgData_SharedCtor
MsgData_set_id(m, value) == [m EXCEPT !.id = value]
MsgData_set_data(m, value) == [m EXCEPT !.data = value]

MsgData_InternalParse(m, t) ==
  CASE t.tag = 8  -> Known([m EXCEPT !.id = t.value])
    [] t.tag = 18 -> KnownString([m EXCEPT !.data = t.value], t.value)
    [] OTHER      -> Unknown(m, t)

MsgData_InternalSerialize(m) == Int32Field(8, m.id) \o StringField(18, m.data) \o m.unknown
MsgData_ByteSizeLong(m) == StringFieldSize(m.data) + Int32FieldSize(m.id) + Len(m.unknown)
MsgData_MergeImpl(m, from) == [data |-> Or(from.data, <<>>, m.data), id |-> Or(from.id, 0, m.id),
                               unknown |-> m.unknown \o from.unknown]
MsgData_CopyFrom(m, from) == MsgData_MergeImpl(MsgData_Clear(m), from)

-----------------------------------------------------------------------------
(* MsgData of the client, which calls its second field dara.                *)

Client_SharedCtor == [id |-> 0, dara |-> <<>>, unknown |-> <<>>]
Client_Clear(m) == Client_SharedCtor
Client_set_id(m, value) == [m EXCEPT !.id = value]
Client_set_dara(m, value) == [m EXCEPT !.dara = value]

Client_InternalParse(m, t) ==
  CASE t.tag = 8  -> Known([m EXCEPT !.id = t.value])
    [] t.tag = 18 -> KnownString([m EXCEPT !.dara = t.value], t.value)
    [] OTHER      -> Unknown(m, t)

Client_InternalSerialize(m) == Int32Field(8, m.id) \o StringField(18, m.dara) \o m.unknown

\* Altered: a negative number is taken for five bytes.
Client_ByteSizeLong_unsigned(m) ==
  StringFieldSize(m.dara) + (IF m.id < 0 THEN 6 ELSE Int32FieldSize(m.id)) + Len(m.unknown)

Client_ByteSizeLong(m) == StringFieldSize(m.dara) + Int32FieldSize(m.id) + Len(m.unknown)
Client_MergeImpl(m, from) == [dara |-> Or(from.dara, <<>>, m.dara), id |-> Or(from.id, 0, m.id),
                              unknown |-> m.unknown \o from.unknown]
Client_CopyFrom(m, from) == Client_MergeImpl(Client_Clear(m), from)

-----------------------------------------------------------------------------
(* Book.                                                                    *)

Book_SharedCtor == [name |-> <<>>, pages |-> 0, price |-> NoFloat, unknown |-> <<>>]
Book_Clear(m) == Book_SharedCtor
Book_set_name(m, value) == [m EXCEPT !.name = value]
Book_set_pages(m, value) == [m EXCEPT !.pages = value]
Book_set_price(m, value) == [m EXCEPT !.price = value]

Book_InternalParse(m, t) ==
  CASE t.tag = 10 -> KnownString([m EXCEPT !.name = t.value], t.value)
    [] t.tag = 16 -> Known([m EXCEPT !.pages = t.value])
    [] t.tag = 29 -> Known([m EXCEPT !.price = t.value])
    [] OTHER      -> Unknown(m, t)

Book_InternalSerialize(m) ==
  StringField(10, m.name) \o Int32Field(16, m.pages) \o FloatField(29, m.price) \o m.unknown
Book_ByteSizeLong(m) ==
  StringFieldSize(m.name) + Int32FieldSize(m.pages) + FloatFieldSize(m.price) + Len(m.unknown)
Book_MergeImpl(m, from) == [name |-> Or(from.name, <<>>, m.name), pages |-> Or(from.pages, 0, m.pages),
                            price |-> Or(from.price, NoFloat, m.price),
                            unknown |-> m.unknown \o from.unknown]
Book_CopyFrom(m, from) == Book_MergeImpl(Book_Clear(m), from)

-----------------------------------------------------------------------------
(* HelloRequest and HelloReply have one field each, of the same number.     *)

Request_SharedCtor == [message |-> <<>>, unknown |-> <<>>]
Request_Clear(m) == Request_SharedCtor
Request_set_message(m, value) == [m EXCEPT !.message = value]
Request_InternalSerialize(m) == StringField(10, m.message) \o m.unknown
Request_ByteSizeLong(m) == StringFieldSize(m.message) + Len(m.unknown)
Request_MergeFrom(m, from) == [message |-> Or(from.message, <<>>, m.message),
                               unknown |-> m.unknown \o from.unknown]
Request_CopyFrom(m, from) == Request_MergeFrom(Request_Clear(m), from)
Request_InternalParse(m, t) ==   \* in the server
  IF t.tag = 10 THEN KnownString([m EXCEPT !.message = t.value], t.value) ELSE Unknown(m, t)

Reply_SharedCtor == [message |-> <<>>, unknown |-> <<>>]
Reply_Clear(m) == Reply_SharedCtor
Reply_set_message(m, value) == [m EXCEPT !.message = value]
Reply_InternalSerialize(m) == StringField(10, m.message) \o m.unknown
Reply_ByteSizeLong(m) == StringFieldSize(m.message) + Len(m.unknown)
Reply_MergeFrom(m, from) == [message |-> Or(from.message, <<>>, m.message),
                             unknown |-> m.unknown \o from.unknown]
Reply_CopyFrom(m, from) == Reply_MergeFrom(Reply_Clear(m), from)
Reply_InternalParse(m, t) ==     \* in the client
  IF t.tag = 10 THEN KnownString([m EXCEPT !.message = t.value], t.value) ELSE Unknown(m, t)
=============================================================================
