-------------------------------- MODULE Codec --------------------------------
(***************************************************************************)
(* Messages written and read with the generated classes: a message x of    *)
(* one class is filled in and serialised, more than once if one likes, and *)
(* a message y of the same or another class parses what has arrived, the   *)
(* whole of it or its beginning.  One thread uses both, a call is a step.  *)
(* The programs of the repository make a few of these calls; the classes   *)
(* promise what is stated here to whoever calls them.                      *)
(***************************************************************************)
EXTENDS GeneratedMessages

CONSTANTS Pairs,         \* the class that writes and the one that reads
          Strings,       \* the strings that fields are given, for each class
          Ints, Floats,  \* the numbers
          MaxWritten     \* bound: the messages in the stream

Classes == {"MsgData", "Client", "Book", "Request", "Reply"}

\* What the fields' types and the compiler see to.  The modules that use this one
\* assume it of what they give for the constants.
CodecAssumption ==
  /\ Pairs \subseteq Classes \X Classes
  /\ \A c \in Classes : Strings[c] \subseteq string
  /\ Ints \subseteq int32 /\ Floats \subseteq float
  /\ MaxWritten \in Nat

VARIABLES
  pair,     \* the two classes
  x, y,     \* a message of each
  wire,     \* the stream
  status,   \* what the last parse has returned: none, ok, failed
  limit,    \* how much of the stream it was given
  written   \* history: the messages in the stream

vars == <<pair, x, y, wire, status, limit, written>>

W == pair[1]
R == pair[2]

-----------------------------------------------------------------------------
(* The calls, by class.                                                     *)

New(c) == CASE c = "MsgData" -> MsgData_SharedCtor [] c = "Client" -> Client_SharedCtor
            [] c = "Book"    -> Book_SharedCtor    [] c = "Request" -> Request_SharedCtor
            [] c = "Reply"   -> Reply_SharedCtor

Messages(c) ==
  CASE c = "MsgData" -> [id : Ints, data : Strings[c], unknown : {<<>>}]
    [] c = "Client"  -> [id : Ints, dara : Strings[c], unknown : {<<>>}]
    [] c = "Book"    -> [name : Strings[c], pages : Ints, price : Floats, unknown : {<<>>}]
    [] OTHER         -> [message : Strings[c], unknown : {<<>>}]

\* What one call of a set_ function makes of m.
Assigned(c, m) ==
  CASE c = "MsgData" -> {MsgData_set_id(m, i) : i \in Ints}
                        \cup {MsgData_set_data(m, s) : s \in Strings[c]}
    [] c = "Client"  -> {Client_set_id(m, i) : i \in Ints}
                        \cup {Client_set_dara(m, s) : s \in Strings[c]}
    [] c = "Book"    -> {Book_set_name(m, s) : s \in Strings[c]}
                        \cup {Book_set_pages(m, i) : i \in Ints}
                        \cup {Book_set_price(m, f) : f \in Floats}
    [] c = "Request" -> {Request_set_message(m, s) : s \in Strings[c]}
    [] c = "Reply"   -> {Reply_set_message(m, s) : s \in Strings[c]}

Serialize(c, m) ==
  CASE c = "MsgData" -> MsgData_InternalSerialize(m) [] c = "Client"  -> Client_InternalSerialize(m)
    [] c = "Book"    -> Book_InternalSerialize(m)    [] c = "Request" -> Request_InternalSerialize(m)
    [] c = "Reply"   -> Reply_InternalSerialize(m)

ByteSizeLong(c, m) ==
  CASE c = "MsgData" -> MsgData_ByteSizeLong(m) [] c = "Client"  -> Client_ByteSizeLong(m)
    [] c = "Book"    -> Book_ByteSizeLong(m)    [] c = "Request" -> Request_ByteSizeLong(m)
    [] c = "Reply"   -> Reply_ByteSizeLong(m)

MergeFrom(c, m, from) ==
  CASE c = "MsgData" -> MsgData_MergeImpl(m, from) [] c = "Client"  -> Client_MergeImpl(m, from)
    [] c = "Book"    -> Book_MergeImpl(m, from)    [] c = "Request" -> Request_MergeFrom(m, from)
    [] c = "Reply"   -> Reply_MergeFrom(m, from)

CopyFrom(c, m, from) ==
  CASE c = "MsgData" -> MsgData_CopyFrom(m, from) [] c = "Client"  -> Client_CopyFrom(m, from)
    [] c = "Book"    -> Book_CopyFrom(m, from)    [] c = "Request" -> Request_CopyFrom(m, from)
    [] c = "Reply"   -> Reply_CopyFrom(m, from)

Turn(c, m, t) ==
  CASE c = "MsgData" -> MsgData_InternalParse(m, t) [] c = "Client"  -> Client_InternalParse(m, t)
    [] c = "Book"    -> Book_InternalParse(m, t)    [] c = "Request" -> Request_InternalParse(m, t)
    [] c = "Reply"   -> Reply_InternalParse(m, t)

\* Bound: the fields of what is parsed, at most three for each message.
Fields == 3 * MaxWritten

\* ParseFromString, ParseFromArray: Clear, and the loop up to the end of b.  What
\* the field at which it fails holds afterwards is left open, as y is not used then.
Parse(c, b) ==
  LET run[k \in 0..Fields] ==
        IF k = 0 THEN [at |-> 1, ok |-> TRUE, msg |-> New(c)]
        ELSE LET s == run[k-1]
                 t == Field(b, s.at)
             IN  IF ~s.ok \/ s.at > Len(b) THEN s
                 ELSE IF t.next = 0 THEN [s EXCEPT !.ok = FALSE]
                 ELSE LET r == Turn(c, s.msg, t)
                      IN  [at |-> t.next, ok |-> r.ok, msg |-> r.msg]
  IN  run[Fields]

-----------------------------------------------------------------------------
Init == /\ pair \in Pairs
        /\ x = New(W)
        /\ y = New(R)
        /\ wire = <<>>
        /\ status = "none"
        /\ limit = 0
        /\ written = <<>>

\* The writer sets a field, or takes over another message, on top of what x has
\* or instead of it.
Set == /\ status = "none"
       /\ x' \in Assigned(W, x)
       /\ UNCHANGED <<pair, y, wire, status, limit, written>>

Take(m) == /\ status = "none"
           /\ x' \in {MergeFrom(W, x, m), CopyFrom(W, x, m)}
           /\ UNCHANGED <<pair, y, wire, status, limit, written>>

\* SerializeToString, and the bytes are sent.
Write == /\ status = "none"
         /\ Len(written) < MaxWritten
         /\ wire' = wire \o Serialize(W, x)
         /\ written' = Append(written, x)
         /\ UNCHANGED <<pair, x, y, status, limit>>

\* The last step: a parse begins with Clear, so it does not depend on another.
Read(n) == LET r == Parse(R, SubSeq(wire, 1, n))
           IN  /\ status = "none"
               /\ limit' = n
               /\ status' = IF r.ok THEN "ok" ELSE "failed"
               /\ y' = IF r.ok THEN r.msg ELSE New(R)
               /\ UNCHANGED <<pair, x, wire, written>>

Next == Set \/ (\E m \in Messages(W) : Take(m)) \/ Write \/ (\E n \in 0..Len(wire) : Read(n))

Spec == Init /\ [][Next]_vars

-----------------------------------------------------------------------------
(* Properties.                                                              *)

\* ByteSizeLong, by which the buffer is made, is the number of bytes that
\* _InternalSerialize puts into it, also with negative numbers, which take ten
\* bytes, -0.0, and unknown fields.
SizeIsExact == /\ ByteSizeLong(W, x) = Len(Serialize(W, x))
               /\ ByteSizeLong(R, y) = Len(Serialize(R, y))

Merged == LET all[i \in 0..Len(written)] ==
                IF i = 0 THEN New(W) ELSE MergeFrom(W, all[i-1], written[i])
          IN  all[Len(written)]

FieldsOf(m) == DOMAIN m \ {"unknown"}
AllValid == \A i \in 1..Len(written) : \A f \in FieldsOf(x) \cap {"data", "dara", "name", "message"} :
              Valid(written[i][f])

\* A stream that arrived whole is read as the merge of its messages, though fields
\* with their default are not written, and an empty message is no byte at all.  A
\* reader of another class loses nothing of it: what it writes again (its known
\* fields first) the first class reads as the same.  Only a string that is not
\* UTF-8, which the writer does not refuse, makes a reader that knows it refuse.
WholeIsRestored ==
  status # "none" /\ limit = Len(wire) =>
    IF AllValid
    THEN /\ status = "ok"
         /\ Parse(W, Serialize(R, y)).ok /\ Parse(W, Serialize(R, y)).msg = Merged
    ELSE status = "ok" => W # R

\* A stream of which only the beginning arrived is refused, or fields are missing
\* that nobody misses; a field is never read in part.
CutIsNeverWrong ==
  status = "ok" /\ FieldsOf(x) = FieldsOf(y) =>
    \A f \in FieldsOf(y) : y[f] = New(R)[f] \/ \E i \in 1..Len(written) : y[f] = written[i][f]
=============================================================================
