---------------------------- MODULE MessageCodec ----------------------------
(***************************************************************************)
(* broker.Message on the wire: Size, MarshalTo and Unmarshal.  A string or *)
(* a body is a sequence of bytes, a header a function from keys, Retry an  *)
(* int32 and Body perhaps NoBody.  Data is a sequence indexed from 1, so   *)
(* position i here is iNdEx + 1.                                           *)
(***************************************************************************)
EXTENDS Integers, Sequences, SequencesExt

CONSTANTS
  NoBody,   \* the Body of a message without one
  Samples,  \* messages to be encoded
  Short     \* those of them that are also cut off and extended

EmptyMessage == [Id |-> <<>>, Header |-> <<>>, Retry |-> 0, Body |-> NoBody]

\* A failed read: the groups are those of a varint that is cut off.
Bad == [ok |-> FALSE, groups |-> <<>>]

-----------------------------------------------------------------------------
(* Varints *)

\* The 7-bit groups of uint64(x) for a length or an int32 x, lowest first: x is
\* shifted until a group has all that is left, which for a negative one, whose
\* sign fills the upper bits, is the tenth with one bit.
GroupsOf(x) ==
  LET shifted[i \in 0 .. 9] == IF i = 0 THEN x ELSE shifted[i - 1] \div 128
      n == Min({i \in 1 .. 10 : i = 10 \/ shifted[i - 1] \in 0 .. 127}) IN
  [i \in 1 .. n |-> IF i < 10 THEN shifted[i - 1] % 128 ELSE shifted[9] % 2]

\* Mutant: a negative number is as long as its 32 bits.
sovMessage_32(x) == IF x < 0 THEN 5 ELSE Len(GroupsOf(x))

sovMessage(x) == Len(GroupsOf(x))

encodeVarint(x) ==
  LET g == GroupsOf(x) IN [i \in 1 .. Len(g) |-> IF i < Len(g) THEN g[i] + 128 ELSE g[i]]

\* The groups of a varint that starts at position i.
ReadVarint(data, i) ==
  LET ends == {j \in i .. Len(data) : data[j] < 128}
      groups(j) == [k \in 1 .. j - i + 1 |-> data[i + k - 1] % 128] IN
  IF ends = {} THEN [Bad EXCEPT !.groups = groups(Len(data))]
  ELSE [ok |-> TRUE, next |-> Min(ends) + 1, groups |-> groups(Min(ends))]

\* What the first four groups of a varint say.
LowOf(groups) ==
  LET At(k) == IF k \in DOMAIN groups THEN groups[k] ELSE 0 IN
  At(1) + 128 * (At(2) + 128 * (At(3) + 128 * At(4)))

Huge == 128 * 128 * 128 * 128

\* A length; those that are huge are alike, longer than any data (the code would
\* take one of 2^63 and more as negative).
LengthOf(groups) ==
  IF \E k \in DOMAIN groups : k > 4 /\ groups[k] # 0 THEN Huge ELSE LowOf(groups)

\* (int32(b) & 0x7F) << shift: bits above the 32nd are shifted out.
Int32Of(groups) ==
  LET high == IF Len(groups) < 5 THEN 0 ELSE groups[5] % 16 IN
  LowOf(groups) + (IF high < 8 THEN high ELSE high - 16) * Huge

\* Two groups of seven bits, bit by bit.
Or(v, w) ==
  LET Bit(p) == IF ((v \div p) % 2) + ((w \div p) % 2) > 0 THEN p ELSE 0 IN
  Bit(1) + Bit(2) + Bit(4) + Bit(8) + Bit(16) + Bit(32) + Bit(64)

\* x |= the groups, byte by byte: bits that are set stay set.
OrInto(x, groups) ==
  LET At(g, k) == IF k \in DOMAIN g THEN g[k] ELSE 0
      ors(old) == [k \in 1 .. 5 |-> Or(At(old, k), At(groups, k))] IN
  Int32Of(ors(GroupsOf(x)))

-----------------------------------------------------------------------------
(* Size and MarshalTo *)

PairSize(k, v) ==
  1 + Len(k) + sovMessage(Len(k)) + 1 + Len(v) + sovMessage(Len(v))

Size(m) ==
  LET field(l) == IF l > 0 THEN 1 + l + sovMessage(l) ELSE 0
      pair(k)  == LET n == PairSize(k, m.Header[k]) IN n + 1 + sovMessage(n) IN
  field(Len(m.Id))
    + MapThenSumSet(pair, DOMAIN m.Header)
    + (IF m.Retry # 0 THEN 1 + sovMessage(m.Retry) ELSE 0)
    + (IF m.Body # NoBody THEN field(Len(m.Body)) ELSE 0)

Field(tag, s) == <<tag>> \o encodeVarint(Len(s)) \o s

Pair(k, v) == <<18>> \o encodeVarint(PairSize(k, v)) \o Field(10, k) \o Field(18, v)

\* Strings in the order in which they are sorted.
Precedes(k, l) ==
  \E n \in 0 .. Len(k) : /\ n < Len(l) /\ \A i \in 1 .. n : k[i] = l[i]
                         /\ n = Len(k) \/ k[n + 1] < l[n + 1]

Sorted(S) ==
  CHOOSE s \in [1 .. Cardinality(S) -> S] : \A i, j \in DOMAIN s : i < j => Precedes(s[i], s[j])

Pairs(h) ==
  LET keys == Sorted(DOMAIN h) IN [i \in 1 .. Len(keys) |-> Pair(keys[i], h[keys[i]])]

When(written, field) == IF written THEN <<field>> ELSE <<>>

Fields(m) ==
  When(Len(m.Id) > 0, Field(10, m.Id))
    \o Pairs(m.Header)
    \o When(m.Retry # 0, <<24>> \o encodeVarint(m.Retry))
    \o When(m.Body # NoBody /\ m.Body # <<>>, Field(34, m.Body))

MarshalTo(m) == FlattenSeq(Fields(m))

-----------------------------------------------------------------------------
(* Unmarshal *)

\* The bytes before position post.
BytesTo(data, i, post) ==
  IF post > Len(data) + 1 THEN Bad
  ELSE [ok |-> TRUE, next |-> post, bytes |-> SubSeq(data, i, post - 1)]

BytesAfter(data, v) ==
  IF v.ok THEN BytesTo(data, v.next, v.next + LengthOf(v.groups)) ELSE Bad

\* A length and that many bytes.
ReadBytes(data, i) == BytesAfter(data, ReadVarint(data, i))

\* A tag that is not looked at, and bytes.
AfterTag(data, tag) == IF tag.ok THEN ReadBytes(data, tag.next) ELSE Bad

ReadTagged(data, i) == AfterTag(data, ReadVarint(data, i))

TaggedAfter(data, r) == IF r.ok THEN ReadTagged(data, r.next) ELSE Bad

EntryOf(whole, key, value) ==
  IF whole.ok /\ key.ok /\ value.ok
  THEN [ok |-> TRUE, next |-> whole.next, key |-> key.bytes, value |-> value.bytes]
  ELSE Bad

\* An entry of the header is a key and a value, of which it is not checked
\* whether they end within the entry.
ReadEntry(data, i) ==
  LET WithKey(key) == EntryOf(ReadBytes(data, i), key, TaggedAfter(data, key)) IN
  WithKey(TaggedAfter(data, ReadVarint(data, i)))

\* The wire type and the number of a field, from its tag; numbers are below
\* 2^25, in as few bytes as they need.
WireOf(tag) == tag.groups[1] % 8
NumOf(tag) == LengthOf(tag.groups) \div 8

\* What follows the tag of an unknown field, up to the next tag.
Skipped(data, i, wire) ==
  LET fixed(n) == IF i + n > Len(data) + 1 THEN Bad ELSE [ok |-> TRUE, next |-> i + n] IN
  CASE wire = 0 -> ReadVarint(data, i)
    [] wire = 1 -> fixed(8)
    [] wire = 2 -> ReadBytes(data, i)
    [] wire = 5 -> fixed(4)
    [] wire \in {3, 4} -> fixed(0)
    [] OTHER -> Bad

\* An item that was read, within the groups that are open: a group begins with
\* wire type 3 and ends with the wire type 4 that belongs to it.
WithItem(s, wire, read) ==
  LET depth == CASE wire = 3 -> s.depth + 1
                 [] wire = 4 /\ s.depth > 0 -> s.depth - 1
                 [] OTHER -> s.depth
  IN [read |-> read, depth |-> depth, more |-> read.ok /\ depth > 0]

Item(data, s, tag) ==
  IF tag.ok THEN WithItem(s, WireOf(tag), Skipped(data, tag.next, WireOf(tag)))
            ELSE WithItem(s, 0, Bad)

Onward(data, s) == IF s.more THEN Item(data, s, ReadVarint(data, s.read.next)) ELSE s

\* The unknown field at position i, of no more items than there are bytes.
skipMessage(data, i) ==
  LET loop[k \in 0 .. Len(data)] ==
        IF k = 0 THEN [read |-> [ok |-> TRUE, next |-> i], depth |-> 0, more |-> TRUE]
        ELSE Onward(data, loop[k - 1])
  IN loop[Len(data)].read

\* The field at position i, after its tag: its number, and what is read.
FieldAfter(data, i, tag) ==
  LET num  == NumOf(tag)
      wire == WireOf(tag) IN
  [num  |-> num,
   read |-> CASE num \in {1, 4} /\ wire = 2 -> ReadBytes(data, tag.next)
              [] num = 2 /\ wire = 2 -> ReadEntry(data, tag.next)
              [] num = 3 /\ wire = 0 -> ReadVarint(data, tag.next)
              [] num \notin 1 .. 4   -> skipMessage(data, i)
              [] OTHER               -> Bad]

FieldAt(data, i, tag) ==
  IF tag.ok THEN FieldAfter(data, i, tag) ELSE [num |-> 0, read |-> Bad]

ReadField(data, i) == FieldAt(data, i, ReadVarint(data, i))

WithEntry(h, key, value) ==
  [k \in DOMAIN h \cup {key} |-> IF k = key THEN value ELSE h[k]]

Store(m, num, read) ==
  CASE num = 1 -> [m EXCEPT !.Id = read.bytes]
    [] num = 2 -> [m EXCEPT !.Header = WithEntry(@, read.key, read.value)]
    [] num = 3 -> [m EXCEPT !.Retry = OrInto(@, read.groups)]
    [] num = 4 -> [m EXCEPT !.Body = read.bytes]
    [] OTHER   -> m

\* A field is stored if it can be read; of a Retry that is cut off, what was read.
Stored(s, f) ==
  [at  |-> IF f.read.ok THEN f.read.next ELSE s.at,
   ok  |-> f.read.ok,
   msg |-> IF f.read.ok \/ f.num = 3 THEN Store(s.msg, f.num, f.read) ELSE s.msg]

Round(data, s) == IF s.ok /\ s.at <= Len(data) THEN Stored(s, ReadField(data, s.at)) ELSE s

\* The message has the fields before the first one that cannot be read; there
\* are no more fields than bytes.
Unmarshal(data) ==
  LET loop[k \in 0 .. Len(data)] ==
        IF k = 0 THEN [at |-> 1, ok |-> TRUE, msg |-> EmptyMessage] ELSE Round(data, loop[k - 1])
      Result(s) == [ok |-> s.ok, msg |-> s.msg]
  IN Result(loop[Len(data)])

-----------------------------------------------------------------------------
(* Properties *)

Byte == 0 .. 255

\* From -8 * Huge to 8 * Huge - 1, without leaving the integers of TLC.
Int32 == -7 * Huge - Huge .. 7 * Huge + (Huge - 1)

\* The messages whose lengths are not huge.
IsMessage(m) ==
  /\ m = [Id |-> m.Id, Header |-> m.Header, Retry |-> m.Retry, Body |-> m.Body]
  /\ m.Id \in Seq(Byte) /\ Len(m.Id) < Huge
  /\ m.Header = [k \in DOMAIN m.Header |-> m.Header[k]] /\ IsFiniteSet(DOMAIN m.Header)
  /\ \A k \in DOMAIN m.Header : /\ k \in Seq(Byte) /\ m.Header[k] \in Seq(Byte)
                                /\ PairSize(k, m.Header[k]) < Huge
  /\ m.Retry \in Int32
  /\ m.Body # NoBody => m.Body \in Seq(Byte) /\ Len(m.Body) < Huge

ASSUME SamplesAssumption == Short \subseteq Samples /\ \A m \in Samples : IsMessage(m)

\* MarshalTo writes into a buffer of exactly Size bytes, for a negative Retry
\* too, whose varint is ten bytes long; one byte more would be a panic.
SizeIsLength == \A m \in Samples : Len(MarshalTo(m)) = Size(m)

\* What a subscriber reads is what was published, but for a body of no bytes,
\* which is not written.
RoundTrip ==
  \A m \in Samples :
    Unmarshal(MarshalTo(m)) =
      [ok |-> TRUE, msg |-> IF m.Body = <<>> THEN [m EXCEPT !.Body = NoBody] ELSE m]

\* A field of a later version of the message is passed over, wherever it is.
Unknown == {<<40, 200, 1>>, <<41>> \o [i \in 1 .. 8 |-> 10],
            <<42, 2, 34, 3>>, <<45, 10, 18, 24, 34>>, <<43, 48, 1, 51, 52, 44>>}

SkipsUnknown ==
  \A m \in Short, u \in Unknown : \A data \in {MarshalTo(m)} :
    \A longer \in {u \o data, data \o u} : Unmarshal(longer) = Unmarshal(data)

\* Of a message that is cut off only a cut between two fields goes unnoticed,
\* and as Body is the last field it is always missing.
CutIsNoticed ==
  \A m \in Short : \A data \in {MarshalTo(m)} : \A n \in 0 .. Len(data) - 1 :
    \A read \in {Unmarshal(SubSeq(data, 1, n))} :
      /\ read.ok => MarshalTo(read.msg) = SubSeq(data, 1, n)
      /\ read.msg.Body = NoBody

Encodes == SizeIsLength /\ RoundTrip /\ SkipsUnknown /\ CutIsNoticed
=============================================================================
