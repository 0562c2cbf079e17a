---------------------------- MODULE ProtobufCodec ----------------------------
(***************************************************************************)
(* What the generated message classes do: _InternalParse reads what a peer *)
(* has written, field by field, in any order, with repetitions, with       *)
(* fields of a newer version and with wrong types; _InternalSerialize      *)
(* writes a message, ByteSizeLong has reserved the room for it, MergeFrom  *)
(* adds one message to another.                                            *)
(*                                                                         *)
(* A frame is a sequence of fields, each a tag and a value.  A varint is   *)
(* <<hi, lo>>: the bits above the 32nd, and the lower 32.                  *)
(***************************************************************************)
EXTENDS Integers, Sequences, FiniteSets, SequencesExt, ProtoMessages

CONSTANT MaxFields      \* bound on the fields of a frame

ASSUME MaxFieldsAssumption == MaxFields \in Nat

VARIABLES
    type,       \* the class of the message that is read
    frame,      \* the fields read so far
    message     \* the message so far: <<>> once the parser has failed

vars == <<type, frame, message>>

MessageTypes == DOMAIN Class
Varint == (0..1) \X (0..1)
Zero == <<0, 0>>
BadUtf8 == "not utf-8"
Text == {"", "a", BadUtf8}
Kind(t, f) == Class[t][f]
IsVarint(kind) == kind \in {"uint32", "uint64", "bool", "enum", "optional uint32"}
WireType(kind) == IF IsVarint(kind) THEN 0 ELSE 2
Tag(number, kind) == 8 * number + WireType(kind)

\* Clear: the value of a field that is not set.
ClearedField(kind) ==
    CASE kind \in {"uint32", "uint64", "bool", "enum"} -> Zero
      [] kind \in {"string", "bytes"} -> ""
      [] kind = "map" -> {}
      [] OTHER -> <<>>

Clear(t) == [fields |-> [f \in DOMAIN Class[t] |-> ClearedField(Kind(t, f))], unknown |-> <<>>]

-----------------------------------------------------------------------------
(* Parsing.                                                                *)

\* Mutant: a uint32 or an enum keeps all bits of the varint.
ReadVarintWide(kind, v) == v

\* ReadVarint32 and ReadVarint64, and what their result is assigned to.
ReadVarint(kind, v) ==
    CASE kind = "uint64" -> v
      [] kind = "bool" -> IF v = Zero THEN Zero ELSE <<0, 1>>
      [] OTHER -> <<0, v[2]>>

RECURSIVE ParseField(_, _, _)

\* ParseFrom: the fields in their order.
Parse(t, m, fields) == FoldLeft(LAMBDA acc, e : ParseField(t, acc, e), m, fields)

\* Mutant: a message that comes a second time replaces the first.
ParseSubmessageAfresh(t, old, fields) == Parse(t, <<Clear(t)>>, fields)

\* ParseMessage into the message that is there.
ParseSubmessage(t, old, fields) == Parse(t, IF old = <<>> THEN <<Clear(t)>> ELSE old, fields)

\* One round of the loop of _InternalParse.  A tag of 0 ends it before the end of
\* the input; a tag that is not of the table goes to the unknown fields.
ParseField(t, m, e) ==
    LET known == {entry \in ParseTable[t] : entry[1] = e.tag}
        f == (CHOOSE entry \in known : TRUE)[2]
        kind == Kind(t, f)
        set(v) == <<[m[1] EXCEPT !.fields[f] = v]>>
    IN CASE m = <<>> \/ e.tag = 0 -> <<>>
         [] known = {} -> <<[m[1] EXCEPT !.unknown = Append(@, e)]>>
         [] kind = "optional uint32" -> set(<<ReadVarint(kind, e.val)>>)
         [] IsVarint(kind) -> set(ReadVarint(kind, e.val))
         [] kind = "string" -> IF e.val = BadUtf8 THEN <<>> ELSE set(e.val)
         [] kind = "bytes" -> set(e.val)
         [] kind = "map" -> set({p \in m[1].fields[f] : p[1] # e.val[1]} \cup {e.val})
         [] OTHER -> LET sub == ParseSubmessage(kind, m[1].fields[f], e.val)
                     IN IF sub = <<>> THEN <<>> ELSE set(sub)

-----------------------------------------------------------------------------
(* Serializing, sizes and merging.                                         *)

RECURSIVE Serialize(_, _)

\* The occurrences of a field on the wire: none of one that has its default.
FieldOnWire(number, kind, v) ==
    LET values == CASE v = ClearedField(kind) -> <<>>
                    [] kind = "map" -> SetToSeq(v)
                    [] kind = "optional uint32" -> v
                    [] kind \in MessageTypes -> <<Serialize(kind, v[1])>>
                    [] OTHER -> <<v>>
    IN [i \in DOMAIN values |-> [tag |-> Tag(number, kind), val |-> values[i]]]

\* Mutant: what the parser did not know is left out.
SerializeKnown(t, m) ==
    LET table == SerializeTable[t] IN
    FlattenSeq([i \in DOMAIN table |->
        FieldOnWire(table[i][1], Kind(t, table[i][2]), m.fields[table[i][2]])])

\* _InternalSerialize: the fields of the table, then the unknown ones.
Serialize(t, m) ==
    LET table == SerializeTable[t] IN
    FlattenSeq([i \in DOMAIN table |->
        FieldOnWire(table[i][1], Kind(t, table[i][2]), m.fields[table[i][2]])]) \o m.unknown

\* The size of a value on the wire, with its length where it has one.
VarintSize(v) == IF v[1] = 0 THEN 1 ELSE 5
TextSize(v) == 1 + Len(v)
MapEntrySize(p) == 1 + (1 + TextSize(p[1])) + (1 + TextSize(p[2]))

RECURSIVE WireSize(_, _)

\* The bytes that fields take on the wire; unknown fields are varints here.
WireSize(t, fields) ==
    LET kind(e) == LET known == {entry \in ParseTable[t] : entry[1] = e.tag}
                   IN IF known = {} THEN "uint64" ELSE Kind(t, (CHOOSE k \in known : TRUE)[2])
        size(e) == CASE IsVarint(kind(e)) -> VarintSize(e.val)
                     [] kind(e) \in {"string", "bytes"} -> TextSize(e.val)
                     [] kind(e) = "map" -> MapEntrySize(e.val)
                     [] OTHER -> 1 + WireSize(kind(e), e.val)
    IN FoldLeft(LAMBDA sum, e : sum + 1 + size(e), 0, fields)

RECURSIVE ByteSizeLong(_, _)

\* Mutant: a message that is there and empty is not counted.
SubmessageSizeIfAny(t, v) ==
    LET size == ByteSizeLong(t, v[1]) IN IF size = 0 THEN 0 ELSE 2 + size

SubmessageSize(t, v) == 2 + ByteSizeLong(t, v[1])

\* ByteSizeLong: the room for the message, from the values of its fields.
ByteSizeLong(t, m) ==
    LET size(f) == LET v == m.fields[f]  kind == Kind(t, f) IN
                   CASE v = ClearedField(kind) -> 0
                     [] kind = "optional uint32" -> 1 + VarintSize(v[1])
                     [] IsVarint(kind) -> 1 + VarintSize(v)
                     [] kind \in {"string", "bytes"} -> 1 + TextSize(v)
                     [] kind = "map" -> MapThenSumSet(LAMBDA p : 1 + MapEntrySize(p), v)
                     [] OTHER -> SubmessageSize(kind, v)
    IN MapThenSumSet(size, DOMAIN m.fields) + WireSize(t, m.unknown)

RECURSIVE MergeFrom(_, _, _)

\* Mutant: the field is taken over even when it is not set.
MergeFieldAlways(kind, to, from) == from

\* A field of the other message counts when it is set.
MergeField(kind, to, from) ==
    CASE from = ClearedField(kind) -> to
      [] kind = "map" -> {p \in to : \A q \in from : q[1] # p[1]} \cup from
      [] kind \in MessageTypes /\ to # <<>> -> <<MergeFrom(kind, to[1], from[1])>>
      [] OTHER -> from

\* MergeImpl.
MergeFrom(t, to, from) ==
    [fields |-> [f \in DOMAIN to.fields |->
                    MergeField(Kind(t, f), to.fields[f], from.fields[f])],
     unknown |-> to.unknown \o from.unknown]

-----------------------------------------------------------------------------
(* A peer writes, the parser reads.                                        *)

\* What a peer can put on the wire for a field of a message without submessages.
LeafValues(kind) ==
    CASE IsVarint(kind) -> Varint
      [] kind \in {"string", "bytes"} -> Text
      [] kind = "map" -> {"k", "l"} \X {"", "a"}

\* A field that a newer version has, a known number with another type, the end.
Unusual == {[tag |-> 120, val |-> <<0, 1>>], [tag |-> 13, val |-> <<0, 1>>],
            [tag |-> 0, val |-> Zero]}

LeafFields(t) ==
    UNION {{[tag |-> entry[1], val |-> v] : v \in LeafValues(Kind(t, entry[2]))} :
              entry \in ParseTable[t]} \cup Unusual

Values(kind) ==
    IF kind \in MessageTypes THEN {<<>>} \cup {<<e>> : e \in LeafFields(kind)}
    ELSE LeafValues(kind)

PeerFields(t) ==
    UNION {{[tag |-> entry[1], val |-> v] : v \in Values(Kind(t, entry[2]))} :
              entry \in ParseTable[t]} \cup Unusual

Init ==
    /\ type \in MessageTypes
    /\ frame = <<>>
    /\ message = <<Clear(type)>>

ReadField(e) ==
    /\ message # <<>> /\ Len(frame) < MaxFields
    /\ frame' = Append(frame, e)
    /\ message' = ParseField(type, message, e)
    /\ UNCHANGED type

Next == \E e \in PeerFields(type) : ReadField(e)

Spec == Init /\ [][Next]_vars

-----------------------------------------------------------------------------
(* Properties.                                                             *)

FieldOK(kind, v) ==
    CASE kind = "uint64" -> v \in Varint
      [] kind \in {"uint32", "enum", "bool"} -> v \in {0} \X (0..1)
      [] kind = "optional uint32" -> v = <<>> \/ v[1] \in {0} \X (0..1)
      [] kind = "string" -> v \in Text \ {BadUtf8}
      [] kind = "bytes" -> v \in Text
      [] kind = "map" -> \A p, q \in v : p[1] = q[1] => p = q
      [] OTHER -> Len(v) <= 1

\* A parsed message fits its class: the width of its numbers, one value for each
\* key of a map, text that is UTF-8 (_InternalParse).
CodecTypeOK ==
    /\ type \in MessageTypes /\ Len(frame) <= MaxFields
    /\ message # <<>> =>
          \A f \in DOMAIN Class[type] : FieldOK(Kind(type, f), message[1].fields[f])

\* The occurrences of a field in the frame.
Occurrences(f) == SelectSeq(frame, LAMBDA e : <<e.tag, f>> \in ParseTable[type])

\* The order of different fields does not matter; of several values of a field
\* the last one counts, and of several submessages all that was said
\* (_InternalParse: a case sets a scalar and parses into the submessage there is).
LastCounts ==
    message # <<>> => \A f \in DOMAIN Class[type] :
       LET all == Occurrences(f)  kind == Kind(type, f)  v == message[1].fields[f] IN
       CASE all = <<>> -> v = ClearedField(kind)
         [] kind = "map" ->
               v = {all[i].val : i \in {i \in DOMAIN all :
                       \A j \in (i + 1)..Len(all) : all[j].val[1] # all[i].val[1]}}
         [] kind \in MessageTypes ->
               v = Parse(kind, <<Clear(kind)>>, FlattenSeq([i \in DOMAIN all |-> all[i].val]))
         [] kind = "optional uint32" -> v = <<ReadVarint(kind, Last(all).val)>>
         [] IsVarint(kind) -> v = ReadVarint(kind, Last(all).val)
         [] OTHER -> v = Last(all).val

\* A message that is read and written again, as the game does with the stored
\* player data and with what it forwards, is the same message, with the fields of
\* a newer version in it.
RoundTrip ==
    message # <<>> =>
       Parse(type, <<Clear(type)>>, Serialize(type, message[1])) = message

\* MergeFrom is what the parser does with a second message behind the first.
MergeIsParse ==
    message # <<>> => \A e \in PeerFields(type) :
       LET other == Parse(type, <<Clear(type)>>, <<e>>) IN
       other # <<>> => <<MergeFrom(type, message[1], other[1])>>
                          = Parse(type, message, Serialize(type, other[1]))

\* ByteSizeLong reserves exactly what _InternalSerialize writes.
SizeIsExact ==
    message # <<>> =>
       ByteSizeLong(type, message[1]) = WireSize(type, Serialize(type, message[1]))
=============================================================================
