------------------------------- MODULE Serde --------------------------------
(***************************************************************************)
(* The serializers (runtime/serde/serdeimpl.rs): how a value becomes       *)
(* bytes, is taken over the wire, whole or cut short, and is read back     *)
(* under the same limits.                                                  *)
(*                                                                         *)
(* A serde is described by a record: its type, the serdes of its elements  *)
(* and its limits.  A byte has Radix values, a size frame SizeBytes bytes, *)
(* a wide integer WideBytes.  Reals are their bits.                        *)
(***************************************************************************)
EXTENDS Integers, SequencesExt

CONSTANTS Radix, SizeBytes, WideBytes,
          Serdes,       \* the serdes looked at
          Strings,      \* the sequences of bytes used as values
          None

VARIABLES serde, value,
          wire,         \* what was serialized: None, an error, or bytes
          whole,        \* the wire has lost nothing
          got           \* what deserialize returned

vars == <<serde, value, wire, whole, got>>

Bytes == Seq(0 .. Radix - 1)

Ok(v) == [ok |-> TRUE, value |-> v]
Err == [ok |-> FALSE]

\* to_be_bytes and from_be_bytes.
Digits(n, width) == [i \in 1 .. width |-> (n \div Radix ^ (width - i)) % Radix]
Number(bytes) == FoldLeft(LAMBDA n, b : n * Radix + b, 0, bytes)

Size(n) == Digits(n, SizeBytes)
MaxSize == Radix ^ SizeBytes - 1

\* SerdeLimits::default.
NoLimits == [max_string_bytes |-> MaxSize, max_bytes |-> MaxSize,
             max_container_elements |-> MaxSize, max_total_bytes |-> MaxSize]

\* The limits a serde was made with.
LimitsOf(s) == IF "limits" \in DOMAIN s THEN s.limits ELSE NoLimits
-----------------------------------------------------------------------------
(* The reader: what is left is behind offset, and got is what the last     *)
(* read returned.                                                          *)

Reader(data, max) == [data |-> data, offset |-> 0, ok |-> Len(data) <= max, got |-> <<>>]

Failed(r) == [r EXCEPT !.ok = FALSE]

\* Mutant: what is missing is read as zero.
ReadShort(r, size) ==
  IF ~r.ok THEN r
  ELSE [r EXCEPT !.offset = r.offset + size,
                 !.got = [i \in 1 .. size |-> IF r.offset + i > Len(r.data) THEN 0 ELSE r.data[r.offset + i]]]

\* A size that overflows is past the end as well.
Read(r, size) ==
  IF ~r.ok \/ r.offset + size > Len(r.data) THEN Failed(r)
  ELSE [r EXCEPT !.offset = r.offset + size, !.got = SubSeq(r.data, r.offset + 1, r.offset + size)]

ReadSize(r, maximum) ==
  LET s == Read(r, SizeBytes) IN
  IF ~s.ok \/ Number(s.got) > maximum THEN Failed(s) ELSE [s EXCEPT !.got = Number(s.got)]

\* A size, and so many bytes: the frame of a string, a key, an element.
ReadFrame(r, maximum) ==
  LET s == ReadSize(r, maximum) IN IF s.ok THEN Read(s, s.got) ELSE s

Returned(r, F(_)) == IF r.ok THEN F(r.got) ELSE Err
Then(d, F(_)) == IF d.ok THEN F(d.value) ELSE Err
Frame(bytes) == Size(Len(bytes)) \o bytes
-----------------------------------------------------------------------------
(* The serdes of one value each.                                           *)

Width(t) == IF t \in {"bool", "int8", "uint8"} THEN 1 ELSE WideBytes
Span(t) == Radix ^ Width(t)

\* The mask of signed_serde: the sign bit, and none for int8.
Mask(t) == IF t = "int8" THEN 0 ELSE Span(t) \div 2

\* The xor of the highest bit is an addition that wraps.
EncodeSigned(t, v) == Digits((v + Span(t) + Mask(t)) % Span(t), Width(t))
DecodeSigned(t, bytes) ==
  LET n == (Number(bytes) + Mask(t)) % Span(t) IN IF n >= Span(t) \div 2 THEN n - Span(t) ELSE n

EncodeBool(v) == <<IF v THEN 1 ELSE 0>>

\* A rune is a scalar: some numbers are none.
IsScalar(n) == n # Span("rune") - 1

\* from_bits: of a real only its bits matter.
Float(bytes) == Number(bytes)

\* As UTF-8 goes, no string has the highest byte.
IsUtf8(bytes) == \A i \in DOMAIN bytes : bytes[i] # Radix - 1

DecodeFixed(s, bytes) ==
  Returned(Read(Reader(bytes, MaxSize), Width(s.type)), LAMBDA b :
    CASE s.type = "bool" -> Ok(b # <<0>>)
      [] s.type \in {"int8", "int16"} -> Ok(DecodeSigned(s.type, b))
      [] s.type = "rune" -> IF IsScalar(Number(b)) THEN Ok(Number(b)) ELSE Err
      [] s.type = "float" -> Ok(Float(b))
      [] s.type \in {"uint8", "uint16"} -> Ok(Number(b)))

EncodeString(s, v) == IF Len(v) > LimitsOf(s).max_string_bytes THEN Err ELSE Ok(Frame(v))
DecodeString(s, bytes) ==
  Returned(ReadFrame(Reader(bytes, LimitsOf(s).max_total_bytes), LimitsOf(s).max_string_bytes),
           LAMBDA b : IF IsUtf8(b) THEN Ok(b) ELSE Err)

EncodeBytes(s, v) == IF Len(v) > LimitsOf(s).max_bytes THEN Err ELSE Ok(Frame(v))
DecodeBytes(s, bytes) ==
  Returned(ReadFrame(Reader(bytes, LimitsOf(s).max_total_bytes), LimitsOf(s).max_bytes), LAMBDA b : Ok(b))
-----------------------------------------------------------------------------
(* Containers, of whatever their elements are.                             *)

Joined(count, parts) ==
  IF \A i \in DOMAIN parts : parts[i].ok
    THEN Ok(Size(count) \o FlattenSeq([i \in DOMAIN parts |-> parts[i].value])) ELSE Err

\* An element of an array: of a size the type says, or in a frame.
ReadElement(r, framed, size) == IF framed THEN ReadFrame(r, size) ELSE Read(r, size)

\* count times: read an element, and decode it.
Elements(r, count, framed, size, decoded) ==
  LET Put(acc, q, d) ==
        IF d.ok THEN [ok |-> TRUE, reader |-> q, value |-> Append(acc.value, d.value)]
        ELSE [acc EXCEPT !.ok = FALSE]
      Take(acc, q) == Put(acc, q, Returned(q, LAMBDA b : decoded[b]))
      Add(acc, i) == IF acc.ok THEN Take(acc, ReadElement(acc.reader, framed, size)) ELSE acc
  IN Then(FoldLeft(Add, [ok |-> TRUE, reader |-> r, value |-> <<>>], [i \in 1 .. count |-> i]),
          LAMBDA v : Ok(v))

RECURSIVE Encode(_, _)
RECURSIVE Decode(_, _)

\* Elements without frames: each must have the size the type says.
EncodeFixedSizeArray(s, v) ==
  IF Len(v) > LimitsOf(s).max_container_elements THEN Err
  ELSE Joined(Len(v), [i \in DOMAIN v |->
         LET e == Encode(s.of, v[i]) IN IF e.ok /\ Len(e.value) # Width(s.of.type) THEN Err ELSE e])

DecodeFixedSizeArray(s, bytes, decoded) ==
  LET r == ReadSize(Reader(bytes, LimitsOf(s).max_total_bytes), LimitsOf(s).max_container_elements) IN
  IF ~r.ok THEN Err
  ELSE IF r.got * Width(s.of.type) > MaxSize \/ r.got * Width(s.of.type) > Len(bytes) - r.offset THEN Err
  ELSE Elements(r, r.got, FALSE, Width(s.of.type), decoded)

\* The strings have their own frames and the array's limits.
EncodeStringArray(s, v) ==
  IF Len(v) > LimitsOf(s).max_container_elements THEN Err
  ELSE Joined(Len(v), [i \in DOMAIN v |-> EncodeString(s, v[i])])

DecodeStringArray(s, bytes) ==
  LET r == ReadSize(Reader(bytes, LimitsOf(s).max_total_bytes), LimitsOf(s).max_container_elements) IN
  IF ~r.ok THEN Err
  ELSE Elements(r, r.got, TRUE, LimitsOf(s).max_string_bytes,
                [b \in Bytes |-> IF IsUtf8(b) THEN Ok(b) ELSE Err])

EncodeArray(s, v) ==
  IF Len(v) > LimitsOf(s).max_container_elements THEN Err
  ELSE Joined(Len(v), [i \in DOMAIN v |->
         LET e == Encode(s.of, v[i]) IN IF e.ok THEN Ok(Frame(e.value)) ELSE Err])

DecodeArray(s, bytes, decoded) ==
  LET r == ReadSize(Reader(bytes, LimitsOf(s).max_total_bytes), LimitsOf(s).max_container_elements) IN
  IF ~r.ok THEN Err
  ELSE Elements(r, r.got, TRUE, Len(bytes), decoded)

\* Two frames, one after the other.
EncodePair(first, second) ==
  IF first.ok /\ second.ok THEN Ok(Frame(first.value) \o Frame(second.value)) ELSE Err

DecodeKeyValue(bytes, asKey, asValue) ==
  LET Second(k, key) ==
        Then(Returned(ReadFrame(k, Len(bytes)), LAMBDA b : asValue[b]), LAMBDA val : Ok([key |-> key, value |-> val]))
      First(k) == Then(Returned(k, LAMBDA b : asKey[b]), LAMBDA key : Second(k, key))
  IN First(ReadFrame(Reader(bytes, MaxSize), Len(bytes)))

EncodeKeyValue(s, v) == EncodePair(Encode(s.key, v.key), Encode(s.value, v.value))

\* The keys and the values of a map, in the order the HashMap is iterated in: a
\* map to be serialized is a sequence of entries.
EncodeMap(s, v) ==
  EncodePair(Encode(s.key, [i \in DOMAIN v |-> v[i].key]), Encode(s.value, [i \in DOMAIN v |-> v[i].value]))

\* Of a key that comes twice the last value counts.
MapOf(keys, values) ==
  IF Len(keys) # Len(values) THEN Err
  ELSE Ok([k \in Range(keys) |-> values[Max({i \in DOMAIN keys : keys[i] = k})]])

DecodeMap(bytes, asKey, asValue) ==
  Then(DecodeKeyValue(bytes, asKey, asValue), LAMBDA p : MapOf(p.key, p.value))

\* The stub of a type without serde.
Stub == Err

Encode(s, v) ==
  CASE s.type = "bool" -> Ok(EncodeBool(v))
    [] s.type \in {"int8", "int16"} -> Ok(EncodeSigned(s.type, v))
    [] s.type \in {"uint8", "uint16", "rune", "float"} -> Ok(Digits(v, Width(s.type)))
    [] s.type = "string" -> EncodeString(s, v)
    [] s.type = "bytes" -> EncodeBytes(s, v)
    [] s.type = "fixed array" -> EncodeFixedSizeArray(s, v)
    [] s.type = "string array" -> EncodeStringArray(s, v)
    [] s.type = "array" -> EncodeArray(s, v)
    [] s.type = "map" -> EncodeMap(s, v)
    [] s.type = "key value" -> EncodeKeyValue(s, v)
    [] s.type = "stub" -> Stub

Decode(s, bytes) ==
  LET decoded == [b \in Bytes |-> Decode(s.of, b)]
      asKey == [b \in Bytes |-> Decode(s.key, b)]
      asValue == [b \in Bytes |-> Decode(s.value, b)]
  IN
  CASE s.type = "string" -> DecodeString(s, bytes)
    [] s.type = "bytes" -> DecodeBytes(s, bytes)
    [] s.type = "fixed array" -> DecodeFixedSizeArray(s, bytes, decoded)
    [] s.type = "string array" -> DecodeStringArray(s, bytes)
    [] s.type = "array" -> DecodeArray(s, bytes, decoded)
    [] s.type = "map" -> DecodeMap(bytes, asKey, asValue)
    [] s.type = "key value" -> DecodeKeyValue(bytes, asKey, asValue)
    [] s.type = "stub" -> Stub
    [] OTHER -> DecodeFixed(s, bytes)
-----------------------------------------------------------------------------
(* A value on its way.                                                     *)

Few(S) == {<<>>} \cup {<<x>> : x \in S} \cup {<<x, y>> : x, y \in S}

RECURSIVE Values(_)
Values(s) ==
  CASE s.type = "bool" -> BOOLEAN
    [] s.type \in {"int8", "int16"} -> -(Span(s.type) \div 2) .. Span(s.type) \div 2 - 1
    [] s.type \in {"uint8", "uint16", "float"} -> 0 .. Span(s.type) - 1
    [] s.type = "rune" -> {n \in 0 .. Span(s.type) - 1 : IsScalar(n)}
    [] s.type = "string" -> {b \in Strings : IsUtf8(b)}
    [] s.type = "bytes" -> Strings
    [] s.type = "string array" -> Few({b \in Strings : IsUtf8(b)})
    [] s.type \in {"array", "fixed array"} -> Few(Values(s.of))
    [] s.type = "key value" -> [key : Values(s.key), value : Values(s.value)]
    [] s.type = "map" -> {m \in Few([key : Values(s.key.of), value : Values(s.value.of)]) :
                            \A i, j \in DOMAIN m : m[i].key = m[j].key => i = j}
    [] s.type = "stub" -> {None}

\* The value a receiver should have: of a map the order is lost.
Meant(s, v) ==
  IF s.type # "map" THEN v
  ELSE [k \in {v[i].key : i \in DOMAIN v} |-> (CHOOSE e \in Range(v) : e.key = k).value]

Init ==
  /\ serde \in Serdes /\ value \in Values(serde)
  /\ wire = None /\ whole = TRUE /\ got = None

\* serialize: one frame.
Serialize ==
  /\ wire = None
  /\ LET e == Encode(serde, value) IN wire' = IF e.ok THEN <<e.value>> ELSE <<>>
  /\ UNCHANGED <<serde, value, whole, got>>

\* The key and the value of a record of a stream of pairs.
KeyedRecord(s, v) == <<Encode(s.key, v.key), Encode(s.value, v.value)>>

\* serialize_key and serialize_value: other streams have no keys.
SerializeKey ==
  /\ wire = None
  /\ LET r == IF serde.type = "key value" THEN KeyedRecord(serde, value)
              ELSE <<Ok(None), Encode(serde, value)>>
     IN wire' = IF r[1].ok /\ r[2].ok THEN <<r[1].value, r[2].value>> ELSE <<>>
  /\ UNCHANGED <<serde, value, whole, got>>

\* What arrives is cut short, or a record without its key.
Cut ==
  /\ wire # None /\ wire # <<>> /\ whole /\ got = None
  /\ \E i \in DOMAIN wire :
       /\ wire[i] # None
       /\ \/ \E n \in 0 .. Len(wire[i]) - 1 : wire' = [wire EXCEPT ![i] = SubSeq(wire[i], 1, n)]
          \/ i < Len(wire) /\ wire' = [wire EXCEPT ![i] = None]
  /\ whole' = FALSE
  /\ UNCHANGED <<serde, value, got>>

\* deserialize_key_value: only a serde of pairs has a use for the key.
DecodeRecord(s, key, bytes) ==
  IF s.type # "key value" THEN Decode(s, bytes)
  ELSE IF key = None THEN Err
  ELSE Then(Decode(s.key, key), LAMBDA k :
         Then(Decode(s.value, bytes), LAMBDA v : Ok([key |-> k, value |-> v])))

Deserialize ==
  /\ wire # None /\ wire # <<>> /\ got = None
  /\ got' = IF Len(wire) = 1 THEN Decode(serde, wire[1]) ELSE DecodeRecord(serde, wire[1], wire[2])
  /\ UNCHANGED <<serde, value, wire, whole>>

Next == Serialize \/ SerializeKey \/ Cut \/ Deserialize

Spec == Init /\ [][Next]_vars
-----------------------------------------------------------------------------
(* Properties.                                                             *)

\* A limit on the whole input is for deserialize alone.
TooLong(s, bytes) == Len(bytes) > LimitsOf(s).max_total_bytes

\* What serialize accepts under some limits, deserialize accepts under the same
\* and gives back, through every nesting of containers; and of what was cut
\* short, wherever, nothing is ever taken for a value.
DecodesExactly ==
  got # None =>
    IF whole THEN got = Ok(Meant(serde, value)) \/ (TooLong(serde, wire[Len(wire)]) /\ ~got.ok)
    ELSE ~got.ok

Less(b, c) ==
  \E i \in 1 .. Len(b) : b[i] < c[i] /\ \A j \in 1 .. i - 1 : b[j] = c[j]

\* "Wider signed integers use the sign-bit XOR encoding so their lexicographic
\* byte order is sortable": the bytes of two numbers are ordered as they are, for
\* every integer but int8.
EncodingSorts ==
  serde.type \in {"int16", "uint16", "uint8"} =>
    \A w \in Values(serde) : value < w <=> Less(Encode(serde, value).value, Encode(serde, w).value)
=============================================================================
