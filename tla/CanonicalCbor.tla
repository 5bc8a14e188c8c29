----------------------------- MODULE CanonicalCbor ----------------------------
(* cbor.py and cbor_decoder.py: the deterministic encoding of a document and  *)
(* the decoder that accepts nothing else.                                     *)
(*                                                                            *)
(* A document is a record whose one field tells its type:                     *)
(*   [simple |-> "null" | "true" | "false"]                                   *)
(*   [int |-> [neg, mag]]   n, or -1-n when neg; mag is n's big-endian bytes  *)
(*                          without leading zeros (exact at 2^64 and beyond)  *)
(*   [float |-> name]       a double; Widths says how it is written           *)
(*   [text |-> string], [bytes |-> bytes], [items |-> sequence]               *)
(*   [map |-> set of <<key, value>>]                                          *)
EXTENDS Integers, Sequences, FiniteSets, SequencesExt, FiniteSetsExt

CONSTANTS
    Utf8,       \* the UTF-8 bytes of every string
    Widths,     \* float -> a function from the widths (2, 4, 8) that hold it to its bytes
    MaxPayload  \* MAX_PAYLOAD_BYTES

(* The code's bound is 64 MiB; lengths here are exact below 2^24.             *)
ASSUME MaxPayloadAssumption == MaxPayload \in 0..(256 * 256 * 256 - 1)

Bytes == 0..255
Number(neg, mag) == [int |-> [neg |-> neg, mag |-> mag]]
Txt(s) == [text |-> s]
Null == [simple |-> "null"]

(* struct.pack and unpack: the float whose form of that width is these bytes. *)
FloatsOf(bytes) == {f \in DOMAIN Widths : Len(bytes) \in DOMAIN Widths[f]
                                          /\ Widths[f][Len(bytes)] = bytes}

(* The strings that bytes are the UTF-8 of.                                   *)
StringOf == [bytes \in {Utf8[t] : t \in DOMAIN Utf8} |-> CHOOSE t \in DOMAIN Utf8 : Utf8[t] = bytes]

Zeros(n) == [i \in 1..n |-> 0]
StripZeros(bytes) ==
    LET NonZero == {i \in DOMAIN bytes : bytes[i] # 0}
    IN  IF NonZero = {} THEN <<>>
        ELSE SubSeq(bytes, CHOOSE i \in NonZero : \A j \in NonZero : i <= j, Len(bytes))

(* Bytewise lexicographic order, a proper prefix first.                       *)
BytesLess(a, b) ==
    \/ IsStrictPrefix(a, b)
    \/ \E k \in 1..Len(a) :
          /\ k <= Len(b) /\ a[k] < b[k]
          /\ \A j \in 1..(k - 1) : a[j] = b[j]

(* A set in a strict order of its elements.                                   *)
Sorted(S, Less(_, _)) ==
    SortSeq(FoldSet(LAMBDA x, seq : Append(seq, x), <<>>, S), Less)

(* int.to_bytes and int.from_bytes for lengths. Any number of more than three *)
(* bytes is beyond every bound it is compared with.                           *)
ToBytes(n) == StripZeros(<<n \div 65536, (n \div 256) % 256, n % 256>>)
TooLarge == 256 * 256 * 256
FromBytes(mag) ==
    IF Len(mag) > 3 THEN TooLarge ELSE FoldLeft(LAMBDA n, b : 256 * n + b, 0, mag)

-------------------------------------------------------------------------------
(* The encoder *)

(* How many bytes follow the first byte of a head: the argument itself fits   *)
(* there below 24, else the narrowest of four widths that holds it.           *)
ShortestWidth(mag) ==
    CASE mag = <<>> \/ (Len(mag) = 1 /\ mag[1] < 24) -> 0
      [] Len(mag) = 1 /\ mag[1] >= 24 -> 1
      [] Len(mag) = 2 -> 2
      [] Len(mag) \in 3..4 -> 4
      [] Len(mag) \in 5..8 -> 8
Additional(width) == CASE width = 1 -> 24 [] width = 2 -> 25 [] width = 4 -> 26 [] width = 8 -> 27

HeadOfWidth(major, mag, width) ==
    IF width = 0 THEN <<32 * major + (IF mag = <<>> THEN 0 ELSE mag[1])>>
    ELSE <<32 * major + Additional(width)>> \o Zeros(width - Len(mag)) \o mag

(* _encode_head *)
EncodeHead(major, mag) == HeadOfWidth(major, mag, ShortestWidth(mag))
EncodeBytes(bytes) == EncodeHead(2, ToBytes(Len(bytes))) \o bytes

(* _encode_int: a bignum only beyond eight bytes.                             *)
EncodeInt(i) ==
    IF Len(i.mag) <= 8 THEN EncodeHead(IF i.neg THEN 1 ELSE 0, i.mag)
    ELSE <<IF i.neg THEN 195 ELSE 194>> \o EncodeBytes(i.mag)

Additionals == 2 :> 249 @@ 4 :> 250 @@ 8 :> 251
(* _encode_float: the narrowest of the widths that hold the value.            *)
EncodeFloat(f) ==
    LET w == CHOOSE v \in DOMAIN Widths[f] : \A u \in DOMAIN Widths[f] : v <= u
    IN  <<Additionals[w]>> \o Widths[f][w]

(* canonical_cbor *)
RECURSIVE CanonicalBytes(_)
(* _encode_map: the pairs in the order of their encoded keys.                 *)
EncodeMap(pairs) ==
    LET Encoded == {<<CanonicalBytes(p[1]), CanonicalBytes(p[2])>> : p \in pairs}
        sorted == Sorted(Encoded, LAMBDA p, q : BytesLess(p[1], q[1]))
    IN  EncodeHead(5, ToBytes(Len(sorted))) \o FlattenSeq([k \in DOMAIN sorted |-> sorted[k][1] \o sorted[k][2]])
CanonicalBytes(doc) ==
    CASE "simple" \in DOMAIN doc ->
            <<CASE doc.simple = "false" -> 244 [] doc.simple = "true" -> 245
                [] doc.simple = "null" -> 246>>
      [] "int" \in DOMAIN doc   -> EncodeInt(doc.int)
      [] "float" \in DOMAIN doc -> EncodeFloat(doc.float)
      [] "text" \in DOMAIN doc  -> EncodeHead(3, ToBytes(Len(Utf8[doc.text]))) \o Utf8[doc.text]
      [] "bytes" \in DOMAIN doc -> EncodeBytes(doc.bytes)
      [] "items" \in DOMAIN doc ->
            EncodeHead(4, ToBytes(Len(doc.items)))
              \o FlattenSeq([k \in DOMAIN doc.items |-> CanonicalBytes(doc.items[k])])
      [] "map" \in DOMAIN doc   -> EncodeMap(doc.map)

-------------------------------------------------------------------------------
(* The decoder. Each operator returns whether it succeeds, what it read and   *)
(* the index of the next byte; data[i + 1] is the byte at index i.            *)
Refused == [ok |-> FALSE, value |-> <<>>, next |-> 0]
Read(value, next) == [ok |-> TRUE, value |-> value, next |-> next]

(* Bug: an argument of eight bytes is taken whatever it is.                   *)
ReadArgumentLax(data, i, additional) ==
    LET width == CASE additional < 24 -> 0 [] additional = 24 -> 1 [] additional = 25 -> 2
                   [] additional = 26 -> 4 [] additional = 27 -> 8 [] OTHER -> 16
        mag == StripZeros(SubSeq(data, i + 2, i + 1 + width))
    IN  CASE width = 0 -> Read(IF additional = 0 THEN <<>> ELSE <<additional>>, i + 1)
          [] width \in {1, 2, 4, 8} /\ i + 1 + width <= Len(data) ->
                IF CASE width = 1 -> mag # <<>> /\ mag[1] >= 24
                     [] width \in {2, 4} -> Len(mag) > width \div 2
                     [] width = 8 -> TRUE
                THEN Read(mag, i + 1 + width) ELSE Refused
          [] OTHER -> Refused

(* _read_argument: a wider head than the value needs is refused.              *)
ReadArgument(data, i, additional) ==
    LET width == CASE additional < 24 -> 0 [] additional = 24 -> 1 [] additional = 25 -> 2
                   [] additional = 26 -> 4 [] additional = 27 -> 8 [] OTHER -> 16
        mag == StripZeros(SubSeq(data, i + 2, i + 1 + width))
    IN  CASE width = 0 -> Read(IF additional = 0 THEN <<>> ELSE <<additional>>, i + 1)
          [] width \in {1, 2, 4, 8} /\ i + 1 + width <= Len(data) ->
                IF CASE width = 1 -> mag # <<>> /\ mag[1] >= 24
                     [] width # 1 -> Len(mag) > width \div 2
                THEN Read(mag, i + 1 + width) ELSE Refused
          [] OTHER -> Refused

(* The n bytes of a string, within the bound and within the input.            *)
ReadString(data, argument) ==
    LET n == FromBytes(argument.value)
    IN  IF argument.ok /\ n <= MaxPayload /\ argument.next + n <= Len(data)
        THEN Read(SubSeq(data, argument.next + 1, argument.next + n), argument.next + n)
        ELSE Refused

(* Bytes that are not the UTF-8 of a string are refused.                      *)
ReadText(data, argument) ==
    LET s == ReadString(data, argument)
    IN  IF s.ok /\ s.value \in DOMAIN StringOf THEN Read(Txt(StringOf[s.value]), s.next)
        ELSE Refused

(* Booleans, null and floats. Every float of a form is taken, the narrower    *)
(* forms of its value notwithstanding.                                        *)
ReadSimple(data, i, additional) ==
    LET width == CASE additional = 25 -> 2 [] additional = 26 -> 4 [] additional = 27 -> 8 [] OTHER -> 0
        Fs == FloatsOf(SubSeq(data, i + 2, i + 1 + width))
    IN  CASE additional = 20 -> Read([simple |-> "false"], i + 1)
          [] additional = 21 -> Read([simple |-> "true"], i + 1)
          [] additional = 22 -> Read(Null, i + 1)
          [] width > 0 /\ i + 1 + width <= Len(data) /\ Fs # {} ->
                Read([float |-> CHOOSE f \in Fs : TRUE], i + 1 + width)
          [] OTHER -> Refused

RECURSIVE DecodeAt(_, _), ReadItems(_, _, _), ReadPairs(_, _, _, _)
(* The items of an array of n, from r on.                                     *)
ReadItems(data, n, r) ==
    IF n = 0 \/ ~r.ok THEN r
    ELSE LET item == DecodeAt(data, r.next)
         IN  IF item.ok THEN ReadItems(data, n - 1, Read(Append(r.value, item.value), item.next))
             ELSE Refused

(* The pairs of a map: the bytes of each key greater than those of the last,  *)
(* and no key twice.                                                          *)
ReadPairs(data, n, r, last) ==
    IF n = 0 \/ ~r.ok THEN r
    ELSE LET key == DecodeAt(data, r.next)
             value == DecodeAt(data, key.next)
             bytes == SubSeq(data, r.next + 1, key.next)
         IN  IF /\ key.ok /\ value.ok
                /\ BytesLess(last, bytes)
                /\ \A p \in r.value : p[1] # key.value
             THEN ReadPairs(data, n - 1, Read(r.value \union {<<key.value, value.value>>}, value.next), bytes)
             ELSE Refused

(* A bignum: no leading zero, and a value that needs one.                     *)
ReadBignum(data, tag) ==
    LET body == DecodeAt(data, tag.next)
    IN  IF /\ tag.ok /\ tag.value \in {<<2>>, <<3>>} /\ body.ok
           /\ "bytes" \in DOMAIN body.value
           /\ Len(body.value.bytes) > 8 /\ body.value.bytes[1] # 0
        THEN Read(Number(tag.value = <<3>>, body.value.bytes), body.next)
        ELSE Refused

(* _decode *)
DecodeAt(data, i) ==
    IF i >= Len(data) THEN Refused
    ELSE LET major == data[i + 1] \div 32
             additional == data[i + 1] % 32
             arg == ReadArgument(data, i, additional)
             n == FromBytes(arg.value)
             Wrap(r, doc) == IF r.ok THEN Read(doc, r.next) ELSE Refused
         IN  CASE major \in {0, 1} -> Wrap(arg, Number(major = 1, arg.value))
               [] major = 2 -> LET s == ReadString(data, arg) IN Wrap(s, [bytes |-> s.value])
               [] major = 3 -> ReadText(data, arg)
               [] major = 4 ->
                     IF ~arg.ok \/ n > Len(data) - arg.next THEN Refused
                     ELSE LET a == ReadItems(data, n, Read(<<>>, arg.next))
                          IN  Wrap(a, [items |-> a.value])
               [] major = 5 ->
                     IF ~arg.ok \/ 2 * n > Len(data) - arg.next THEN Refused
                     ELSE LET m == ReadPairs(data, n, Read({}, arg.next), <<>>)
                          IN  Wrap(m, [map |-> m.value])
               [] major = 6 -> ReadBignum(data, arg)
               [] major = 7 -> ReadSimple(data, i, additional)

(* decode_canonical_cbor: nothing may follow the value.                       *)
Decode(data) ==
    LET r == DecodeAt(data, 0) IN IF r.ok /\ r.next = Len(data) THEN r ELSE Refused
===============================================================================
