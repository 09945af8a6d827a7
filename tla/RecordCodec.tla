----------------------------- MODULE RecordCodec -----------------------------
(***************************************************************************)
(* The bytes of a payload record (pebblestore/payload_ops.go).  The fields *)
(* follow each other, and each is found by the lengths of the ones before. *)
(* A record is [key, contentType, str, num, payload].                      *)
(*                                                                         *)
(* Attributes are marshalled by encoding/json, which is external: JSON     *)
(* gives the text of attribute maps, and unmarshalling a text gives a map  *)
(* of valid UTF-8 with that text.  Marshalling replaces what is not UTF-8. *)
(***************************************************************************)
EXTENDS KeyEncoding

CONSTANTS
    KeyWidth,     \* 32: bytes of an entity key
    JSONWidth,    \* 4: bytes of the lengths of the attributes
    JSON,         \* JSON[a]: the text of the attribute map a
    UTF8          \* the attribute maps of valid UTF-8

ASSUME CodecAssumption ==
    /\ KeyWidth \in Nat /\ JSONWidth \in Nat
    /\ UTF8 \subseteq DOMAIN JSON
    /\ \A a \in DOMAIN JSON : JSON[a] \in Bytes
    /\ \A a, b \in UTF8 : JSON[a] = JSON[b] => a = b

Malformed == [error |-> "malformed payload value"]

(* A field with its length in front.                                       *)
Field(s, width) == BigEndian(Len(s), width) \o s

(* Slip: the length of the numeric attributes is that of the string ones.  *)
encodePayloadValueCopied(r) ==
    r.key \o Field(r.contentType, LenWidth)
          \o Field(JSON[r.str], JSONWidth)
          \o BigEndian(Len(JSON[r.str]), JSONWidth) \o JSON[r.num] \o r.payload

encodePayloadValue(r) ==
    r.key \o Field(r.contentType, LenWidth)
          \o Field(JSON[r.str], JSONWidth)
          \o Field(JSON[r.num], JSONWidth) \o r.payload

(* Where the field that starts at an offset, with a length of `width`      *)
(* bytes, has its own bytes, and whether they are all there.               *)
FieldEnd(data, offset, width) ==
    offset + width + Number(SubSeq(data, offset + 1, offset + width))
HasField(data, offset, width) ==
    offset + width <= Len(data) /\ FieldEnd(data, offset, width) <= Len(data)
FieldAt(data, offset, width) ==
    SubSeq(data, offset + width + 1, FieldEnd(data, offset, width))

Unmarshals(text) == \E a \in UTF8 : JSON[a] = text
Unmarshal(text) == CHOOSE a \in UTF8 : JSON[a] = text

StrStart(data) == FieldEnd(data, KeyWidth, LenWidth)
NumStart(data) == FieldEnd(data, StrStart(data), JSONWidth)
PayloadStart(data) == FieldEnd(data, NumStart(data), JSONWidth)

(* No length leads out of the data, and the attributes are JSON.           *)
Decodes(data) ==
    /\ Len(data) >= KeyWidth + LenWidth
    /\ HasField(data, KeyWidth, LenWidth)
    /\ HasField(data, StrStart(data), JSONWidth)
    /\ Unmarshals(FieldAt(data, StrStart(data), JSONWidth))
    /\ HasField(data, NumStart(data), JSONWidth)
    /\ Unmarshals(FieldAt(data, NumStart(data), JSONWidth))

decodePayloadValue(data) ==
    IF Decodes(data)
    THEN [key         |-> SubSeq(data, 1, KeyWidth),
          contentType |-> FieldAt(data, KeyWidth, LenWidth),
          str         |-> Unmarshal(FieldAt(data, StrStart(data), JSONWidth)),
          num         |-> Unmarshal(FieldAt(data, NumStart(data), JSONWidth)),
          payload     |-> SubSeq(data, PayloadStart(data) + 1, Len(data))]
    ELSE Malformed
=============================================================================
