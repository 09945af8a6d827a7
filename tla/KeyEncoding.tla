----------------------------- MODULE KeyEncoding -----------------------------
(***************************************************************************)
(* The byte layout of the database's keys (pebblestore/encoding.go) and    *)
(* the bounds of range scans over them.                                    *)
(*                                                                         *)
(* The code's bytes are base 256, its lengths 2 bytes wide, its numbers 8, *)
(* its entity keys 32.  Arithmetic on the 16-bit lengths wraps.            *)
(***************************************************************************)
EXTENDS Naturals, Sequences

CONSTANTS
    Base,       \* 256
    LenWidth,   \* 2
    NumWidth    \* 8

ASSUME EncodingAssumption ==
    /\ Base \in Nat /\ LenWidth \in Nat /\ NumWidth \in Nat
    /\ Base > 33

Byte == 0 .. Base - 1
Bytes == Seq(Byte)

(* The keys of the bitmap index: <<kind, name, value>>, of strings and of  *)
(* numbers.                                                                *)
IndexKeys == ({"str"} \X Bytes \X Bytes) \cup ({"num"} \X Bytes \X Nat)

-----------------------------------------------------------------------------
(* How many numbers there are of that many bytes.                          *)
Capacity(width) ==
    LET power[i \in 0 .. width] == IF i = 0 THEN 1 ELSE power[i - 1] * Base
    IN  power[width]

(* Big-endian numbers; a number that does not fit loses its high bytes.    *)
(* shifted[i] is n without its i low bytes.                                *)
BigEndian(n, width) ==
    LET shifted[i \in 0 .. width] == IF i = 0 THEN n ELSE shifted[i - 1] \div Base
    IN  [i \in 1 .. width |-> shifted[width - i] % Base]

Number(bytes) ==
    LET value[i \in 0 .. Len(bytes)] ==
            IF i = 0 THEN 0 ELSE value[i - 1] * Base + bytes[i]
    IN  value[Len(bytes)]

Uint16(n) == n % Capacity(LenWidth)

prefixLastBlock     == 1
prefixPayload       == 2
prefixEntityCurrent == 3
prefixIDCounter     == 6
prefixEntityCount   == 7
prefixStringBitmap  == 16
prefixNumericBitmap == 32

lastBlockKey == <<prefixLastBlock>>
(* Slip: the counter is filed among the entities.                          *)
idCounterKeyShared == <<prefixEntityCurrent>>
idCounterKey == <<prefixIDCounter>>
entityCountKey == <<prefixEntityCount>>
payloadKey(id) == <<prefixPayload>> \o BigEndian(id, NumWidth)
entityCurrentKey(k) == <<prefixEntityCurrent>> \o k

NamePrefix(prefix, name) == <<prefix>> \o BigEndian(Len(name), LenWidth) \o name
stringBitmapNamePrefix(name) == NamePrefix(prefixStringBitmap, name)
numericBitmapNamePrefix(name) == NamePrefix(prefixNumericBitmap, name)

(* Slip: name and value follow each other without their lengths.           *)
stringBitmapKeyBare(name, value) == <<prefixStringBitmap>> \o name \o value
stringBitmapKey(name, value) ==
    stringBitmapNamePrefix(name) \o BigEndian(Len(value), LenWidth) \o value
numericBitmapKey(name, value) ==
    numericBitmapNamePrefix(name) \o BigEndian(value, NumWidth)

BitmapKey(p) == IF p[1] = "str" THEN stringBitmapKey(p[2], p[3])
                                ELSE numericBitmapKey(p[2], p[3])

(* Lengths and numbers that do not lose high bytes in the key.             *)
NameFits(p) == Len(p[2]) < Capacity(LenWidth)
ValueFits(p) == p[1] = "str" => Len(p[3]) < Capacity(LenWidth)
NumberFits(p) == p[1] = "num" => p[3] < Capacity(NumWidth)

-----------------------------------------------------------------------------
(* Decoding.  key[from:to] counts from 0 and panics when the bounds are    *)
(* out of order or outside the key.                                        *)
Panic == "panic"
CanSlice(key, from, to) == from <= to /\ to <= Len(key)
Slice(key, from, to) == SubSeq(key, from + 1, to)

NameStart == 1 + LenWidth
(* The offsets into the key of p are within the width of the lengths.      *)
Fits(p) ==
    NameStart + Len(p[2]) + (IF p[1] = "str" THEN LenWidth + Len(p[3]) ELSE 0)
        < Capacity(LenWidth)

NameEnd(key) == Uint16(NameStart + Number(Slice(key, 1, NameStart)))

(* The value of a string bitmap key; the name is not used by the scans.    *)
(* The offsets are 16-bit like the lengths they are computed from.         *)
decodeStringBitmapKey(key) ==
    LET valueOffset == NameEnd(key)
        valueStart  == Uint16(valueOffset + LenWidth)
        valueLen    == Number(Slice(key, valueOffset, valueStart))
        valueEnd    == Uint16(valueStart + valueLen)
    IN  IF /\ CanSlice(key, NameStart, valueOffset)
           /\ CanSlice(key, valueOffset, valueStart)
           /\ CanSlice(key, valueStart, valueEnd)
        THEN Slice(key, valueStart, valueEnd)
        ELSE Panic

decodeNumericBitmapKey(key) ==
    LET nameEnd == NameEnd(key)
    IN  IF CanSlice(key, NameStart, nameEnd) /\ nameEnd + NumWidth <= Len(key)
        THEN Number(Slice(key, nameEnd, nameEnd + NumWidth))
        ELSE Panic

-----------------------------------------------------------------------------
(* Range scans.  pebble orders keys byte by byte; no bound is <<>>.        *)
Unbounded == <<>>

Precedes(a, b) ==
    \E i \in 1 .. Len(b) :
        /\ \A j \in 1 .. i - 1 : j <= Len(a) /\ a[j] = b[j]
        /\ i <= Len(a) => a[i] < b[i]

(* Slip: the carry is dropped.                                             *)
prefixUpperBoundNoCarry(prefix) ==
    [prefix EXCEPT ![Len(prefix)] = (@ + 1) % Base]

(* The successor of the prefix: the last byte that is not the highest is   *)
(* incremented, and those after it, having wrapped, are 0.                 *)
prefixUpperBound(prefix) ==
    LET low == {i \in DOMAIN prefix : prefix[i] # Base - 1}
    IN  IF low = {} THEN Unbounded
        ELSE LET last == CHOOSE i \in low : \A j \in low : j <= i
             IN  [i \in DOMAIN prefix |->
                    IF i < last THEN prefix[i] ELSE IF i = last THEN prefix[i] + 1 ELSE 0]
=============================================================================
