------------------------- MODULE StoredBytesProofs -------------------------
(***************************************************************************)
(* Proofs about StoredBytes: what lookups and scans make of the bytes of   *)
(* the database, for every base, every width and every set of attributes,  *)
(* records and ids.                                                        *)
(*                                                                         *)
(* First numbers and strings of bytes; then the keys, their order and      *)
(* their decoding; the layout that every operation keeps; and what follows *)
(* from it for lookups, scans, records and answers.                        *)
(***************************************************************************)
EXTENDS StoredBytes, SequenceTheorems, WellFoundedInduction, FiniteSetTheorems, TLAPS

-----------------------------------------------------------------------------
(* Numbers and strings of bytes.                                           *)

(* A set of naturals that is not empty has a least element.                *)
LEMMA LeastNatural ==
    ASSUME NEW T \in SUBSET Nat, T # {}
    PROVE  \E x \in T : \A y \in T : x <= y
<1>1. PICK x \in T : \A y \in T : ~ (<<y, x>> \in OpToRel(<, Nat))
    BY NatLessThanWellFounded, WFMin
<1>2. \A y \in T : <<y, x>> \in Nat \X Nat
    OBVIOUS
<1>3. \A y \in T : ~ (y < x)
    BY <1>1, <1>2, Zenon DEF OpToRel
<1> QED  BY <1>3

(* What holds at 0 and is passed on holds up to n.                         *)
LEMMA RangeInduction ==
    ASSUME NEW n \in Nat, NEW S, 0 \in S, \A i \in 1 .. n : i - 1 \in S => i \in S
    PROVE  0 .. n \subseteq S
<1> DEFINE T == {i \in 0 .. n : i \notin S}
<1>1. ASSUME T # {} PROVE FALSE
    <2>1. PICK x \in T : \A y \in T : x <= y
        <3>1. T \in SUBSET Nat  OBVIOUS
        <3> HIDE DEF T
        <3> QED  BY <1>1, <3>1, LeastNatural
    <2>2. x \in 1 .. n /\ x - 1 \in 0 .. n
        BY <2>1
    <2>3. x - 1 \in S
        BY <2>1, <2>2
    <2> QED  BY <2>1, <2>2, <2>3
<1> QED  BY <1>1

(* f begins with a, and step makes each value from the one before.         *)
Iterates(f, S, a, step, n) ==
    /\ f \in [0 .. n -> S]
    /\ f[0] = a
    /\ \A i \in 1 .. n : f[i] = step[<<i, f[i - 1]>>]

(* There is such a function.                                               *)
LEMMA IterationExists ==
    ASSUME NEW S, NEW a \in S, NEW step \in [Nat \X S -> S], NEW n \in Nat
    PROVE  \E f : Iterates(f, S, a, step, n)
<1> DEFINE Good == {k \in Nat : \E f : Iterates(f, S, a, step, k)}
<1>1. 0 \in Good
    <2>1. Iterates([i \in 0 .. 0 |-> a], S, a, step, 0)
        BY DEF Iterates
    <2> QED  BY <2>1
<1>2. ASSUME NEW k \in 1 .. n, k - 1 \in Good PROVE k \in Good
    <2>1. PICK f : Iterates(f, S, a, step, k - 1)
        BY <1>2
    <2> DEFINE g == [i \in 0 .. k |-> IF i = k THEN step[<<k, f[k - 1]>>] ELSE f[i]]
    <2>2. step[<<k, f[k - 1]>>] \in S
        <3>1. k - 1 \in 0 .. k - 1 /\ k \in Nat  OBVIOUS
        <3>2. f[k - 1] \in S  BY <3>1, <2>1 DEF Iterates
        <3>3. <<k, f[k - 1]>> \in Nat \X S  BY <3>1, <3>2
        <3> QED  BY <3>3
    <2>3. g \in [0 .. k -> S]
        BY <2>1, <2>2 DEF Iterates
    <2>4. g[k] = step[<<k, f[k - 1]>>] /\ \A i \in 0 .. k - 1 : g[i] = f[i]
        <3>1. k \in 0 .. k /\ k \in Nat  OBVIOUS
        <3>2. \A i \in 0 .. k - 1 : i \in 0 .. k /\ i # k  OBVIOUS
        <3> QED  BY <3>1, <3>2
    <2> HIDE DEF g
    <2>5. g[0] = a /\ \A i \in 1 .. k : g[i] = step[<<i, g[i - 1]>>]
        <3>1. 0 \in 0 .. k - 1 /\ k - 1 \in 0 .. k - 1  OBVIOUS
        <3>2. g[0] = a /\ g[k] = step[<<k, g[k - 1]>>]
            BY <2>1, <2>4, <3>1 DEF Iterates
        <3>3. ASSUME NEW i \in 1 .. k - 1 PROVE g[i] = step[<<i, g[i - 1]>>]
            <4>1. i \in 0 .. k - 1 /\ i - 1 \in 0 .. k - 1  OBVIOUS
            <4>2. f[i] = step[<<i, f[i - 1]>>]  BY <2>1 DEF Iterates
            <4> QED  BY <4>1, <4>2, <2>4
        <3>4. \A i \in 1 .. k : i = k \/ i \in 1 .. k - 1  OBVIOUS
        <3> QED  BY <3>2, <3>3, <3>4
    <2>6. k \in Nat /\ Iterates(g, S, a, step, k)
        BY <2>3, <2>5 DEF Iterates
    <2> QED  BY <2>6
<1> HIDE DEF Good
<1>3. n \in Good
    BY <1>1, <1>2, RangeInduction
<1> QED  BY <1>3 DEF Good

(* Division with a remainder.                                              *)
LEMMA DivMod ==
    ASSUME NEW n \in Nat, NEW d \in Nat, d > 0
    PROVE  /\ n \div d \in Nat /\ n % d \in 0 .. d - 1
           /\ n = (n \div d) * d + (n % d)
           /\ n < d => n % d = n
           /\ \A m \in Nat : n < m * d => n \div d < m
    OBVIOUS

(* Base is a positive natural, with what that means for division by it.    *)
LEMMA BasePositive ==
    /\ Base \in Nat /\ Base > 1 /\ Base > 0
    /\ \A n \in Nat : n * Base \in Nat /\ n \div Base \in Nat /\ n % Base \in Byte
    /\ \A n \in Nat : (n \div Base) * Base + (n % Base) = n
    /\ \A n, m \in Nat : n < m * Base => n \div Base < m
<1>1. Base \in Nat /\ Base > 1 /\ Base > 0
    BY EncodingAssumption
<1>2. \A n \in Nat : n * Base \in Nat /\ n \div Base \in Nat /\ n % Base \in Byte
    BY <1>1, DivMod DEF Byte
<1>3. \A n \in Nat : (n \div Base) * Base + (n % Base) = n
    BY <1>1, DivMod
<1>4. \A n, m \in Nat : n < m * Base => n \div Base < m
    BY <1>1, DivMod
<1> QED  BY <1>1, <1>2, <1>3, <1>4

(* What a string of bytes consists of.                                     *)
LEMMA BytesFacts ==
    \A a \in Bytes :
        /\ Len(a) \in Nat
        /\ \A i \in 1 .. Len(a) : a[i] \in Byte /\ a[i] \in Nat /\ a[i] < Base
    BY BasePositive, ElementOfSeq, LenProperties DEF Bytes, Byte

(* Capacity is a power.                                                    *)
LEMMA CapacityPower ==
    ASSUME NEW width \in Nat
    PROVE  \E power \in [0 .. width -> Nat] :
              /\ Capacity(width) = power[width]
              /\ power[0] = 1
              /\ \A i \in 1 .. width : power[i] = power[i - 1] * Base
<1> DEFINE step == [x \in Nat \X Nat |-> x[2] * Base]
           IsPower(p) == p = [i \in 0 .. width |-> IF i = 0 THEN 1 ELSE p[i - 1] * Base]
<1>1. step \in [Nat \X Nat -> Nat]
    BY BasePositive
<1>2. PICK f : Iterates(f, Nat, 1, step, width)
    <2>1. 1 \in Nat  OBVIOUS
    <2> HIDE DEF step
    <2> QED  BY <1>1, <2>1, IterationExists
<1>3. f[0] = 1 /\ \A i \in 1 .. width : f[i] = f[i - 1] * Base
    <2> SUFFICES ASSUME NEW i \in 1 .. width PROVE f[i] = f[i - 1] * Base
        BY <1>2 DEF Iterates
    <2>1. i - 1 \in 0 .. width  OBVIOUS
    <2>2. <<i, f[i - 1]>> \in Nat \X Nat  BY <2>1, <1>2 DEF Iterates
    <2> QED  BY <2>2, <1>2 DEF Iterates
<1>4. IsPower(f)
    <2> DEFINE g == [i \in 0 .. width |-> IF i = 0 THEN 1 ELSE f[i - 1] * Base]
    <2>1. ASSUME NEW i \in 0 .. width PROVE f[i] = g[i]
        <3>1. CASE i = 0  BY <3>1, <1>3
        <3>2. CASE i \in 1 .. width  BY <3>2, <1>3
        <3> QED  BY <3>1, <3>2
    <2>2. f \in [0 .. width -> Nat] /\ DOMAIN g = 0 .. width  BY <1>2 DEF Iterates
    <2>3. f = [i \in 0 .. width |-> f[i]] /\ g = [i \in 0 .. width |-> g[i]]
        BY <2>2
    <2> HIDE DEF g
    <2>4. f = g  BY <2>1, <2>3
    <2> USE DEF g
    <2> QED  BY <2>4, Zenon
<1>5. PICK p : IsPower(p) /\ Capacity(width) = p[width]
    BY <1>4, Zenon DEF Capacity
<1>6. p[0] = 1 /\ \A i \in 1 .. width : p[i] = p[i - 1] * Base
    <2>1. 0 \in 0 .. width /\ \A i \in 1 .. width : i \in 0 .. width /\ i # 0
        OBVIOUS
    <2> QED  BY <1>5, <2>1, Zenon
<1>7. DOMAIN p = 0 .. width
    BY <1>5
<1>8. \A i \in 0 .. width : p[i] \in Nat
    <2> DEFINE Good == {i \in 0 .. width : p[i] \in Nat}
    <2>1. 0 \in Good  BY <1>6
    <2>2. \A i \in 1 .. width : i - 1 \in Good => i \in Good
        BY <1>6, BasePositive
    <2> HIDE DEF Good
    <2>3. 0 .. width \subseteq Good  BY <2>1, <2>2, RangeInduction
    <2> QED  BY <2>3 DEF Good
<1>9. p \in [0 .. width -> Nat]
    <2>1. p = [i \in 0 .. width |-> p[i]]  BY <1>5, <1>7
    <2> QED  BY <2>1, <1>8
<1> QED  BY <1>5, <1>6, <1>9

(* The bytes of a number are what remains of it, shifted, in each byte.    *)
LEMMA ShiftedBytes ==
    ASSUME NEW n \in Nat, NEW width \in Nat
    PROVE  \E shifted \in [0 .. width -> Nat] :
              /\ BigEndian(n, width) = [i \in 1 .. width |-> shifted[width - i] % Base]
              /\ shifted[0] = n
              /\ \A i \in 1 .. width : shifted[i] = shifted[i - 1] \div Base
<1> DEFINE step == [x \in Nat \X Nat |-> x[2] \div Base]
           IsShifted(p) == p = [i \in 0 .. width |-> IF i = 0 THEN n ELSE p[i - 1] \div Base]
<1>1. step \in [Nat \X Nat -> Nat]
    BY BasePositive
<1>2. PICK f : Iterates(f, Nat, n, step, width)
    <2> HIDE DEF step
    <2> QED  BY <1>1, IterationExists
<1>3. f[0] = n /\ \A i \in 1 .. width : f[i] = f[i - 1] \div Base
    <2> SUFFICES ASSUME NEW i \in 1 .. width PROVE f[i] = f[i - 1] \div Base
        BY <1>2 DEF Iterates
    <2>1. i - 1 \in 0 .. width  OBVIOUS
    <2>2. <<i, f[i - 1]>> \in Nat \X Nat  BY <2>1, <1>2 DEF Iterates
    <2> QED  BY <2>2, <1>2 DEF Iterates
<1>4. IsShifted(f)
    <2> DEFINE g == [i \in 0 .. width |-> IF i = 0 THEN n ELSE f[i - 1] \div Base]
    <2>1. ASSUME NEW i \in 0 .. width PROVE f[i] = g[i]
        <3>1. CASE i = 0  BY <3>1, <1>3
        <3>2. CASE i \in 1 .. width  BY <3>2, <1>3
        <3> QED  BY <3>1, <3>2
    <2>2. f \in [0 .. width -> Nat] /\ DOMAIN g = 0 .. width  BY <1>2 DEF Iterates
    <2>3. f = [i \in 0 .. width |-> f[i]] /\ g = [i \in 0 .. width |-> g[i]]
        BY <2>2
    <2> HIDE DEF g
    <2>4. f = g  BY <2>1, <2>3
    <2> USE DEF g
    <2> QED  BY <2>4, Zenon
<1>5. PICK p : IsShifted(p) /\ BigEndian(n, width) = [i \in 1 .. width |-> p[width - i] % Base]
    BY <1>4, Zenon DEF BigEndian
<1>6. p[0] = n /\ \A i \in 1 .. width : p[i] = p[i - 1] \div Base
    <2>1. 0 \in 0 .. width /\ \A i \in 1 .. width : i \in 0 .. width /\ i # 0
        OBVIOUS
    <2> QED  BY <1>5, <2>1, Zenon
<1>7. DOMAIN p = 0 .. width
    BY <1>5
<1>8. \A i \in 0 .. width : p[i] \in Nat
    <2> DEFINE Good == {i \in 0 .. width : p[i] \in Nat}
    <2>1. 0 \in Good  BY <1>6
    <2>2. \A i \in 1 .. width : i - 1 \in Good => i \in Good
        BY <1>6, BasePositive
    <2> HIDE DEF Good
    <2>3. 0 .. width \subseteq Good  BY <2>1, <2>2, RangeInduction
    <2> QED  BY <2>3 DEF Good
<1>9. p \in [0 .. width -> Nat]
    <2>1. p = [i \in 0 .. width |-> p[i]]  BY <1>5, <1>7
    <2> QED  BY <2>1, <1>8
<1> QED  BY <1>5, <1>6, <1>9

(* A number is built from its bytes, from the highest to the lowest.       *)
LEMMA NumberValue ==
    ASSUME NEW bytes \in Bytes, NEW width \in Nat, Len(bytes) = width
    PROVE  \E value \in [0 .. width -> Nat] :
              /\ Number(bytes) = value[width]
              /\ value[0] = 0
              /\ \A i \in 1 .. width : value[i] = value[i - 1] * Base + bytes[i]
<1> DEFINE step == [x \in Nat \X Nat |-> x[2] * Base + (IF x[1] \in 1 .. width THEN bytes[x[1]] ELSE 0)]
           IsValue(p) == p = [i \in 0 .. width |-> IF i = 0 THEN 0 ELSE p[i - 1] * Base + bytes[i]]
<1>0. \A i \in 1 .. width : bytes[i] \in Nat
    BY BytesFacts DEF Byte
<1>1. step \in [Nat \X Nat -> Nat]
    <2>1. ASSUME NEW x \in Nat \X Nat PROVE step[x] \in Nat
        <3>1. x[2] * Base \in Nat  BY BasePositive
        <3>2. (IF x[1] \in 1 .. width THEN bytes[x[1]] ELSE 0) \in Nat  BY <1>0
        <3> QED  BY <3>1, <3>2
    <2> QED  BY <2>1
<1>2. PICK f : Iterates(f, Nat, 0, step, width)
    <2>1. 0 \in Nat  OBVIOUS
    <2> HIDE DEF step
    <2> QED  BY <1>1, <2>1, IterationExists
<1>3. f[0] = 0 /\ \A i \in 1 .. width : f[i] = f[i - 1] * Base + bytes[i]
    <2> SUFFICES ASSUME NEW i \in 1 .. width PROVE f[i] = f[i - 1] * Base + bytes[i]
        BY <1>2 DEF Iterates
    <2>1. i - 1 \in 0 .. width  OBVIOUS
    <2>2. <<i, f[i - 1]>> \in Nat \X Nat  BY <2>1, <1>2 DEF Iterates
    <2> QED  BY <2>2, <1>2 DEF Iterates
<1>4. IsValue(f)
    <2> DEFINE g == [i \in 0 .. width |-> IF i = 0 THEN 0 ELSE f[i - 1] * Base + bytes[i]]
    <2>1. ASSUME NEW i \in 0 .. width PROVE f[i] = g[i]
        <3>1. CASE i = 0  BY <3>1, <1>3
        <3>2. CASE i \in 1 .. width  BY <3>2, <1>3
        <3> QED  BY <3>1, <3>2
    <2>2. f \in [0 .. width -> Nat] /\ DOMAIN g = 0 .. width  BY <1>2 DEF Iterates
    <2>3. f = [i \in 0 .. width |-> f[i]] /\ g = [i \in 0 .. width |-> g[i]]
        BY <2>2
    <2> HIDE DEF g
    <2>4. f = g  BY <2>1, <2>3
    <2> USE DEF g
    <2> QED  BY <2>4, Zenon
<1>5. PICK p : IsValue(p) /\ Number(bytes) = p[width]
    BY <1>4, Zenon DEF Number
<1>6. p[0] = 0 /\ \A i \in 1 .. width : p[i] = p[i - 1] * Base + bytes[i]
    <2>1. 0 \in 0 .. width /\ \A i \in 1 .. width : i \in 0 .. width /\ i # 0
        OBVIOUS
    <2> QED  BY <1>5, <2>1, Zenon
<1>7. DOMAIN p = 0 .. width
    BY <1>5
<1>8. \A i \in 0 .. width : p[i] \in Nat
    <2> DEFINE Good == {i \in 0 .. width : p[i] \in Nat}
    <2>1. 0 \in Good  BY <1>6
    <2>2. \A i \in 1 .. width : i - 1 \in Good => i \in Good
        <3> SUFFICES ASSUME NEW i \in 1 .. width, p[i - 1] \in Nat PROVE p[i] \in Nat
            OBVIOUS
        <3>1. p[i - 1] * Base \in Nat  BY BasePositive
        <3> QED  BY <3>1, <1>0, <1>6
    <2> HIDE DEF Good
    <2>3. 0 .. width \subseteq Good  BY <2>1, <2>2, RangeInduction
    <2> QED  BY <2>3 DEF Good
<1>9. p \in [0 .. width -> Nat]
    <2>1. p = [i \in 0 .. width |-> p[i]]  BY <1>5, <1>7
    <2> QED  BY <2>1, <1>8
<1> QED  BY <1>5, <1>6, <1>9

(* A number has as many bytes as the width says.                           *)
LEMMA BigEndianBytes ==
    ASSUME NEW n \in Nat, NEW width \in Nat
    PROVE  BigEndian(n, width) \in Bytes /\ Len(BigEndian(n, width)) = width
<1>1. PICK shifted \in [0 .. width -> Nat] :
          BigEndian(n, width) = [i \in 1 .. width |-> shifted[width - i] % Base]
    BY ShiftedBytes
<1>2. \A i \in 1 .. width : shifted[width - i] % Base \in Byte
    <2> SUFFICES ASSUME NEW i \in 1 .. width PROVE shifted[width - i] % Base \in Byte
        OBVIOUS
    <2>1. width - i \in 0 .. width  OBVIOUS
    <2>2. shifted[width - i] \in Nat  BY <2>1
    <2> QED  BY <2>2, BasePositive
<1> QED  BY <1>1, <1>2 DEF Bytes

(* The numbers of a width are below its capacity, which grows at least as  *)
(* fast as the width.                                                      *)
LEMMA NumberBelowCapacity ==
    ASSUME NEW bytes \in Bytes
    PROVE  /\ Number(bytes) \in Nat /\ Capacity(Len(bytes)) \in Nat
           /\ Number(bytes) < Capacity(Len(bytes))
<1> DEFINE width == Len(bytes)
<1>0. width \in Nat  BY BytesFacts
<1> HIDE DEF width
<1>1. PICK power \in [0 .. width -> Nat] :
          /\ Capacity(width) = power[width] /\ power[0] = 1
          /\ \A i \in 1 .. width : power[i] = power[i - 1] * Base
    BY <1>0, CapacityPower
<1>2. PICK value \in [0 .. width -> Nat] :
          /\ Number(bytes) = value[width] /\ value[0] = 0
          /\ \A i \in 1 .. width : value[i] = value[i - 1] * Base + bytes[i]
    BY <1>0, NumberValue DEF width
<1> DEFINE Good == {i \in 0 .. width : value[i] < power[i]}
<1>3. 0 \in Good
    BY <1>0, <1>1, <1>2
<1>4. ASSUME NEW i \in 1 .. width, i - 1 \in Good PROVE i \in Good
    <2>1. bytes[i] \in Nat /\ bytes[i] < Base
        BY BytesFacts DEF width
    <2>2. value[i - 1] \in Nat /\ power[i - 1] \in Nat /\ value[i - 1] + 1 <= power[i - 1]
        <3>1. i - 1 \in 0 .. width  BY <1>0
        <3> QED  BY <3>1, <1>4
    <2>3. \A v, p \in Nat : v + 1 <= p => v * Base + Base <= p * Base
        BY BasePositive
    <2>4. value[i - 1] * Base + Base <= power[i - 1] * Base
        BY <2>2, <2>3
    <2>5. value[i] < power[i]
        <3>1. value[i - 1] * Base \in Nat /\ power[i - 1] * Base \in Nat
            BY <2>2, BasePositive
        <3>2. value[i] = value[i - 1] * Base + bytes[i] /\ power[i] = power[i - 1] * Base
            BY <1>1, <1>2
        <3> QED  BY <3>1, <3>2, <2>1, <2>4, BasePositive
    <2> QED  BY <2>5, <1>0
<1> HIDE DEF Good
<1>5. 0 .. width \subseteq Good
    BY <1>0, <1>3, <1>4, RangeInduction
<1>6. width \in 0 .. width  BY <1>0
<1>7. value[width] < power[width] /\ value[width] \in Nat /\ power[width] \in Nat
    BY <1>1, <1>2, <1>5, <1>6 DEF Good
<1> QED  BY <1>1, <1>2, <1>7 DEF width

(* There are more numbers of a width than bytes in it.                     *)
LEMMA CapacityExceedsWidth ==
    ASSUME NEW width \in Nat
    PROVE  Capacity(width) \in Nat /\ width < Capacity(width)
<1>1. PICK power \in [0 .. width -> Nat] :
          /\ Capacity(width) = power[width] /\ power[0] = 1
          /\ \A i \in 1 .. width : power[i] = power[i - 1] * Base
    BY CapacityPower
<1> DEFINE Good == {i \in 0 .. width : i < power[i]}
<1>2. 0 \in Good
    BY <1>1
<1>3. ASSUME NEW i \in 1 .. width, i - 1 \in Good PROVE i \in Good
    <2>1. power[i - 1] \in Nat /\ i <= power[i - 1] /\ power[i - 1] > 0
        <3>1. i - 1 \in 0 .. width  OBVIOUS
        <3> QED  BY <3>1, <1>3
    <2>2. \A p \in Nat : p > 0 => p < p * Base
        BY BasePositive
    <2>3. power[i - 1] < power[i]  BY <1>1, <2>1, <2>2
    <2>4. power[i] \in Nat  OBVIOUS
    <2> QED  BY <2>1, <2>3, <2>4
<1> HIDE DEF Good
<1>4. 0 .. width \subseteq Good
    BY <1>2, <1>3, RangeInduction
<1>5. width \in 0 .. width  OBVIOUS
<1> QED  BY <1>1, <1>4, <1>5 DEF Good

(* A number that fits is read back as it was written.                      *)
LEMMA RoundTrip ==
    ASSUME NEW width \in Nat, NEW n \in Nat, n < Capacity(width)
    PROVE  Number(BigEndian(n, width)) = n
<1> DEFINE bytes == BigEndian(n, width)
<1>0. bytes \in Bytes /\ Len(bytes) = width
    BY BigEndianBytes
<1>1. PICK power \in [0 .. width -> Nat] :
          /\ Capacity(width) = power[width] /\ power[0] = 1
          /\ \A i \in 1 .. width : power[i] = power[i - 1] * Base
    BY CapacityPower
<1>2. PICK shifted \in [0 .. width -> Nat] :
          /\ bytes = [i \in 1 .. width |-> shifted[width - i] % Base]
          /\ shifted[0] = n
          /\ \A i \in 1 .. width : shifted[i] = shifted[i - 1] \div Base
    BY ShiftedBytes
<1> HIDE DEF bytes
<1>3. PICK value \in [0 .. width -> Nat] :
          /\ Number(bytes) = value[width] /\ value[0] = 0
          /\ \A i \in 1 .. width : value[i] = value[i - 1] * Base + bytes[i]
    BY <1>0, NumberValue
<1>4. shifted[width] = 0
    <2> DEFINE Good == {i \in 0 .. width : shifted[i] < power[width - i]}
    <2>1. 0 \in Good
        BY <1>1, <1>2
    <2>2. ASSUME NEW i \in 1 .. width, i - 1 \in Good PROVE i \in Good
        <3>1. /\ i - 1 \in 0 .. width /\ width - i \in 0 .. width
              /\ width - (i - 1) \in 1 .. width /\ width - (i - 1) - 1 = width - i
            OBVIOUS
        <3>2. shifted[i - 1] < power[width - (i - 1)]  BY <2>2
        <3>3. power[width - (i - 1)] = power[width - i] * Base  BY <1>1, <3>1
        <3>4. shifted[i] = shifted[i - 1] \div Base  BY <1>2
        <3>5. shifted[i - 1] \in Nat /\ power[width - i] \in Nat  BY <3>1
        <3>6. shifted[i] < power[width - i]
            BY <3>2, <3>3, <3>4, <3>5, BasePositive
        <3> QED  BY <3>6
    <2> HIDE DEF Good
    <2>3. 0 .. width \subseteq Good  BY <2>1, <2>2, RangeInduction
    <2>4. width \in 0 .. width /\ width - width = 0  OBVIOUS
    <2>5. shifted[width] < power[width - width]  BY <2>3, <2>4 DEF Good
    <2> QED  BY <2>4, <2>5, <1>1
<1>5. value[width] = shifted[0]
    <2> DEFINE Good == {i \in 0 .. width : value[i] = shifted[width - i]}
    <2>1. 0 \in Good
        BY <1>3, <1>4
    <2>2. ASSUME NEW i \in 1 .. width, i - 1 \in Good PROVE i \in Good
        <3>1. /\ width - i \in 0 .. width /\ width - i + 1 \in 1 .. width
              /\ width - (i - 1) = width - i + 1 /\ width - i + 1 - 1 = width - i
            OBVIOUS
        <3>2. value[i - 1] = shifted[width - i + 1]  BY <2>2, <3>1
        <3>3. shifted[width - i + 1] = shifted[width - i] \div Base  BY <1>2, <3>1
        <3>4. bytes[i] = shifted[width - i] % Base  BY <1>2
        <3>5. value[i] = value[i - 1] * Base + bytes[i]  BY <1>3
        <3>6. shifted[width - i] \in Nat  BY <3>1
        <3>7. value[i] = shifted[width - i]
            BY <3>2, <3>3, <3>4, <3>5, <3>6, BasePositive
        <3> QED  BY <3>7
    <2> HIDE DEF Good
    <2>3. 0 .. width \subseteq Good  BY <2>1, <2>2, RangeInduction
    <2>4. width \in 0 .. width /\ width - width = 0  OBVIOUS
    <2> QED  BY <2>3, <2>4 DEF Good
<1> QED  BY <1>2, <1>3, <1>5 DEF bytes

-----------------------------------------------------------------------------
(* Keys.                                                                   *)

(* Two strings one after the other.  The lemmas keep it closed.            *)
Join(a, b) == a \o b

(* The elements of two strings one after the other.                        *)
LEMMA JoinFacts ==
    \A a, b \in Bytes :
        /\ Join(a, b) \in Bytes
        /\ Len(Join(a, b)) = Len(a) + Len(b)
        /\ \A i \in 1 .. Len(a) : Join(a, b)[i] = a[i]
        /\ \A i \in 1 .. Len(b) : Join(a, b)[Len(a) + i] = b[i]
<1> SUFFICES ASSUME NEW a \in Bytes, NEW b \in Bytes
             PROVE  /\ a \o b \in Bytes
                    /\ Len(a \o b) = Len(a) + Len(b)
                    /\ \A i \in 1 .. Len(a) : (a \o b)[i] = a[i]
                    /\ \A i \in 1 .. Len(b) : (a \o b)[Len(a) + i] = b[i]
    BY DEF Join
<1>1. Len(a) \in Nat /\ Len(b) \in Nat  BY BytesFacts
<1>2. \A i \in 1 .. Len(a) : i \in 1 .. Len(a) + Len(b) /\ i <= Len(a)  BY <1>1
<1>3. \A i \in 1 .. Len(b) :
          /\ Len(a) + i \in 1 .. Len(a) + Len(b) /\ ~(Len(a) + i <= Len(a))
          /\ Len(a) + i - Len(a) = i
    BY <1>1
<1> QED  BY <1>1, <1>2, <1>3, ConcatProperties DEF Bytes

(* Strings of the same length and bytes are the same.                      *)
LEMMA SameBytes ==
    \A a, b \in Bytes : Len(a) = Len(b) /\ (\A i \in 1 .. Len(a) : a[i] = b[i]) => a = b
    BY SeqEqual DEF Bytes

(* The order in which strings are put together does not matter.            *)
LEMMA JoinAssociates ==
    \A a, b, c \in Bytes : Join(Join(a, b), c) = Join(a, Join(b, c))
    BY ConcatAssociative DEF Join, Bytes

(* Where a string is split is determined by the length of the first part.  *)
LEMMA JoinCancels ==
    \A a, b, c, d \in Bytes :
        Len(a) = Len(c) /\ Join(a, b) = Join(c, d) => a = c /\ b = d
<1> SUFFICES ASSUME NEW a \in Bytes, NEW b \in Bytes, NEW c \in Bytes, NEW d \in Bytes,
                    Len(a) = Len(c), Join(a, b) = Join(c, d)
             PROVE  a = c /\ b = d
    OBVIOUS
<1>1. \A i \in 1 .. Len(a) : a[i] = c[i]
    <2>1. \A i \in 1 .. Len(a) : Join(a, b)[i] = a[i]  BY JoinFacts
    <2>2. \A i \in 1 .. Len(c) : Join(c, d)[i] = c[i]  BY JoinFacts
    <2> QED  BY <2>1, <2>2
<1>2. a = c
    BY <1>1, SameBytes
<1>3. a \o b = a \o d
    BY <1>2 DEF Join
<1> QED  BY <1>2, <1>3, ConcatSimplifications DEF Bytes

(* Part of a string of bytes.                                              *)
LEMMA SubSeqFacts ==
    ASSUME NEW s \in Bytes, NEW m \in Nat, NEW n \in Nat, m + n <= Len(s)
    PROVE  /\ SubSeq(s, m + 1, m + n) \in Bytes
           /\ Len(SubSeq(s, m + 1, m + n)) = n
           /\ \A i \in 1 .. n : SubSeq(s, m + 1, m + n)[i] = s[m + i]
<1>1. \A i \in m + 1 .. m + n : s[i] \in Byte
    BY BytesFacts
<1>2. m + 1 \in Int /\ m + n \in Int  OBVIOUS
<1>3. /\ SubSeq(s, m + 1, m + n) \in Seq(Byte)
      /\ Len(SubSeq(s, m + 1, m + n)) = IF m + 1 <= m + n THEN m + n - (m + 1) + 1 ELSE 0
      /\ \A i \in 1 .. m + n - (m + 1) + 1 : SubSeq(s, m + 1, m + n)[i] = s[m + 1 + i - 1]
    BY <1>1, <1>2, SubSeqProperties
<1>4. /\ (IF m + 1 <= m + n THEN m + n - (m + 1) + 1 ELSE 0) = n
      /\ m + n - (m + 1) + 1 = n /\ \A i \in 1 .. n : m + 1 + i - 1 = m + i
    OBVIOUS
<1> QED  BY <1>3, <1>4 DEF Bytes

(* A part of a string is found again between its ends.                     *)
LEMMA Middle ==
    ASSUME NEW a \in Bytes, NEW b \in Bytes, NEW c \in Bytes
    PROVE  SubSeq(Join(a, Join(b, c)), Len(a) + 1, Len(a) + Len(b)) = b
<1> DEFINE s == Join(a, Join(b, c))
<1>1. Len(a) \in Nat /\ Len(b) \in Nat /\ Len(c) \in Nat  BY BytesFacts
<1>2. /\ Join(b, c) \in Bytes /\ Len(Join(b, c)) = Len(b) + Len(c)
      /\ \A i \in 1 .. Len(b) : Join(b, c)[i] = b[i]
    BY JoinFacts
<1>3. /\ s \in Bytes /\ Len(s) = Len(a) + Len(Join(b, c))
      /\ \A i \in 1 .. Len(Join(b, c)) : s[Len(a) + i] = Join(b, c)[i]
    BY <1>2, JoinFacts
<1> HIDE DEF s
<1>4. Len(a) + Len(b) <= Len(s) /\ \A i \in 1 .. Len(b) : s[Len(a) + i] = b[i]
    BY <1>1, <1>2, <1>3
<1>5. /\ SubSeq(s, Len(a) + 1, Len(a) + Len(b)) \in Bytes
      /\ Len(SubSeq(s, Len(a) + 1, Len(a) + Len(b))) = Len(b)
      /\ \A i \in 1 .. Len(b) : SubSeq(s, Len(a) + 1, Len(a) + Len(b))[i] = s[Len(a) + i]
    BY <1>1, <1>3, <1>4, SubSeqFacts
<1>6. SubSeq(s, Len(a) + 1, Len(a) + Len(b)) = b
    BY <1>4, <1>5, SameBytes
<1> QED  BY <1>6 DEF s

(* The head of a bitmap key: one byte, the length of the name, the name.   *)
LEMMA NamePrefixShape ==
    ASSUME NEW b \in Byte, NEW name \in Bytes
    PROVE  /\ Join(<<b>>, BigEndian(Len(name), LenWidth)) \in Bytes
           /\ Len(Join(<<b>>, BigEndian(Len(name), LenWidth))) = NameStart
           /\ NamePrefix(b, name) = Join(Join(<<b>>, BigEndian(Len(name), LenWidth)), name)
           /\ NamePrefix(b, name) \in Bytes
           /\ Len(NamePrefix(b, name)) = NameStart + Len(name)
           /\ NamePrefix(b, name)[1] = b
           /\ \A i \in 1 .. LenWidth :
                 NamePrefix(b, name)[1 + i] = BigEndian(Len(name), LenWidth)[i]
           /\ NameStart = 1 + LenWidth /\ LenWidth \in Nat /\ Len(name) \in Nat
<1> DEFINE len == BigEndian(Len(name), LenWidth)
           head == Join(<<b>>, len)
<1>1. len \in Bytes /\ Len(len) = LenWidth /\ LenWidth \in Nat /\ Len(name) \in Nat
    BY BigEndianBytes, EncodingAssumption, BytesFacts
<1> HIDE DEF len
<1>2. <<b>> \in Bytes /\ Len(<<b>>) = 1 /\ <<b>>[1] = b
    BY DEF Bytes
<1>3. /\ head \in Bytes /\ Len(head) = Len(<<b>>) + Len(len)
      /\ \A i \in 1 .. Len(<<b>>) : head[i] = <<b>>[i]
      /\ \A i \in 1 .. Len(len) : head[Len(<<b>>) + i] = len[i]
    BY <1>1, <1>2, JoinFacts
<1>4. /\ Len(head) = 1 + LenWidth /\ head[1] = b
      /\ \A i \in 1 .. LenWidth : head[1 + i] = len[i]
    BY <1>1, <1>2, <1>3
<1> HIDE DEF head
<1>5. /\ Join(head, name) \in Bytes /\ Len(Join(head, name)) = Len(head) + Len(name)
      /\ \A i \in 1 .. Len(head) : Join(head, name)[i] = head[i]
    BY <1>3, JoinFacts
<1>6. 1 \in 1 .. Len(head) /\ \A i \in 1 .. LenWidth : 1 + i \in 1 .. Len(head)
    BY <1>1, <1>4
<1>7. NamePrefix(b, name) = Join(head, name)
    BY DEF NamePrefix, Join, head, len
<1> QED  BY <1>1, <1>3, <1>4, <1>5, <1>6, <1>7 DEF NameStart, len, head

(* What follows the name in the key of an attribute's value.               *)
ValueBytes(p) == IF p[1] = "str" THEN BigEndian(Len(p[3]), LenWidth) \o p[3]
                                 ELSE BigEndian(p[3], NumWidth)
KindByte(kind) == IF kind = "str" THEN prefixStringBitmap ELSE prefixNumericBitmap

(* The key of an attribute's value.                                        *)
LEMMA KeyShape ==
    ASSUME NEW p \in IndexKeys
    PROVE  /\ p[1] \in {"str", "num"} /\ p[2] \in Bytes /\ p = <<p[1], p[2], p[3]>>
           /\ p[1] = "str" => p[3] \in Bytes
           /\ p[1] = "num" => p[3] \in Nat
           /\ KindByte(p[1]) \in Byte
           /\ ValueBytes(p) \in Bytes
           /\ BitmapKey(p) = Join(NamePrefix(KindByte(p[1]), p[2]), ValueBytes(p))
           /\ BitmapKey(p) \in Bytes
           /\ Len(BitmapKey(p)) = NameStart + Len(p[2]) + Len(ValueBytes(p))
<1>1. /\ p[1] \in {"str", "num"} /\ p[2] \in Bytes /\ p = <<p[1], p[2], p[3]>>
      /\ p[1] = "str" => p[3] \in Bytes
      /\ p[1] = "num" => p[3] \in Nat
    BY DEF IndexKeys
<1>2. KindByte(p[1]) \in Byte
    BY EncodingAssumption DEF KindByte, Byte, prefixStringBitmap, prefixNumericBitmap
<1> DEFINE head == NamePrefix(KindByte(p[1]), p[2])
<1>3. head \in Bytes /\ Len(head) = NameStart + Len(p[2])
    BY <1>1, <1>2, NamePrefixShape
<1>4. ASSUME p[1] = "str"
      PROVE  ValueBytes(p) \in Bytes /\ BitmapKey(p) = Join(head, ValueBytes(p))
    <2> DEFINE len == BigEndian(Len(p[3]), LenWidth)
    <2>1. len \in Bytes
        BY <1>1, <1>4, BytesFacts, BigEndianBytes, EncodingAssumption
    <2>2. p[3] \in Bytes  BY <1>1, <1>4
    <2>3. ValueBytes(p) = Join(len, p[3])
        BY <1>4 DEF ValueBytes, Join
    <2>4. BitmapKey(p) = Join(Join(head, len), p[3])
        BY <1>4 DEF BitmapKey, stringBitmapKey, stringBitmapNamePrefix, KindByte, Join
    <2> HIDE DEF len, head
    <2>5. Join(Join(head, len), p[3]) = Join(head, Join(len, p[3]))
        BY <1>3, <2>1, <2>2, JoinAssociates, Zenon
    <2>6. Join(len, p[3]) \in Bytes
        BY <2>1, <2>2, JoinFacts, Zenon
    <2> QED  BY <2>3, <2>4, <2>5, <2>6
<1>5. ASSUME p[1] = "num"
      PROVE  ValueBytes(p) \in Bytes /\ BitmapKey(p) = Join(head, ValueBytes(p))
    <2>1. ValueBytes(p) \in Bytes
        BY <1>1, <1>5, BigEndianBytes, EncodingAssumption DEF ValueBytes
    <2>2. BitmapKey(p) = Join(head, ValueBytes(p))
        BY <1>5
        DEF BitmapKey, numericBitmapKey, numericBitmapNamePrefix, KindByte, ValueBytes, Join
    <2> QED  BY <2>1, <2>2
<1>6. ValueBytes(p) \in Bytes /\ BitmapKey(p) = Join(head, ValueBytes(p))
    BY <1>1, <1>4, <1>5
<1>7. BitmapKey(p) \in Bytes /\ Len(BitmapKey(p)) = NameStart + Len(p[2]) + Len(ValueBytes(p))
    <2> HIDE DEF head
    <2>1. /\ Join(head, ValueBytes(p)) \in Bytes
          /\ Len(Join(head, ValueBytes(p))) = Len(head) + Len(ValueBytes(p))
        BY <1>3, <1>6, JoinFacts, Zenon
    <2> QED  BY <1>3, <1>6, <2>1
<1> QED  BY <1>1, <1>2, <1>6, <1>7

(* Numbers that fit in a width differ in their bytes.                      *)
LEMMA BigEndianInjective ==
    ASSUME NEW width \in Nat, NEW m \in Nat, NEW n \in Nat,
           m < Capacity(width), n < Capacity(width),
           BigEndian(m, width) = BigEndian(n, width)
    PROVE  m = n
<1>1. Number(BigEndian(m, width)) = m /\ Number(BigEndian(n, width)) = n
    BY RoundTrip
<1> QED  BY <1>1

(* A key says where its name ends: nothing that follows a name makes it    *)
(* look like another one.                                                  *)
LEMMA NamesDelimited ==
    ASSUME NEW b \in Byte, NEW c \in Byte, NEW m \in Bytes, NEW n \in Bytes,
           Len(m) < Capacity(LenWidth), Len(n) < Capacity(LenWidth),
           NEW r \in Bytes, NEW s \in Bytes,
           Join(NamePrefix(b, m), r) = Join(NamePrefix(c, n), s)
    PROVE  b = c /\ m = n /\ r = s
<1> DEFINE head == Join(<<b>>, BigEndian(Len(m), LenWidth))
           front == Join(<<c>>, BigEndian(Len(n), LenWidth))
<1>1. /\ head \in Bytes /\ front \in Bytes /\ Len(head) = Len(front)
      /\ NamePrefix(b, m) = Join(head, m) /\ NamePrefix(c, n) = Join(front, n)
      /\ LenWidth \in Nat /\ Len(m) \in Nat /\ Len(n) \in Nat
    BY NamePrefixShape
<1>2. /\ BigEndian(Len(m), LenWidth) \in Bytes /\ BigEndian(Len(n), LenWidth) \in Bytes
      /\ <<b>> \in Bytes /\ <<c>> \in Bytes /\ Len(<<b>>) = Len(<<c>>)
      /\ <<b>> = <<c>> => b = c
    BY <1>1, BigEndianBytes DEF Bytes
<1> HIDE DEF head, front
<1>3. Join(m, r) \in Bytes /\ Join(n, s) \in Bytes
    BY JoinFacts
<1>4. Join(head, Join(m, r)) = Join(front, Join(n, s))
    <2>1. Join(Join(head, m), r) = Join(head, Join(m, r))  BY <1>1, JoinAssociates
    <2>2. Join(Join(front, n), s) = Join(front, Join(n, s))  BY <1>1, JoinAssociates
    <2> QED  BY <2>1, <2>2, <1>1
<1>5. head = front /\ Join(m, r) = Join(n, s)
    BY <1>1, <1>3, <1>4, JoinCancels
<1>6. <<b>> = <<c>> /\ BigEndian(Len(m), LenWidth) = BigEndian(Len(n), LenWidth)
    BY <1>2, <1>5, JoinCancels DEF head, front
<1>7. Len(m) = Len(n)
    BY <1>1, <1>6, BigEndianInjective
<1> QED  BY <1>2, <1>5, <1>6, <1>7, JoinCancels

(* The keys of two index keys differ.                                      *)
LEMMA BitmapKeysDiffer ==
    ASSUME NEW p \in IndexKeys, NEW q \in IndexKeys, NameFits(p), NameFits(q),
           NumberFits(p), NumberFits(q), BitmapKey(p) = BitmapKey(q)
    PROVE  p = q
<1>1. KindByte(p[1]) = KindByte(q[1]) /\ p[2] = q[2] /\ ValueBytes(p) = ValueBytes(q)
    <2> DEFINE k == KindByte(p[1])
               l == KindByte(q[1])
               m == p[2]
               n == q[2]
               v == ValueBytes(p)
               w == ValueBytes(q)
    <2>1. /\ k \in Byte /\ l \in Byte /\ v \in Bytes /\ w \in Bytes
          /\ m \in Bytes /\ n \in Bytes
          /\ Join(NamePrefix(k, m), v) = Join(NamePrefix(l, n), w)
        BY KeyShape
    <2>2. Len(m) < Capacity(LenWidth) /\ Len(n) < Capacity(LenWidth)
        BY DEF NameFits
    <2> HIDE DEF k, l, m, n, v, w
    <2>3. k = l /\ m = n /\ v = w
        BY <2>1, <2>2, NamesDelimited
    <2> QED  BY <2>3 DEF k, l, m, n, v, w
<1>2. p[1] = q[1]
    BY <1>1, KeyShape DEF KindByte, prefixStringBitmap, prefixNumericBitmap
<1>3. ASSUME p[1] = "str" PROVE p[3] = q[3]
    <2> DEFINE v == p[3]
               w == q[3]
               x == BigEndian(Len(v), LenWidth)
               y == BigEndian(Len(w), LenWidth)
    <2>1. v \in Bytes /\ w \in Bytes
        BY <1>2, <1>3, KeyShape
    <2>2. Join(x, v) = Join(y, w)
        BY <1>1, <1>2, <1>3 DEF ValueBytes, Join
    <2> HIDE DEF v, w
    <2>3. x \in Bytes /\ y \in Bytes /\ Len(x) = Len(y)
        BY <2>1, BytesFacts, BigEndianBytes, EncodingAssumption
    <2> HIDE DEF x, y
    <2>4. v = w
        BY <2>1, <2>2, <2>3, JoinCancels
    <2> QED  BY <2>4 DEF v, w
<1>4. ASSUME p[1] = "num" PROVE p[3] = q[3]
    <2>1. BigEndian(p[3], NumWidth) = BigEndian(q[3], NumWidth)
        BY <1>1, <1>2, <1>4 DEF ValueBytes
    <2>2. p[3] \in Nat /\ q[3] \in Nat
        BY <1>2, <1>4, KeyShape
    <2> QED  BY <1>2, <1>4, <2>1, <2>2, BigEndianInjective, EncodingAssumption DEF NumberFits
<1> QED  BY <1>1, <1>2, <1>3, <1>4, KeyShape

(* Where two numbers of the same width differ first, the larger byte makes *)
(* the larger number.                                                      *)
LEMMA FirstByteDecides ==
    ASSUME NEW a \in Bytes, NEW b \in Bytes, Len(a) = Len(b),
           NEW i \in 1 .. Len(a), a[i] < b[i], \A j \in 1 .. i - 1 : a[j] = b[j]
    PROVE  Number(a) < Number(b)
<1> DEFINE width == Len(a)
<1>0. width \in Nat /\ Len(b) = width /\ i \in 1 .. width  BY BytesFacts
<1>1. \A j \in 1 .. width : a[j] \in Nat /\ b[j] \in Nat /\ a[j] < Base /\ b[j] < Base
    BY BytesFacts
<1> HIDE DEF width
<1>2. PICK v \in [0 .. width -> Nat] :
          /\ Number(a) = v[width] /\ v[0] = 0
          /\ \A j \in 1 .. width : v[j] = v[j - 1] * Base + a[j]
    BY <1>0, NumberValue DEF width
<1>3. PICK w \in [0 .. width -> Nat] :
          /\ Number(b) = w[width] /\ w[0] = 0
          /\ \A j \in 1 .. width : w[j] = w[j - 1] * Base + b[j]
    BY <1>0, NumberValue
<1> DEFINE Good == {j \in 0 .. width : IF j < i THEN v[j] = w[j] ELSE v[j] < w[j]}
<1>4. 0 \in Good
    BY <1>0, <1>2, <1>3
<1>5. ASSUME NEW j \in 1 .. width, j - 1 \in Good PROVE j \in Good
    <2>1. /\ v[j - 1] \in Nat /\ w[j - 1] \in Nat
          /\ v[j - 1] * Base \in Nat /\ w[j - 1] * Base \in Nat
        <3>1. j - 1 \in 0 .. width  BY <1>0
        <3> QED  BY <3>1, BasePositive
    <2>2. v[j] = v[j - 1] * Base + a[j] /\ w[j] = w[j - 1] * Base + b[j]
        BY <1>2, <1>3
    <2>3. CASE j < i
        <3>1. a[j] = b[j] /\ v[j - 1] = w[j - 1]  BY <1>0, <1>5, <2>3
        <3>2. v[j] = w[j]  BY <2>2, <3>1
        <3> QED  BY <2>3, <3>2
    <2>4. CASE j = i
        <3>1. v[j - 1] = w[j - 1] /\ a[j] < b[j]  BY <1>0, <1>5, <2>4
        <3>2. v[j] < w[j]
            BY <1>1, <2>1, <2>2, <3>1
        <3> QED  BY <2>4, <3>2, <1>0
    <2>5. CASE j > i
        <3>1. v[j - 1] < w[j - 1]  BY <1>0, <1>5, <2>5
        <3>2. \A x, y \in Nat : x < y => x * Base + Base <= y * Base
            BY BasePositive
        <3>3. v[j] < w[j]
            <4>1. v[j - 1] * Base + Base <= w[j - 1] * Base  BY <2>1, <3>1, <3>2
            <4>2. a[j] \in Nat /\ b[j] \in Nat /\ a[j] < Base /\ Base \in Nat
                BY <1>1, BasePositive
            <4>3. \A x, y, u, z \in Nat :
                      x + Base <= y /\ u < Base => x + u < y + z
                BY <4>2
            <4>4. v[j - 1] * Base + a[j] < w[j - 1] * Base + b[j]
                BY <2>1, <4>1, <4>2, <4>3, Zenon
            <4> QED  BY <2>2, <4>4, Zenon
        <3> QED  BY <2>5, <3>3, <1>0
    <2> QED  BY <2>3, <2>4, <2>5, <1>0
<1> HIDE DEF Good
<1>6. 0 .. width \subseteq Good
    BY <1>0, <1>4, <1>5, RangeInduction
<1>7. width \in Good /\ ~(width < i)
    BY <1>0, <1>6
<1> QED  BY <1>2, <1>3, <1>7 DEF Good

-----------------------------------------------------------------------------
(* Scans. The upper bound of a prefix keeps zeros where its carry has      *)
(* passed, so a key that is shorter than the prefix and larger at the      *)
(* first byte in which they differ lies between the bounds as well. No key *)
(* of the database does: its names carry their lengths in front.           *)

(* A key between the bounds of a scan.                                     *)
Between(k, prefix) ==
    /\ ~Precedes(k, prefix)
    /\ prefixUpperBound(prefix) = Unbounded \/ Precedes(k, prefixUpperBound(prefix))

StartsWith(k, prefix) ==
    Len(prefix) <= Len(k) /\ \A j \in 1 .. Len(prefix) : k[j] = prefix[j]

(* A prefix with a byte to increment has an upper bound: the last one is.  *)
LEMMA UpperBound ==
    ASSUME NEW prefix \in Bytes, NEW i \in 1 .. Len(prefix), prefix[i] < Base - 1
    PROVE  \E last \in i .. Len(prefix) :
              /\ last \in 1 .. Len(prefix)
              /\ prefixUpperBound(prefix) # Unbounded
              /\ Len(prefixUpperBound(prefix)) = Len(prefix)
              /\ \A j \in 1 .. last - 1 : prefixUpperBound(prefix)[j] = prefix[j]
              /\ prefixUpperBound(prefix)[last] = prefix[last] + 1
              /\ \A j \in last + 1 .. Len(prefix) : prefixUpperBound(prefix)[j] = 0
<1> DEFINE low == {j \in DOMAIN prefix : prefix[j] # Base - 1}
           last == CHOOSE j \in low : \A l \in low : l <= j
           upper == [j \in DOMAIN prefix |-> IF j < last THEN prefix[j]
                                             ELSE IF j = last THEN prefix[j] + 1 ELSE 0]
<1>1. DOMAIN prefix = 1 .. Len(prefix) /\ Len(prefix) \in Nat
    BY LenProperties DEF Bytes
<1>2. i \in low
    BY <1>1, BytesFacts, BasePositive
<1>3. \E j \in low : \A l \in low : l <= j
    <2> DEFINE T == {Len(prefix) - j : j \in low}
    <2>1. T \in SUBSET Nat /\ T # {}
        BY <1>1, <1>2
    <2> HIDE DEF T
    <2>2. PICK x \in T : \A y \in T : x <= y
        BY <2>1, LeastNatural
    <2> USE DEF T
    <2>3. PICK j \in low : x = Len(prefix) - j
        BY <2>2
    <2>4. ASSUME NEW l \in low PROVE l <= j
        <3>1. x <= Len(prefix) - l  BY <2>2
        <3> QED  BY <1>1, <2>3, <3>1
    <2> QED  BY <2>4
<1>4. last \in low /\ \A l \in low : l <= last
    <2> HIDE DEF low
    <2> QED  BY <1>3
<1>5. prefixUpperBound(prefix) = upper
    <2>1. low # {}  BY <1>2
    <2> QED  BY <2>1, Zenon DEF prefixUpperBound
<1>6. last \in 1 .. Len(prefix) /\ last \in i .. Len(prefix)
    <2>1. last \in 1 .. Len(prefix)  BY <1>1, <1>4
    <2>2. i <= last  BY <1>2, <1>4
    <2> HIDE DEF last
    <2> QED  BY <2>1, <2>2
<1> HIDE DEF last, low
<1>7. /\ DOMAIN upper = 1 .. Len(prefix)
      /\ \A j \in 1 .. last - 1 : upper[j] = prefix[j]
      /\ upper[last] = prefix[last] + 1
      /\ \A j \in last + 1 .. Len(prefix) : upper[j] = 0
    BY <1>1, <1>6
<1>8. Len(upper) = Len(prefix) /\ upper # <<>>
    <2>1. \A j \in 1 .. Len(prefix) : upper[j] \in Nat  BY <1>1, BytesFacts
    <2>2. upper \in [1 .. Len(prefix) -> Nat]  BY <1>1, <2>1
    <2>3. upper \in Seq(Nat)  BY <1>1, <2>2
    <2> HIDE DEF upper
    <2>4. Len(upper) = Len(prefix)  BY <1>1, <1>7, <2>3, LenProperties
    <2> QED  BY <1>1, <2>4
<1> HIDE DEF upper
<1> QED  BY <1>5, <1>6, <1>7, <1>8 DEF Unbounded

(* The scan finds what starts with the prefix.                             *)
LEMMA ScanFinds ==
    ASSUME NEW prefix \in Bytes, NEW k \in Bytes, StartsWith(k, prefix),
           NEW i \in 1 .. Len(prefix), prefix[i] < Base - 1
    PROVE  Between(k, prefix)
<1>1. Len(k) \in Nat /\ Len(prefix) \in Nat  BY BytesFacts
<1>2. \A j \in 1 .. Len(prefix) :
          prefix[j] \in Nat /\ k[j] \in Nat /\ k[j] = prefix[j] /\ j <= Len(k)
    BY <1>1, BytesFacts DEF StartsWith
<1>3. ~Precedes(k, prefix)
    BY <1>2 DEF Precedes
<1>4. PICK last \in 1 .. Len(prefix) :
          /\ Len(prefixUpperBound(prefix)) = Len(prefix)
          /\ \A j \in 1 .. last - 1 : prefixUpperBound(prefix)[j] = prefix[j]
          /\ prefixUpperBound(prefix)[last] = prefix[last] + 1
    BY UpperBound
<1>5. \A j \in 1 .. last - 1 : j \in 1 .. Len(prefix)
    BY <1>1
<1>6. Precedes(k, prefixUpperBound(prefix))
    <2>1. last \in 1 .. Len(prefixUpperBound(prefix))  BY <1>4
    <2>2. \A j \in 1 .. last - 1 : j <= Len(k) /\ k[j] = prefixUpperBound(prefix)[j]
        BY <1>2, <1>4, <1>5
    <2>3. k[last] < prefixUpperBound(prefix)[last]  BY <1>2, <1>4
    <2> QED  BY <2>1, <2>2, <2>3 DEF Precedes
<1> QED  BY <1>3, <1>6 DEF Between

(* What else is between the bounds is shorter than the prefix and larger   *)
(* at the first byte in which they differ: the upper bound ends with zeros *)
(* where the carry has passed.                                             *)
LEMMA ScanFindsElse ==
    ASSUME NEW prefix \in Bytes, NEW k \in Bytes, Between(k, prefix), ~StartsWith(k, prefix)
    PROVE  /\ Len(k) < Len(prefix)
           /\ \E i \in 1 .. Len(k) : prefix[i] < k[i] /\ \A j \in 1 .. i - 1 : k[j] = prefix[j]
           /\ k[1] = prefix[1] \/ k[1] = prefix[1] + 1
<1>1. Len(k) \in Nat /\ Len(prefix) \in Nat  BY BytesFacts
<1> DEFINE T == {i \in 1 .. Len(prefix) : i > Len(k) \/ k[i] # prefix[i]}
<1>2. T \in SUBSET Nat /\ T # {}
    BY <1>1 DEF StartsWith
<1>3. PICK i \in T : \A j \in T : i <= j
    <2> HIDE DEF T
    <2> QED  BY <1>2, LeastNatural
<1>4. /\ i \in 1 .. Len(prefix)
      /\ \A j \in 1 .. i - 1 : j <= Len(k) /\ k[j] = prefix[j]
    BY <1>1, <1>3
<1>5. ~(i <= Len(k) => k[i] < prefix[i])
    BY <1>4 DEF Between, Precedes
<1>6. i \in 1 .. Len(k) /\ prefix[i] < k[i]
    <2>1. i \in 1 .. Len(k)  BY <1>1, <1>4, <1>5
    <2>2. k[i] \in Nat /\ prefix[i] \in Nat  BY <2>1, <1>4, BytesFacts
    <2>3. k[i] # prefix[i]  BY <1>1, <1>3, <2>1
    <2> QED  BY <1>5, <2>1, <2>2, <2>3
<1>7. prefix[i] < Base - 1
    BY <1>4, <1>6, BytesFacts, BasePositive
<1> DEFINE upper == prefixUpperBound(prefix)
<1>8. PICK last \in i .. Len(prefix) :
          /\ last \in 1 .. Len(prefix) /\ upper # Unbounded /\ Len(upper) = Len(prefix)
          /\ \A j \in 1 .. last - 1 : upper[j] = prefix[j]
          /\ upper[last] = prefix[last] + 1
          /\ \A j \in last + 1 .. Len(prefix) : upper[j] = 0
    BY <1>4, <1>7, UpperBound
<1> HIDE DEF upper, T
<1>9. PICK m \in 1 .. Len(prefix) :
          /\ \A j \in 1 .. m - 1 : j <= Len(k) /\ k[j] = upper[j]
          /\ m <= Len(k) => k[m] < upper[m]
    BY <1>8 DEF Between, Precedes, upper
<1>10. \A j \in 1 .. Len(k) : k[j] \in Nat
    BY BytesFacts
<1>11. \A j \in 1 .. Len(prefix) : prefix[j] \in Nat
    BY BytesFacts
<1>12. ~(m < i)
    <2> SUFFICES ASSUME m < i PROVE FALSE  OBVIOUS
    <2>1. m \in 1 .. i - 1 /\ m \in 1 .. last - 1  BY <1>1, <1>4, <1>8
    <2>2. m <= Len(k) /\ k[m] = upper[m]  BY <2>1, <1>4, <1>8
    <2>3. m \in 1 .. Len(k)  BY <1>1, <2>2
    <2> QED  BY <2>2, <2>3, <1>9, <1>10
<1>13. last = i
    <2> SUFFICES ASSUME last # i PROVE FALSE  OBVIOUS
    <2>1. i \in 1 .. last - 1  BY <1>1, <1>4, <1>8
    <2>2. upper[i] = prefix[i] /\ k[i] \in Nat /\ prefix[i] \in Nat
        BY <2>1, <1>4, <1>6, <1>8, <1>10, <1>11
    <2>3. CASE m = i  BY <2>2, <2>3, <1>6, <1>9
    <2>4. CASE m > i
        <3>1. i \in 1 .. m - 1  BY <1>4, <2>4
        <3> QED  BY <3>1, <2>2, <1>6, <1>9
    <2> QED  BY <2>3, <2>4, <1>12, <1>4
<1>14. m > i
    <2> SUFFICES ASSUME m = i PROVE FALSE  BY <1>12, <1>4
    <2>1. k[i] \in Nat /\ prefix[i] \in Nat  BY <1>4, <1>6, <1>10, <1>11
    <2>2. k[i] < prefix[i] + 1  BY <1>6, <1>8, <1>9, <1>13
    <2> QED  BY <2>1, <2>2, <1>6
<1>15. k[i] = prefix[i] + 1
    <2>1. i \in 1 .. m - 1  BY <1>4, <1>14
    <2> QED  BY <2>1, <1>8, <1>9, <1>13
<1>16. Len(k) < Len(prefix)
    <2> SUFFICES ASSUME m <= Len(k) PROVE FALSE  BY <1>1
    <2>1. m \in last + 1 .. Len(prefix) /\ m \in 1 .. Len(k)  BY <1>1, <1>13, <1>14
    <2>2. upper[m] = 0 /\ k[m] \in Nat  BY <2>1, <1>8, <1>10
    <2> QED  BY <2>2, <1>9
<1>17. k[1] = prefix[1] \/ k[1] = prefix[1] + 1
    <2>1. CASE i = 1  BY <2>1, <1>15
    <2>2. CASE i > 1
        <3>1. 1 \in 1 .. i - 1  BY <2>2, <1>4
        <3> QED  BY <3>1, <1>4
    <2> QED  BY <2>1, <2>2, <1>4
<1> QED  BY <1>4, <1>6, <1>16, <1>17

(* The first bytes of the key of an attribute's value: the byte of its     *)
(* type and the length of its name.                                        *)
LEMMA KeyHead ==
    ASSUME NEW p \in IndexKeys
    PROVE  /\ BitmapKey(p)[1] = KindByte(p[1])
           /\ \A i \in 1 .. LenWidth :
                 BitmapKey(p)[1 + i] = BigEndian(Len(p[2]), LenWidth)[i]
<1> DEFINE name == p[2]
           b == KindByte(p[1])
           rest == ValueBytes(p)
           head == NamePrefix(b, name)
<1>1. b \in Byte /\ name \in Bytes /\ rest \in Bytes /\ BitmapKey(p) = Join(head, rest)
    BY KeyShape
<1> HIDE DEF name, b, rest
<1>2. head \in Bytes /\ Len(head) = 1 + LenWidth + Len(name)
    BY <1>1, NamePrefixShape DEF NameStart
<1>3. head[1] = b /\ \A i \in 1 .. LenWidth : head[1 + i] = BigEndian(Len(name), LenWidth)[i]
    BY <1>1, NamePrefixShape
<1> HIDE DEF head
<1>4. \A i \in 1 .. Len(head) : BitmapKey(p)[i] = head[i]
    <2>1. \A i \in 1 .. Len(head) : Join(head, rest)[i] = head[i]
        BY <1>1, <1>2, JoinFacts
    <2> QED  BY <1>1, <2>1
<1>5. 1 \in 1 .. Len(head) /\ \A i \in 1 .. LenWidth : 1 + i \in 1 .. Len(head)
    <2>1. LenWidth \in Nat /\ Len(name) \in Nat  BY <1>1, BytesFacts, EncodingAssumption
    <2> QED  BY <1>2, <2>1
<1>6. BitmapKey(p)[1] = b /\ \A i \in 1 .. LenWidth :
          BitmapKey(p)[1 + i] = BigEndian(Len(name), LenWidth)[i]
    BY <1>3, <1>4, <1>5
<1> QED  BY <1>6 DEF name, b

(* A string that starts with another continues it.                         *)
LEMMA StartsWithJoins ==
    ASSUME NEW k \in Bytes, NEW prefix \in Bytes, StartsWith(k, prefix)
    PROVE  \E rest \in Bytes : k = Join(prefix, rest)
<1>1. Len(k) \in Nat /\ Len(prefix) \in Nat /\ Len(prefix) <= Len(k)
    BY BytesFacts DEF StartsWith
<1> DEFINE n == Len(k) - Len(prefix)
           rest == SubSeq(k, Len(prefix) + 1, Len(prefix) + n)
<1>2. n \in Nat /\ Len(prefix) + n = Len(k)
    BY <1>1
<1> HIDE DEF n
<1>3. /\ rest \in Bytes /\ Len(rest) = n
      /\ \A i \in 1 .. n : rest[i] = k[Len(prefix) + i]
    <2> DEFINE m == Len(prefix)
    <2>1. m \in Nat /\ m + n <= Len(k)  BY <1>1, <1>2
    <2> HIDE DEF m
    <2>2. /\ SubSeq(k, m + 1, m + n) \in Bytes /\ Len(SubSeq(k, m + 1, m + n)) = n
          /\ \A i \in 1 .. n : SubSeq(k, m + 1, m + n)[i] = k[m + i]
        BY <1>2, <2>1, SubSeqFacts
    <2> QED  BY <2>2 DEF m
<1> HIDE DEF rest
<1>4. /\ Join(prefix, rest) \in Bytes
      /\ Len(Join(prefix, rest)) = Len(prefix) + Len(rest)
      /\ \A i \in 1 .. Len(prefix) : Join(prefix, rest)[i] = prefix[i]
      /\ \A i \in 1 .. Len(rest) : Join(prefix, rest)[Len(prefix) + i] = rest[i]
    BY <1>3, JoinFacts
<1>5. ASSUME NEW i \in 1 .. Len(k) PROVE k[i] = Join(prefix, rest)[i]
    <2>1. CASE i \in 1 .. Len(prefix)
        BY <2>1, <1>4 DEF StartsWith
    <2>2. CASE i > Len(prefix)
        <3>1. i - Len(prefix) \in 1 .. n /\ Len(prefix) + (i - Len(prefix)) = i
            BY <2>2, <1>1, <1>2
        <3> QED  BY <3>1, <1>3, <1>4
    <2> QED  BY <2>1, <2>2, <1>1
<1>6. k = Join(prefix, rest)
    BY <1>2, <1>3, <1>4, <1>5, SameBytes
<1> QED  BY <1>3, <1>6

(* What follows a prefix leaves it as it is.                               *)
LEMMA JoinStartsWith ==
    ASSUME NEW prefix \in Bytes, NEW rest \in Bytes
    PROVE  StartsWith(Join(prefix, rest), prefix)
<1>1. Len(prefix) \in Nat /\ Len(rest) \in Nat  BY BytesFacts
<1>2. /\ Len(Join(prefix, rest)) = Len(prefix) + Len(rest)
      /\ \A i \in 1 .. Len(prefix) : Join(prefix, rest)[i] = prefix[i]
    BY JoinFacts
<1> QED  BY <1>1, <1>2 DEF StartsWith

(* A scan of the values of an attribute finds the keys of that attribute.  *)
LEMMA ScanOfName ==
    ASSUME NEW p \in IndexKeys, NameFits(p), NEW kind \in {"str", "num"},
           NEW name \in Bytes, Len(name) < Capacity(LenWidth)
    PROVE  Between(BitmapKey(p), NamePrefix(KindByte(kind), name))
              <=> p[1] = kind /\ p[2] = name
<1> DEFINE k == BitmapKey(p)
           prefix == NamePrefix(KindByte(kind), name)
<1>1. /\ KindByte(kind) \in Byte /\ KindByte(kind) \in Nat
      /\ KindByte(kind) + 1 \in {17, 33} /\ KindByte(kind) < Base - 1
      /\ KindByte(p[1]) \in {16, 32}
    BY EncodingAssumption DEF KindByte, Byte, prefixStringBitmap, prefixNumericBitmap
<1>2. /\ prefix \in Bytes /\ Len(prefix) = 1 + LenWidth + Len(name)
      /\ prefix[1] = KindByte(kind) /\ LenWidth \in Nat /\ Len(name) \in Nat
      /\ \A i \in 1 .. LenWidth : prefix[1 + i] = BigEndian(Len(name), LenWidth)[i]
    <2> DEFINE b == KindByte(kind)
    <2>1. b \in Byte  BY <1>1
    <2> HIDE DEF b
    <2>2. /\ NamePrefix(b, name) \in Bytes /\ Len(NamePrefix(b, name)) = NameStart + Len(name)
          /\ NamePrefix(b, name)[1] = b /\ LenWidth \in Nat /\ Len(name) \in Nat
          /\ NameStart = 1 + LenWidth
        BY <2>1, NamePrefixShape
    <2>3. \A i \in 1 .. LenWidth :
              NamePrefix(b, name)[1 + i] = BigEndian(Len(name), LenWidth)[i]
        BY <2>1, NamePrefixShape
    <2> QED  BY <2>2, <2>3 DEF b
<1>3. /\ k \in Bytes /\ Len(k) = 1 + LenWidth + Len(p[2]) + Len(ValueBytes(p))
      /\ p[2] \in Bytes /\ ValueBytes(p) \in Bytes /\ KindByte(p[1]) \in Byte
      /\ Len(p[2]) \in Nat /\ Len(ValueBytes(p)) \in Nat
      /\ k = Join(NamePrefix(KindByte(p[1]), p[2]), ValueBytes(p))
      /\ p[1] \in {"str", "num"}
    BY KeyShape, BytesFacts DEF NameStart
<1>4. /\ k[1] = KindByte(p[1])
      /\ \A i \in 1 .. LenWidth : k[1 + i] = BigEndian(Len(p[2]), LenWidth)[i]
    BY KeyHead
<1>5. KindByte(p[1]) = KindByte(kind) => p[1] = kind
    BY <1>3 DEF KindByte, prefixStringBitmap, prefixNumericBitmap
<1> HIDE DEF k, prefix
<1>6. ASSUME p[1] = kind, p[2] = name PROVE Between(k, prefix)
    <2>1. StartsWith(k, prefix)
        <3>1. NamePrefix(KindByte(p[1]), p[2]) = prefix  BY <1>6 DEF prefix
        <3> QED  BY <3>1, <1>2, <1>3, JoinStartsWith
    <2>2. 1 \in 1 .. Len(prefix) /\ prefix[1] < Base - 1  BY <1>1, <1>2
    <2> QED  BY <1>2, <1>3, <2>1, <2>2, ScanFinds
<1>7. ASSUME Between(k, prefix), StartsWith(k, prefix) PROVE p[1] = kind /\ p[2] = name
    <2>1. PICK rest \in Bytes : k = Join(prefix, rest)
        BY <1>2, <1>3, <1>7, StartsWithJoins
    <2> DEFINE b == KindByte(kind)
               c == KindByte(p[1])
               n == p[2]
               v == ValueBytes(p)
    <2>2. /\ b \in Byte /\ c \in Byte /\ n \in Bytes /\ v \in Bytes
          /\ Join(NamePrefix(b, name), rest) = Join(NamePrefix(c, n), v)
          /\ Len(n) < Capacity(LenWidth)
        BY <1>1, <1>3, <2>1 DEF NameFits, prefix
    <2> HIDE DEF b, c, n, v
    <2>3. b = c /\ name = n  BY <2>2, NamesDelimited
    <2> QED  BY <2>3, <1>5 DEF b, c, n
<1>8. ASSUME Between(k, prefix), ~StartsWith(k, prefix) PROVE FALSE
    <2>1. /\ Len(k) < Len(prefix)
          /\ \E i \in 1 .. Len(k) : prefix[i] < k[i] /\ \A j \in 1 .. i - 1 : k[j] = prefix[j]
          /\ k[1] = prefix[1] \/ k[1] = prefix[1] + 1
        BY <1>2, <1>3, <1>8, ScanFindsElse
    <2>2. k[1] = prefix[1]
        BY <1>1, <1>2, <1>4, <2>1
    <2>3. Len(p[2]) < Len(name)
        <3> DEFINE x == Len(p[2])
                   y == Len(ValueBytes(p))
                   z == Len(name)
        <3>1. x \in Nat /\ y \in Nat /\ z \in Nat /\ LenWidth \in Nat  BY <1>2, <1>3
        <3>2. 1 + LenWidth + x + y < 1 + LenWidth + z  BY <1>2, <1>3, <2>1
        <3> HIDE DEF x, y, z
        <3>3. x < z  BY <3>1, <3>2
        <3> QED  BY <3>3 DEF x, z
    <2>4. PICK i \in 1 .. Len(k) : prefix[i] < k[i] /\ \A j \in 1 .. i - 1 : k[j] = prefix[j]
        BY <2>1
    <2> DEFINE a == BigEndian(Len(name), LenWidth)
               b == BigEndian(Len(p[2]), LenWidth)
    <2>5. a \in Bytes /\ b \in Bytes /\ Len(a) = LenWidth /\ Len(b) = LenWidth
        BY <1>2, <1>3, BigEndianBytes
    <2>6. Number(a) = Len(name) /\ Number(b) = Len(p[2])
        BY <1>2, <1>3, RoundTrip DEF NameFits
    <2>7. \A l \in 1 .. LenWidth : prefix[1 + l] = a[l] /\ k[1 + l] = b[l]
        BY <1>2, <1>4
    <2> HIDE DEF a, b
    <2>8. i # 1
        <3>1. k[1] \in Nat  BY <1>1, <1>4
        <3> QED  BY <2>2, <2>4, <3>1
    <2>9. CASE i \in 2 .. 1 + LenWidth
        <3>1. i - 1 \in 1 .. Len(a) /\ 1 + (i - 1) = i  BY <1>2, <2>5, <2>9
        <3>2. a[i - 1] < b[i - 1]  BY <2>4, <2>5, <2>7, <3>1
        <3>3. \A j \in 1 .. (i - 1) - 1 : a[j] = b[j]
            <4> SUFFICES ASSUME NEW j \in 1 .. (i - 1) - 1 PROVE a[j] = b[j]  OBVIOUS
            <4>1. j \in 1 .. LenWidth /\ 1 + j \in 1 .. i - 1  BY <1>2, <2>9
            <4> QED  BY <4>1, <2>4, <2>7
        <3>4. Number(a) < Number(b)
            BY <2>5, <3>1, <3>2, <3>3, FirstByteDecides
        <3> QED  BY <2>3, <2>6, <3>4, <1>2, <1>3
    <2>10. CASE i > 1 + LenWidth
        <3>1. ASSUME NEW j \in 1 .. LenWidth PROVE a[j] = b[j]
            <4>1. 1 + j \in 1 .. i - 1  BY <1>2, <2>10
            <4> QED  BY <4>1, <2>4, <2>7
        <3>2. a = b  BY <2>5, <3>1, SameBytes
        <3> QED  BY <2>3, <2>6, <3>2, <1>2, <1>3
    <2> QED  BY <2>8, <2>9, <2>10, <1>2
<1>9. Between(k, prefix) <=> p[1] = kind /\ p[2] = name
    BY <1>6, <1>7, <1>8
<1> QED  BY <1>9 DEF k, prefix

(* It finds no key of another key space.                                   *)
LEMMA ScanOfNameOnly ==
    ASSUME NEW k \in Bytes, Len(k) > 0, NEW kind \in {"str", "num"},
           k[1] \in Nat, k[1] < prefixStringBitmap,
           NEW name \in Bytes
    PROVE  ~Between(k, NamePrefix(KindByte(kind), name))
<1> DEFINE prefix == NamePrefix(KindByte(kind), name)
<1>1. KindByte(kind) \in Byte /\ KindByte(kind) >= 16
    BY EncodingAssumption DEF KindByte, Byte, prefixStringBitmap, prefixNumericBitmap
<1>2. /\ prefix \in Bytes /\ Len(prefix) = 1 + LenWidth + Len(name)
      /\ prefix[1] = KindByte(kind) /\ LenWidth \in Nat /\ Len(name) \in Nat
    BY <1>1, NamePrefixShape
<1>3. k[1] < prefix[1] /\ k[1] # prefix[1] /\ 1 \in 1 .. Len(prefix)
    <2>1. KindByte(kind) \in Nat  BY <1>1 DEF Byte
    <2> QED  BY <1>1, <1>2, <2>1 DEF prefixStringBitmap
<1> HIDE DEF prefix
<1>4. Precedes(k, prefix)
    BY <1>3 DEF Precedes
<1> QED  BY <1>4 DEF Between, prefix

(* The scan of the entities finds the keys that begin with their byte.     *)
LEMMA ScanOfEntities ==
    ASSUME NEW k \in Bytes, Len(k) > 0
    PROVE  Between(k, <<prefixEntityCurrent>>) <=> k[1] = prefixEntityCurrent
<1> DEFINE prefix == <<prefixEntityCurrent>>
<1>1. /\ prefix \in Bytes /\ Len(prefix) = 1 /\ prefix[1] = 3 /\ 3 < Base - 1
      /\ prefixEntityCurrent = 3
    BY EncodingAssumption DEF Bytes, Byte, prefixEntityCurrent
<1>2. StartsWith(k, prefix) <=> k[1] = 3
    BY <1>1, BytesFacts DEF StartsWith
<1> HIDE DEF prefix
<1>3. StartsWith(k, prefix) => Between(k, prefix)
    <2>1. 1 \in 1 .. Len(prefix) /\ prefix[1] < Base - 1  BY <1>1
    <2> QED  BY <1>1, <2>1, ScanFinds
<1>4. Between(k, prefix) => StartsWith(k, prefix)
    <2>1. Len(k) \in Nat  BY BytesFacts
    <2> SUFFICES ASSUME Between(k, prefix), ~StartsWith(k, prefix) PROVE FALSE
        OBVIOUS
    <2>2. Len(k) < Len(prefix)  BY <1>1, ScanFindsElse
    <2> QED  BY <1>1, <2>1, <2>2
<1> QED  BY <1>1, <1>2, <1>3, <1>4 DEF prefix

-----------------------------------------------------------------------------
(* Decoding of keys.                                                       *)

(* The end of a string is found again behind its beginning.                *)
LEMMA Rest ==
    ASSUME NEW a \in Bytes, NEW b \in Bytes
    PROVE  SubSeq(Join(a, b), Len(a) + 1, Len(a) + Len(b)) = b
<1>1. Len(a) \in Nat /\ Len(b) \in Nat  BY BytesFacts
<1>2. /\ Join(a, b) \in Bytes /\ Len(Join(a, b)) = Len(a) + Len(b)
      /\ \A i \in 1 .. Len(b) : Join(a, b)[Len(a) + i] = b[i]
    BY JoinFacts
<1> DEFINE s == Join(a, b)
           m == Len(a)
           n == Len(b)
           t == SubSeq(s, m + 1, m + n)
<1>3. s \in Bytes /\ m \in Nat /\ n \in Nat /\ m + n <= Len(s)
    BY <1>1, <1>2
<1> HIDE DEF s, m, n
<1>4. t \in Bytes /\ Len(t) = n /\ \A i \in 1 .. n : t[i] = s[m + i]
    BY <1>3, SubSeqFacts
<1> HIDE DEF t
<1>5. \A i \in 1 .. n : s[m + i] = b[i]
    BY <1>2 DEF s, m, n
<1>6. t = b
    BY <1>4, <1>5, SameBytes DEF n
<1> QED  BY <1>6 DEF s, m, n, t

(* Where the parts of a key are.                                           *)
LEMMA KeySlices ==
    ASSUME NEW p \in IndexKeys
    PROVE  LET key == BitmapKey(p)
               end == NameStart + Len(p[2])
           IN  /\ Slice(key, 1, NameStart) = BigEndian(Len(p[2]), LenWidth)
               /\ p[1] = "str" =>
                     /\ Slice(key, end, end + LenWidth) = BigEndian(Len(p[3]), LenWidth)
                     /\ Slice(key, end + LenWidth, end + LenWidth + Len(p[3])) = p[3]
                     /\ Len(key) = end + LenWidth + Len(p[3])
               /\ p[1] = "num" =>
                     /\ Slice(key, end, end + NumWidth) = BigEndian(p[3], NumWidth)
                     /\ Len(key) = end + NumWidth
<1> DEFINE key == BitmapKey(p)
           name == p[2]
           value == p[3]
           b == KindByte(p[1])
           rest == ValueBytes(p)
           len == BigEndian(Len(name), LenWidth)
           head == NamePrefix(b, name)
           end == NameStart + Len(name)
<1>1. /\ b \in Byte /\ name \in Bytes /\ rest \in Bytes /\ key = Join(head, rest)
      /\ key \in Bytes /\ Len(key) = end + Len(rest) /\ <<b>> \in Bytes
      /\ p[1] = "str" => value \in Bytes
      /\ p[1] = "num" => value \in Nat
    BY KeyShape DEF Bytes
<1>2. LenWidth \in Nat /\ NumWidth \in Nat /\ Len(name) \in Nat /\ Len(rest) \in Nat
    BY <1>1, BytesFacts, EncodingAssumption
<1>3. p[1] = "str" => rest = Join(BigEndian(Len(value), LenWidth), value)
    BY DEF ValueBytes, Join
<1>4. p[1] = "num" => rest = BigEndian(value, NumWidth)
    BY DEF ValueBytes
<1> HIDE DEF key, name, value, b, rest
<1>5. len \in Bytes /\ Len(len) = LenWidth
    BY <1>2, BigEndianBytes
<1>6. head \in Bytes /\ Len(head) = end /\ head = Join(Join(<<b>>, len), name)
    BY <1>1, NamePrefixShape
<1>7. Slice(key, 1, NameStart) = len
    <2> HIDE DEF len
    <2>1. head = Join(<<b>>, Join(len, name)) /\ Join(len, name) \in Bytes
        BY <1>1, <1>5, <1>6, JoinAssociates, JoinFacts
    <2>2. Join(head, rest) = Join(<<b>>, Join(Join(len, name), rest))
        BY <1>1, <2>1, JoinAssociates
    <2>3. Join(Join(len, name), rest) = Join(len, Join(name, rest)) /\ Join(name, rest) \in Bytes
        BY <1>1, <1>5, JoinAssociates, JoinFacts
    <2>4. key = Join(<<b>>, Join(len, Join(name, rest)))
        BY <1>1, <2>2, <2>3
    <2> DEFINE first == <<b>>
               tail == Join(name, rest)
    <2>5. SubSeq(key, Len(first) + 1, Len(first) + Len(len)) = len
        <3>1. first \in Bytes /\ tail \in Bytes /\ len \in Bytes /\ key = Join(first, Join(len, tail))
            BY <1>1, <1>5, <2>3, <2>4
        <3> HIDE DEF first, tail
        <3> QED  BY <3>1, Middle
    <2>6. Len(<<b>>) = 1  OBVIOUS
    <2> QED  BY <1>5, <2>5, <2>6 DEF Slice, NameStart
<1>8. end \in Nat
    BY <1>2 DEF NameStart
<1> HIDE DEF head, end
<1>9. ASSUME p[1] = "str"
      PROVE  /\ Slice(key, end, end + LenWidth) = BigEndian(Len(value), LenWidth)
             /\ Slice(key, end + LenWidth, end + LenWidth + Len(value)) = value
             /\ Len(key) = end + LenWidth + Len(value)
    <2> DEFINE size == BigEndian(Len(value), LenWidth)
    <2>1. value \in Bytes /\ Len(value) \in Nat /\ rest = Join(size, value)
        BY <1>1, <1>3, <1>9, BytesFacts
    <2>2. size \in Bytes /\ Len(size) = LenWidth
        BY <1>2, <2>1, BigEndianBytes
    <2> HIDE DEF size
    <2>3. key = Join(head, Join(size, value))
        BY <1>1, <2>1
    <2>4. SubSeq(key, Len(head) + 1, Len(head) + Len(size)) = size
        BY <1>6, <2>1, <2>2, <2>3, Middle
    <2>5. key = Join(Join(head, size), value)
        BY <1>6, <2>1, <2>2, <2>3, JoinAssociates
    <2>6. Join(head, size) \in Bytes /\ Len(Join(head, size)) = end + LenWidth
        <3>1. Join(head, size) \in Bytes /\ Len(Join(head, size)) = Len(head) + Len(size)
            BY <1>6, <2>2, JoinFacts
        <3> QED  BY <3>1, <1>6, <2>2
    <2>7. SubSeq(key, end + LenWidth + 1, end + LenWidth + Len(value)) = value
        <3> DEFINE front == Join(head, size)
        <3> HIDE DEF front
        <3>1. SubSeq(Join(front, value), Len(front) + 1, Len(front) + Len(value)) = value
            BY <2>1, <2>6, Rest DEF front
        <3> QED  BY <2>5, <2>6, <3>1 DEF front
    <2>8. Len(key) = end + LenWidth + Len(value)
        <3>1. Len(rest) = Len(size) + Len(value)  BY <2>1, <2>2, JoinFacts
        <3> QED  BY <1>1, <1>2, <1>8, <2>1, <2>2, <3>1 DEF end
    <2> QED  BY <1>6, <2>2, <2>4, <2>7, <2>8 DEF Slice, size
<1>10. ASSUME p[1] = "num"
      PROVE  /\ Slice(key, end, end + NumWidth) = BigEndian(value, NumWidth)
             /\ Len(key) = end + NumWidth
    <2>1. value \in Nat /\ rest = BigEndian(value, NumWidth)
        BY <1>1, <1>4, <1>10
    <2>2. Len(rest) = NumWidth
        BY <1>2, <2>1, BigEndianBytes
    <2>3. SubSeq(key, Len(head) + 1, Len(head) + Len(rest)) = rest
        BY <1>1, <1>6, Rest
    <2>4. Len(key) = end + NumWidth
        BY <1>1, <2>2 DEF end
    <2> QED  BY <1>6, <2>1, <2>2, <2>3, <2>4 DEF Slice
<1> QED  BY <1>7, <1>9, <1>10 DEF key, name, value, len, end

(* 16-bit arithmetic.                                                      *)
LEMMA Uint16Facts ==
    /\ Capacity(LenWidth) \in Nat /\ NameStart <= Capacity(LenWidth)
    /\ LenWidth \in Nat /\ LenWidth < Capacity(LenWidth) /\ NameStart \in Nat
    /\ \A n \in Nat : n < Capacity(LenWidth) => Uint16(n) = n
    /\ \A n, m \in Nat :
          n <= Capacity(LenWidth) /\ m < Capacity(LenWidth) /\ n + m >= Capacity(LenWidth)
              => Uint16(n + m) \in Nat /\ Uint16(n + m) < n
<1>1. LenWidth \in Nat  BY EncodingAssumption
<1>2. Capacity(LenWidth) \in Nat /\ LenWidth < Capacity(LenWidth)
    BY <1>1, CapacityExceedsWidth
<1>3. NameStart <= Capacity(LenWidth) /\ NameStart \in Nat
    BY <1>1, <1>2 DEF NameStart
<1>4. \A c, n \in Nat : n < c => n % c = n
    OBVIOUS
<1>5. \A c, n, m \in Nat : n <= c /\ m < c /\ n + m >= c => (n + m) % c = n + m - c
    OBVIOUS
<1>6. \A n \in Nat : n < Capacity(LenWidth) => Uint16(n) = n
    BY <1>2, <1>4 DEF Uint16
<1>7. ASSUME NEW n \in Nat, NEW m \in Nat, n <= Capacity(LenWidth),
             m < Capacity(LenWidth), n + m >= Capacity(LenWidth)
      PROVE  Uint16(n + m) \in Nat /\ Uint16(n + m) < n
    <2>1. Uint16(n + m) = n + m - Capacity(LenWidth)
        BY <1>2, <1>5, <1>7 DEF Uint16
    <2> QED  BY <1>2, <1>7, <2>1
<1> QED  BY <1>1, <1>2, <1>3, <1>6, <1>7

(* Where the decoders find the end of the name: behind it, or before its   *)
(* beginning when the sum of the lengths has wrapped.                      *)
LEMMA NameEndOfKey ==
    ASSUME NEW p \in IndexKeys, NameFits(p)
    PROVE  LET end == NameStart + Len(p[2])
           IN  /\ end \in Nat
               /\ end < Capacity(LenWidth) => NameEnd(BitmapKey(p)) = end
               /\ end >= Capacity(LenWidth) =>
                     NameEnd(BitmapKey(p)) \in Nat /\ NameEnd(BitmapKey(p)) < NameStart
<1> DEFINE m == Len(p[2])
           end == NameStart + m
<1>1. m \in Nat /\ m < Capacity(LenWidth)
    BY KeyShape, BytesFacts DEF NameFits
<1>2. Number(Slice(BitmapKey(p), 1, NameStart)) = m
    <2>1. Slice(BitmapKey(p), 1, NameStart) = BigEndian(m, LenWidth)
        BY KeySlices
    <2> HIDE DEF m
    <2> QED  BY <1>1, <2>1, RoundTrip, Uint16Facts
<1> HIDE DEF m
<1>3. NameEnd(BitmapKey(p)) = Uint16(end)
    BY <1>2 DEF NameEnd
<1>4. end \in Nat
    BY <1>1, Uint16Facts
<1>5. end < Capacity(LenWidth) => Uint16(end) = end
    BY <1>4, Uint16Facts
<1>6. end >= Capacity(LenWidth) => Uint16(end) \in Nat /\ Uint16(end) < NameStart
    BY <1>1, Uint16Facts
<1> QED  BY <1>3, <1>4, <1>5, <1>6 DEF m

(* A number is decoded from its key, if the offsets do not wrap.           *)
LEMMA NumberDecodes ==
    ASSUME NEW p \in IndexKeys, p[1] = "num", NameFits(p), NumberFits(p)
    PROVE  decodeNumericBitmapKey(BitmapKey(p)) = IF Fits(p) THEN p[3] ELSE Panic
<1> DEFINE key == BitmapKey(p)
           end == NameStart + Len(p[2])
           value == p[3]
<1>1. /\ end \in Nat /\ NumWidth \in Nat /\ Len(key) = end + NumWidth
      /\ Slice(key, end, end + NumWidth) = BigEndian(value, NumWidth)
      /\ value \in Nat /\ value < Capacity(NumWidth)
      /\ Fits(p) <=> end < Capacity(LenWidth)
    <2>1. end \in Nat  BY NameEndOfKey
    <2>2. /\ Len(key) = end + NumWidth
          /\ Slice(key, end, end + NumWidth) = BigEndian(value, NumWidth)
        BY KeySlices
    <2>3. value \in Nat /\ value < Capacity(NumWidth)
        BY KeyShape DEF NumberFits
    <2>4. Fits(p) <=> end < Capacity(LenWidth)
        BY <2>1 DEF Fits
    <2> QED  BY <2>1, <2>2, <2>3, <2>4, EncodingAssumption
<1>2. Number(BigEndian(value, NumWidth)) = value
    <2> HIDE DEF value
    <2> QED  BY <1>1, RoundTrip
<1>3. /\ end < Capacity(LenWidth) => NameEnd(key) = end
      /\ end >= Capacity(LenWidth) => NameEnd(key) \in Nat /\ NameEnd(key) < NameStart
    BY NameEndOfKey
<1>4. NameStart \in Nat /\ NameStart <= end /\ Capacity(LenWidth) \in Nat
    BY Uint16Facts, KeyShape, BytesFacts
<1> HIDE DEF key, end, value
<1>5. CASE Fits(p)
    <2>1. NameEnd(key) = end  BY <1>1, <1>3, <1>5
    <2>2. CanSlice(key, NameStart, end) /\ end + NumWidth <= Len(key)
        BY <1>1, <1>4 DEF CanSlice
    <2>3. decodeNumericBitmapKey(key) = Number(Slice(key, end, end + NumWidth))
        BY <2>1, <2>2 DEF decodeNumericBitmapKey
    <2> QED  BY <1>1, <1>2, <1>5, <2>3 DEF key, value
<1>6. CASE ~Fits(p)
    <2>1. NameEnd(key) \in Nat /\ NameEnd(key) < NameStart  BY <1>1, <1>3, <1>4, <1>6
    <2>2. ~CanSlice(key, NameStart, NameEnd(key))  BY <2>1, <1>4 DEF CanSlice
    <2>3. decodeNumericBitmapKey(key) = Panic
        BY <2>2 DEF decodeNumericBitmapKey
    <2> QED  BY <1>6, <2>3 DEF key
<1> QED  BY <1>5, <1>6

(* A string is decoded from its key, if the offsets do not wrap.           *)
LEMMA StringDecodes ==
    ASSUME NEW p \in IndexKeys, p[1] = "str", NameFits(p), ValueFits(p)
    PROVE  decodeStringBitmapKey(BitmapKey(p)) = IF Fits(p) THEN p[3] ELSE Panic
<1> DEFINE key == BitmapKey(p)
           end == NameStart + Len(p[2])
           value == p[3]
           cap == Capacity(LenWidth)
           size == Len(value)
           start == end + LenWidth
<1>1. value \in Bytes /\ size \in Nat /\ size < cap
    BY KeyShape, BytesFacts DEF ValueFits
<1>2. /\ end \in Nat /\ NameStart \in Nat /\ LenWidth \in Nat /\ cap \in Nat
      /\ NameStart <= end /\ NameStart <= cap /\ LenWidth < cap
    BY NameEndOfKey, Uint16Facts, KeyShape, BytesFacts
<1>3. /\ Slice(key, end, start) = BigEndian(size, LenWidth)
      /\ Slice(key, start, start + size) = value
      /\ Len(key) = start + size
    BY KeySlices
<1>4. Number(BigEndian(size, LenWidth)) = size
    <2> HIDE DEF size
    <2> QED  BY <1>1, <1>2, RoundTrip
<1>5. /\ end < cap => NameEnd(key) = end
      /\ end >= cap => NameEnd(key) \in Nat /\ NameEnd(key) < NameStart
    BY NameEndOfKey
<1>6. Fits(p) <=> start + size < cap
    <2>1. Fits(p) <=> NameStart + Len(p[2]) + (LenWidth + Len(p[3])) < cap
        BY DEF Fits
    <2>2. start + size = NameStart + Len(p[2]) + (LenWidth + Len(p[3]))
        <3> DEFINE a == NameStart + Len(p[2])
        <3>1. a \in Nat /\ start = a + LenWidth  BY <1>2
        <3> HIDE DEF a, start, size
        <3>2. a + LenWidth + size = a + (LenWidth + size)  BY <1>1, <1>2, <3>1
        <3> QED  BY <3>1, <3>2 DEF a, size, value
    <2> QED  BY <2>1, <2>2
<1>7. /\ \A n \in Nat : n < cap => Uint16(n) = n
      /\ \A n, m \in Nat : n <= cap /\ m < cap /\ n + m >= cap
                              => Uint16(n + m) \in Nat /\ Uint16(n + m) < n
    BY Uint16Facts
<1>8. start \in Nat  BY <1>2
<1> DEFINE valueOffset == NameEnd(key)
           valueStart == Uint16(valueOffset + LenWidth)
           valueEnd == Uint16(valueStart + Number(Slice(key, valueOffset, valueStart)))
<1>9. decodeStringBitmapKey(key) =
          IF /\ CanSlice(key, NameStart, valueOffset)
             /\ CanSlice(key, valueOffset, valueStart)
             /\ CanSlice(key, valueStart, valueEnd)
          THEN Slice(key, valueStart, valueEnd)
          ELSE Panic
    BY DEF decodeStringBitmapKey
<1> HIDE DEF key, end, value, cap, size
<1>10. CASE end >= cap
    <2>1. ~CanSlice(key, NameStart, valueOffset)
        BY <1>2, <1>5, <1>10 DEF CanSlice
    <2>2. ~Fits(p)  BY <1>1, <1>2, <1>6, <1>10
    <2> HIDE DEF valueOffset, valueStart, valueEnd
    <2>3. decodeStringBitmapKey(key) = Panic  BY <1>9, <2>1
    <2> QED  BY <2>2, <2>3 DEF key
<1>11. CASE end < cap /\ start >= cap
    <2>1. valueOffset = end  BY <1>5, <1>11
    <2>2. valueStart \in Nat /\ valueStart < end
        <3>1. valueStart = Uint16(end + LenWidth)  BY <2>1
        <3>2. Uint16(end + LenWidth) \in Nat /\ Uint16(end + LenWidth) < end
            BY <1>2, <1>7, <1>11
        <3> QED  BY <3>1, <3>2
    <2>3. ~CanSlice(key, valueOffset, valueStart)
        BY <1>2, <2>1, <2>2 DEF CanSlice
    <2>4. ~Fits(p)  BY <1>1, <1>2, <1>6, <1>11
    <2> HIDE DEF valueOffset, valueStart, valueEnd, start
    <2>5. decodeStringBitmapKey(key) = Panic  BY <1>9, <2>3
    <2> QED  BY <2>4, <2>5 DEF key
<1>12. CASE end < cap /\ start < cap
    <2>1. valueOffset = end  BY <1>5, <1>12
    <2>2. valueStart = start  BY <2>1, <1>7, <1>8, <1>12
    <2>3. valueEnd = Uint16(start + size)  BY <2>1, <2>2, <1>3, <1>4
    <2> HIDE DEF valueOffset, valueStart, valueEnd
    <2>4. CASE start + size < cap
        <3>1. valueEnd = start + size
            <4>1. start + size \in Nat  BY <1>1, <1>8
            <4> QED  BY <2>3, <2>4, <4>1, <1>7
        <3>2. /\ CanSlice(key, NameStart, valueOffset)
              /\ CanSlice(key, valueOffset, valueStart)
              /\ CanSlice(key, valueStart, valueEnd)
            BY <1>1, <1>2, <1>3, <2>1, <2>2, <3>1 DEF CanSlice
        <3>3. decodeStringBitmapKey(key) = value
            BY <1>3, <1>9, <2>2, <3>1, <3>2
        <3> QED  BY <1>6, <2>4, <3>3 DEF key, value
    <2>5. CASE start + size >= cap
        <3>1. valueEnd \in Nat /\ valueEnd < start
            <4>1. start <= cap /\ start \in Nat /\ start + size >= cap
                BY <1>2, <1>8, <1>12, <2>5
            <4> HIDE DEF start
            <4> QED  BY <2>3, <4>1, <1>1, <1>7
        <3>2. ~CanSlice(key, valueStart, valueEnd)
            BY <2>2, <3>1, <1>8 DEF CanSlice
        <3>3. decodeStringBitmapKey(key) = Panic
            BY <1>9, <3>2
        <3>4. ~Fits(p)  BY <1>1, <1>2, <1>6, <1>8, <2>5
        <3> QED  BY <3>3, <3>4 DEF key
    <2> QED  BY <2>4, <2>5, <1>1, <1>2, <1>8
<1> QED  BY <1>2, <1>10, <1>11, <1>12, <1>8

-----------------------------------------------------------------------------
(* The layout of the disk.                                                 *)

(* The inductive invariant: what is on the disk is the counters, the       *)
(* bitmaps, and for each entity a pointer to its record and the record.    *)
CounterKeys == {lastBlockKey, idCounterKey, entityCountKey}

StateOK ==
    /\ stored \subseteq Attribute
    /\ DOMAIN entities \subseteq Id
    /\ IsFiniteSet(DOMAIN entities)
    /\ \A id \in DOMAIN entities : entities[id] \in Records
    /\ \A i, j \in DOMAIN entities : entities[i].key = entities[j].key => i = j

KeysExact ==
    DOMAIN disk = CounterKeys \cup {BitmapKey(p) : p \in stored}
                    \cup {entityCurrentKey(entities[id].key) : id \in DOMAIN entities}
                    \cup {payloadKey(id) : id \in DOMAIN entities}

ValuesExact ==
    \A id \in DOMAIN entities :
        /\ disk[entityCurrentKey(entities[id].key)] = BigEndian(id, NumWidth)
        /\ disk[payloadKey(id)] = encodePayloadValue(entities[id])

LaidOut == StateOK /\ KeysExact /\ ValuesExact

(* A byte in front of a string.                                            *)
LEMMA FirstByte ==
    ASSUME NEW b \in Byte, NEW s \in Bytes
    PROVE  /\ <<b>> \o s \in Bytes /\ Len(<<b>> \o s) > 0 /\ (<<b>> \o s)[1] = b
           /\ \A t \in Bytes : <<b>> \o s = <<b>> \o t => s = t
<1>1. <<b>> \in Bytes /\ Len(<<b>>) = 1 /\ <<b>>[1] = b
    BY DEF Bytes
<1>2. Len(s) \in Nat  BY BytesFacts
<1> DEFINE first == <<b>>
<1>3. first \in Bytes /\ Len(first) = 1 /\ first[1] = b  BY <1>1
<1> HIDE DEF first
<1>4. /\ Join(first, s) \in Bytes /\ Len(Join(first, s)) = Len(first) + Len(s)
      /\ \A i \in 1 .. Len(first) : Join(first, s)[i] = first[i]
    BY <1>3, JoinFacts
<1>5. \A t \in Bytes : Join(first, s) = Join(first, t) => s = t
    BY <1>3, JoinCancels
<1>6. Join(first, s) \in Bytes /\ Len(Join(first, s)) > 0 /\ Join(first, s)[1] = b
    BY <1>2, <1>3, <1>4
<1>7. \A t : Join(first, t) = <<b>> \o t
    BY DEF Join, first
<1> QED  BY <1>5, <1>6, <1>7

(* The first byte tells the key spaces apart.                              *)
LEMMA KeySpaces ==
    /\ \A k \in CounterKeys : k \in Bytes /\ Len(k) > 0 /\ k[1] \in {1, 6, 7}
    /\ \A id \in Id : payloadKey(id) \in Bytes /\ Len(payloadKey(id)) > 0 /\ payloadKey(id)[1] = 2
    /\ \A k \in Bytes : /\ entityCurrentKey(k) \in Bytes /\ Len(entityCurrentKey(k)) > 0
                        /\ entityCurrentKey(k)[1] = 3
    /\ \A p \in Attribute : /\ BitmapKey(p) \in Bytes /\ Len(BitmapKey(p)) > 0
                            /\ BitmapKey(p)[1] \in {16, 32}
<1>1. {1, 2, 3, 6, 7} \subseteq Byte
    BY EncodingAssumption DEF Byte
<1>2. \A k \in CounterKeys : k \in Bytes /\ Len(k) > 0 /\ k[1] \in {1, 6, 7}
    <2>1. \A b \in Byte : <<b>> \in Bytes /\ Len(<<b>>) > 0 /\ <<b>>[1] = b
        BY DEF Bytes
    <2> QED  BY <1>1, <2>1 DEF CounterKeys, lastBlockKey, idCounterKey, entityCountKey,
                               prefixLastBlock, prefixIDCounter, prefixEntityCount
<1>3. ASSUME NEW id \in Id
      PROVE  payloadKey(id) \in Bytes /\ Len(payloadKey(id)) > 0 /\ payloadKey(id)[1] = 2
    <2>1. BigEndian(id, NumWidth) \in Bytes
        BY BigEndianBytes, EncodingAssumption, StoredBytesAssumption
    <2>2. 2 \in Byte  BY <1>1
    <2> QED  BY <2>1, <2>2, FirstByte DEF payloadKey, prefixPayload
<1>4. ASSUME NEW k \in Bytes
      PROVE  /\ entityCurrentKey(k) \in Bytes /\ Len(entityCurrentKey(k)) > 0
             /\ entityCurrentKey(k)[1] = 3
    <2>1. 3 \in Byte  BY <1>1
    <2> QED  BY <2>1, FirstByte DEF entityCurrentKey, prefixEntityCurrent
<1>5. ASSUME NEW p \in Attribute
      PROVE  /\ BitmapKey(p) \in Bytes /\ Len(BitmapKey(p)) > 0
             /\ BitmapKey(p)[1] \in {16, 32}
    <2>1. p \in IndexKeys  BY StoredBytesAssumption
    <2>2. BitmapKey(p)[1] \in {16, 32}
        BY <2>1, KeyHead DEF KindByte, prefixStringBitmap, prefixNumericBitmap
    <2>3. BitmapKey(p) \in Bytes /\ Len(BitmapKey(p)) > 0
        <3>1. /\ p[2] \in Bytes /\ ValueBytes(p) \in Bytes /\ BitmapKey(p) \in Bytes
              /\ Len(BitmapKey(p)) = NameStart + Len(p[2]) + Len(ValueBytes(p))
            BY <2>1, KeyShape
        <3>2. Len(p[2]) \in Nat /\ Len(ValueBytes(p)) \in Nat
            BY <3>1, BytesFacts
        <3> DEFINE x == Len(p[2])
                   y == Len(ValueBytes(p))
        <3>3. x \in Nat /\ y \in Nat  BY <3>2
        <3> HIDE DEF x, y
        <3>4. 1 + LenWidth + x + y > 0  BY <3>3, EncodingAssumption
        <3> QED  BY <3>1, <3>4 DEF NameStart, x, y
    <2> QED  BY <2>2, <2>3
<1> QED  BY <1>2, <1>3, <1>4, <1>5

(* Within a key space, the key determines what it is the key of.           *)
LEMMA KeysDiffer ==
    /\ \A i, j \in Id : payloadKey(i) = payloadKey(j) => i = j
    /\ \A k, l \in Bytes : entityCurrentKey(k) = entityCurrentKey(l) => k = l
    /\ NamesFit => \A p, q \in Attribute : BitmapKey(p) = BitmapKey(q) => p = q
<1>1. ASSUME NEW i \in Id, NEW j \in Id, payloadKey(i) = payloadKey(j) PROVE i = j
    <2>1. /\ i \in Nat /\ j \in Nat /\ NumWidth \in Nat /\ 2 \in Byte
          /\ i < Capacity(NumWidth) /\ j < Capacity(NumWidth)
        <3>1. NumWidth \in Nat /\ 2 \in Byte  BY EncodingAssumption DEF Byte
        <3>2. Capacity(NumWidth) \in Nat  BY <3>1, CapacityExceedsWidth
        <3> QED  BY <3>1, <3>2, StoredBytesAssumption
    <2>2. BigEndian(i, NumWidth) \in Bytes /\ BigEndian(j, NumWidth) \in Bytes
        BY <2>1, BigEndianBytes
    <2>3. BigEndian(i, NumWidth) = BigEndian(j, NumWidth)
        <3>1. <<2>> \o BigEndian(i, NumWidth) = <<2>> \o BigEndian(j, NumWidth)
            BY <1>1 DEF payloadKey, prefixPayload
        <3> QED  BY <2>1, <2>2, <3>1, FirstByte
    <2> QED  BY <2>1, <2>3, BigEndianInjective
<1>2. ASSUME NEW k \in Bytes, NEW l \in Bytes, entityCurrentKey(k) = entityCurrentKey(l)
      PROVE  k = l
    <2>1. 3 \in Byte  BY EncodingAssumption DEF Byte
    <2>2. <<3>> \o k = <<3>> \o l
        BY <1>2 DEF entityCurrentKey, prefixEntityCurrent
    <2> QED  BY <2>1, <2>2, FirstByte
<1>3. ASSUME NamesFit, NEW p \in Attribute, NEW q \in Attribute, BitmapKey(p) = BitmapKey(q)
      PROVE  p = q
    <2>1. /\ p \in IndexKeys /\ q \in IndexKeys
          /\ NameFits(p) /\ NameFits(q) /\ NumberFits(p) /\ NumberFits(q)
        BY <1>3, StoredBytesAssumption DEF NamesFit
    <2> QED  BY <1>3, <2>1, BitmapKeysDiffer
<1> QED  BY <1>1, <1>2, <1>3

(* Keys of records are strings of bytes.                                   *)
LEMMA RecordKeys == \A r \in Records : r.key \in Bytes
    BY StoredBytesAssumption

(* The keys of the three parts of the disk never coincide.                 *)
LEMMA PartsApart ==
    /\ \A p \in Attribute, k \in Bytes : BitmapKey(p) # entityCurrentKey(k)
    /\ \A p \in Attribute, i \in Id : BitmapKey(p) # payloadKey(i)
    /\ \A p \in Attribute, c \in CounterKeys : BitmapKey(p) # c
    /\ \A i \in Id, k \in Bytes : payloadKey(i) # entityCurrentKey(k)
    /\ \A i \in Id, c \in CounterKeys : payloadKey(i) # c
    /\ \A k \in Bytes, c \in CounterKeys : entityCurrentKey(k) # c
<1>1. \A p \in Attribute : BitmapKey(p)[1] \in {16, 32}  BY KeySpaces
<1>2. \A i \in Id : payloadKey(i)[1] = 2  BY KeySpaces
<1>3. \A k \in Bytes : entityCurrentKey(k)[1] = 3  BY KeySpaces
<1>4. \A c \in CounterKeys : c[1] \in {1, 6, 7}  BY KeySpaces
<1>5. \A p \in Attribute, k \in Bytes : BitmapKey(p) # entityCurrentKey(k)  BY <1>1, <1>3
<1>6. \A p \in Attribute, i \in Id : BitmapKey(p) # payloadKey(i)  BY <1>1, <1>2
<1>7. \A p \in Attribute, c \in CounterKeys : BitmapKey(p) # c  BY <1>1, <1>4
<1>8. \A i \in Id, k \in Bytes : payloadKey(i) # entityCurrentKey(k)  BY <1>2, <1>3
<1>9. \A i \in Id, c \in CounterKeys : payloadKey(i) # c  BY <1>2, <1>4
<1>10. \A k \in Bytes, c \in CounterKeys : entityCurrentKey(k) # c  BY <1>3, <1>4
<1> QED  BY <1>5, <1>6, <1>7, <1>8, <1>9, <1>10

(* The database starts with its counters.                                  *)
LEMMA InitLaidOut == Init => LaidOut
<1> SUFFICES ASSUME Init PROVE LaidOut  OBVIOUS
<1>1. /\ disk = [k \in CounterKeys |-> Opaque] /\ stored = {}
      /\ entities = [id \in {} |-> Opaque]
    BY DEF Init, CounterKeys
<1>2. DOMAIN entities = {} /\ DOMAIN disk = CounterKeys
    BY <1>1
<1>3. IsFiniteSet({})  BY FS_EmptySet
<1> QED  BY <1>1, <1>2, <1>3 DEF LaidOut, StateOK, KeysExact, ValuesExact

(* A bitmap that is written adds its key and leaves the entities.          *)
LEMMA SetBitmapLaidOut ==
    ASSUME LaidOut, NEW p \in Attribute, SetBitmap(p) PROVE LaidOut'
<1>1. StateOK /\ KeysExact /\ ValuesExact  BY DEF LaidOut
<1>2. /\ disk' = Put(disk, BitmapKey(p), Opaque) /\ stored' = stored \cup {p}
      /\ entities' = entities
    BY DEF SetBitmap
<1>3. DOMAIN disk' = DOMAIN disk \cup {BitmapKey(p)}
      /\ \A k \in DOMAIN disk : k # BitmapKey(p) => disk'[k] = disk[k]
    BY <1>2 DEF Put
<1>4. StateOK'
    BY <1>1, <1>2 DEF StateOK
<1>5. KeysExact'
    BY <1>1, <1>2, <1>3 DEF KeysExact
<1>6. ValuesExact'
    <2> SUFFICES ASSUME NEW id \in DOMAIN entities
                 PROVE  /\ disk'[entityCurrentKey(entities[id].key)] = BigEndian(id, NumWidth)
                        /\ disk'[payloadKey(id)] = encodePayloadValue(entities[id])
        BY <1>2 DEF ValuesExact
    <2>1. id \in Id /\ entities[id].key \in Bytes  BY <1>1, RecordKeys DEF StateOK
    <2>2. /\ entityCurrentKey(entities[id].key) \in DOMAIN disk /\ payloadKey(id) \in DOMAIN disk
        BY <1>1 DEF KeysExact
    <2>3. entityCurrentKey(entities[id].key) # BitmapKey(p) /\ payloadKey(id) # BitmapKey(p)
        BY <2>1, PartsApart
    <2> QED  BY <1>1, <1>3, <2>2, <2>3 DEF ValuesExact
<1> QED  BY <1>4, <1>5, <1>6 DEF LaidOut

(* A bitmap that is deleted takes its key with it, and no other.           *)
LEMMA DeleteBitmapLaidOut ==
    ASSUME NamesFit, LaidOut, NEW p \in Attribute, DeleteBitmap(p) PROVE LaidOut'
<1>1. StateOK /\ KeysExact /\ ValuesExact  BY DEF LaidOut
<1>2. /\ disk' = Keep(disk, DOMAIN disk \ {BitmapKey(p)}) /\ stored' = stored \ {p}
      /\ entities' = entities /\ p \in stored
    BY DEF DeleteBitmap
<1>3. DOMAIN disk' = DOMAIN disk \ {BitmapKey(p)}
      /\ \A k \in DOMAIN disk : k # BitmapKey(p) => disk'[k] = disk[k]
    BY <1>2 DEF Keep
<1>4. StateOK'
    BY <1>1, <1>2 DEF StateOK
<1>5. \A id \in DOMAIN entities :
          /\ entityCurrentKey(entities[id].key) # BitmapKey(p)
          /\ payloadKey(id) # BitmapKey(p)
    BY <1>1, RecordKeys, PartsApart DEF StateOK
<1>6. \A c \in CounterKeys : c # BitmapKey(p)
    BY PartsApart
<1>7. \A q \in stored : BitmapKey(q) = BitmapKey(p) => q = p
    BY <1>1, KeysDiffer DEF StateOK
<1>8. KeysExact'
    <2> DEFINE Bitmaps == {BitmapKey(q) : q \in stored}
               Left == {BitmapKey(q) : q \in stored \ {p}}
               Pointers == {entityCurrentKey(entities[id].key) : id \in DOMAIN entities}
               Payloads == {payloadKey(id) : id \in DOMAIN entities}
    <2>1. Left = Bitmaps \ {BitmapKey(p)}  BY <1>7
    <2>2. BitmapKey(p) \notin CounterKeys \cup Pointers \cup Payloads
        BY <1>5, <1>6
    <2>3. DOMAIN disk = CounterKeys \cup Bitmaps \cup Pointers \cup Payloads
        BY <1>1 DEF KeysExact
    <2>4. KeysExact' <=> DOMAIN disk' = CounterKeys \cup Left \cup Pointers \cup Payloads
        BY <1>2 DEF KeysExact
    <2> HIDE DEF Bitmaps, Left, Pointers, Payloads
    <2> QED  BY <1>3, <2>1, <2>2, <2>3, <2>4
<1>9. ValuesExact'
    <2> SUFFICES ASSUME NEW id \in DOMAIN entities
                 PROVE  /\ disk'[entityCurrentKey(entities[id].key)] = BigEndian(id, NumWidth)
                        /\ disk'[payloadKey(id)] = encodePayloadValue(entities[id])
        BY <1>2 DEF ValuesExact
    <2>1. /\ entityCurrentKey(entities[id].key) \in DOMAIN disk /\ payloadKey(id) \in DOMAIN disk
        BY <1>1 DEF KeysExact
    <2> QED  BY <1>1, <1>3, <1>5, <2>1 DEF ValuesExact
<1> QED  BY <1>4, <1>8, <1>9 DEF LaidOut

(* An entity that is written has its pointer and its record, and every     *)
(* other has what it had.                                                  *)
LEMMA UpsertLaidOut ==
    ASSUME LaidOut, NEW id \in Id, NEW r \in Records, UpsertPayload(id, r) PROVE LaidOut'
<1> DEFINE pointer == entityCurrentKey(r.key)
           record == payloadKey(id)
<1>1. StateOK /\ KeysExact /\ ValuesExact  BY DEF LaidOut
<1>2. /\ disk' = Put(Put(disk, pointer, BigEndian(id, NumWidth)), record, encodePayloadValue(r))
      /\ entities' = Put(entities, id, r) /\ stored' = stored
      /\ \A i \in DOMAIN entities : i = id <=> entities[i].key = r.key
    BY DEF UpsertPayload
<1>3. r.key \in Bytes /\ pointer # record
    BY RecordKeys, PartsApart
<1>4. /\ DOMAIN disk' = DOMAIN disk \cup {pointer, record}
      /\ disk'[pointer] = BigEndian(id, NumWidth) /\ disk'[record] = encodePayloadValue(r)
      /\ \A k \in DOMAIN disk : k # pointer /\ k # record => disk'[k] = disk[k]
    <2> HIDE DEF pointer, record
    <2> QED  BY <1>2, <1>3 DEF Put
<1>5. /\ DOMAIN entities' = DOMAIN entities \cup {id} /\ entities'[id] = r
      /\ \A i \in DOMAIN entities : i # id => entities'[i] = entities[i]
    BY <1>2 DEF Put
<1>6. StateOK'
    <2>1. IsFiniteSet(DOMAIN entities')
        <3>1. IsFiniteSet(DOMAIN entities)  BY <1>1 DEF StateOK
        <3> QED  BY <1>5, <3>1, FS_AddElement
    <2>2. stored' \subseteq Attribute /\ DOMAIN entities' \subseteq Id
        BY <1>1, <1>2, <1>5 DEF StateOK
    <2>3. \A i \in DOMAIN entities' : entities'[i] \in Records
        BY <1>1, <1>5 DEF StateOK
    <2>4. \A i, j \in DOMAIN entities' : entities'[i].key = entities'[j].key => i = j
        BY <1>1, <1>2, <1>5 DEF StateOK
    <2> QED  BY <2>1, <2>2, <2>3, <2>4 DEF StateOK
<1>7. KeysExact'
    <2> DEFINE Bitmaps == {BitmapKey(q) : q \in stored}
               Pointers == {entityCurrentKey(entities[i].key) : i \in DOMAIN entities}
               Payloads == {payloadKey(i) : i \in DOMAIN entities}
    <2>1. {entityCurrentKey(entities'[i].key) : i \in DOMAIN entities'} = Pointers \cup {pointer}
        BY <1>2, <1>5
    <2>2. {payloadKey(i) : i \in DOMAIN entities'} = Payloads \cup {record}
        BY <1>5
    <2>3. DOMAIN disk = CounterKeys \cup Bitmaps \cup Pointers \cup Payloads
        BY <1>1 DEF KeysExact
    <2>4. KeysExact' <=> DOMAIN disk' = CounterKeys \cup Bitmaps
              \cup {entityCurrentKey(entities'[i].key) : i \in DOMAIN entities'}
              \cup {payloadKey(i) : i \in DOMAIN entities'}
        BY <1>2 DEF KeysExact
    <2> HIDE DEF Bitmaps, Pointers, Payloads, pointer, record
    <2> QED  BY <1>4, <2>1, <2>2, <2>3, <2>4
<1>8. ValuesExact'
    <2> SUFFICES ASSUME NEW i \in DOMAIN entities'
                 PROVE  /\ disk'[entityCurrentKey(entities'[i].key)] = BigEndian(i, NumWidth)
                        /\ disk'[payloadKey(i)] = encodePayloadValue(entities'[i])
        BY DEF ValuesExact
    <2>1. CASE i = id
        BY <2>1, <1>4, <1>5
    <2>2. CASE i # id
        <3>1. /\ i \in DOMAIN entities /\ entities'[i] = entities[i] /\ i \in Id
              /\ entities[i].key # r.key /\ entities[i].key \in Bytes
            BY <2>2, <1>1, <1>2, <1>5, RecordKeys DEF StateOK
        <3>2. entityCurrentKey(entities[i].key) \in DOMAIN disk /\ payloadKey(i) \in DOMAIN disk
            BY <1>1, <3>1 DEF KeysExact
        <3>3. /\ entityCurrentKey(entities[i].key) # pointer /\ payloadKey(i) # record
              /\ entityCurrentKey(entities[i].key) # record /\ payloadKey(i) # pointer
            BY <2>2, <3>1, <1>3, KeysDiffer, PartsApart
        <3> HIDE DEF pointer, record
        <3>4. /\ disk'[entityCurrentKey(entities[i].key)] = disk[entityCurrentKey(entities[i].key)]
              /\ disk'[payloadKey(i)] = disk[payloadKey(i)]
            BY <1>4, <3>2, <3>3
        <3> QED  BY <1>1, <3>1, <3>4 DEF ValuesExact
    <2> QED  BY <2>1, <2>2
<1> QED  BY <1>6, <1>7, <1>8 DEF LaidOut

(* An entity that is deleted takes its pointer and its record with it.     *)
LEMMA DeletePayloadLaidOut ==
    ASSUME LaidOut, NEW id \in Id, DeletePayloadForEntityKey(id) PROVE LaidOut'
<1> DEFINE pointer == entityCurrentKey(entities[id].key)
           record == payloadKey(id)
<1>1. StateOK /\ KeysExact /\ ValuesExact  BY DEF LaidOut
<1>2. /\ disk' = Keep(disk, DOMAIN disk \ {pointer, record}) /\ id \in DOMAIN entities
      /\ entities' = Keep(entities, DOMAIN entities \ {id}) /\ stored' = stored
    BY DEF DeletePayloadForEntityKey
<1>3. /\ DOMAIN disk' = DOMAIN disk \ {pointer, record}
      /\ \A k \in DOMAIN disk : k # pointer /\ k # record => disk'[k] = disk[k]
    <2> HIDE DEF pointer, record
    <2> QED  BY <1>2 DEF Keep
<1>4. /\ DOMAIN entities' = DOMAIN entities \ {id}
      /\ \A i \in DOMAIN entities : i # id => entities'[i] = entities[i]
    BY <1>2 DEF Keep
<1>5. \A i \in DOMAIN entities : entities[i].key \in Bytes /\ i \in Id
    BY <1>1, RecordKeys DEF StateOK
<1>6. \A i \in DOMAIN entities : i # id =>
          /\ entityCurrentKey(entities[i].key) # pointer /\ payloadKey(i) # record
          /\ entityCurrentKey(entities[i].key) # record /\ payloadKey(i) # pointer
    <2> SUFFICES ASSUME NEW i \in DOMAIN entities, i # id
                 PROVE  /\ entityCurrentKey(entities[i].key) # pointer /\ payloadKey(i) # record
                        /\ entityCurrentKey(entities[i].key) # record /\ payloadKey(i) # pointer
        OBVIOUS
    <2>1. entities[i].key # entities[id].key  BY <1>1, <1>2 DEF StateOK
    <2> QED  BY <2>1, <1>2, <1>5, KeysDiffer, PartsApart
<1>7. \A q \in stored : BitmapKey(q) # pointer /\ BitmapKey(q) # record
    BY <1>1, <1>2, <1>5, PartsApart DEF StateOK
<1>8. \A c \in CounterKeys : c # pointer /\ c # record
    BY <1>2, <1>5, PartsApart
<1>9. StateOK'
    <2>1. IsFiniteSet(DOMAIN entities')
        <3>1. IsFiniteSet(DOMAIN entities)  BY <1>1 DEF StateOK
        <3> QED  BY <1>4, <3>1, FS_RemoveElement
    <2>2. stored' \subseteq Attribute /\ DOMAIN entities' \subseteq Id
        BY <1>1, <1>2, <1>4 DEF StateOK
    <2>3. \A i \in DOMAIN entities' : entities'[i] \in Records
        BY <1>1, <1>4 DEF StateOK
    <2>4. \A i, j \in DOMAIN entities' : entities'[i].key = entities'[j].key => i = j
        BY <1>1, <1>4 DEF StateOK
    <2> QED  BY <2>1, <2>2, <2>3, <2>4 DEF StateOK
<1>10. KeysExact'
    <2> DEFINE Bitmaps == {BitmapKey(q) : q \in stored}
               Pointers == {entityCurrentKey(entities[i].key) : i \in DOMAIN entities}
               Payloads == {payloadKey(i) : i \in DOMAIN entities}
               PointersLeft == {entityCurrentKey(entities'[i].key) : i \in DOMAIN entities'}
               PayloadsLeft == {payloadKey(i) : i \in DOMAIN entities'}
    <2>1. PointersLeft = Pointers \ {pointer, record}
        <3>1. ASSUME NEW i \in DOMAIN entities, entityCurrentKey(entities[i].key) \notin {pointer, record}
              PROVE  i # id
            BY <3>1
        <3> QED  BY <1>4, <1>6, <3>1
    <2>2. PayloadsLeft = Payloads \ {pointer, record}
        BY <1>4, <1>6
    <2>3. DOMAIN disk = CounterKeys \cup Bitmaps \cup Pointers \cup Payloads
        BY <1>1 DEF KeysExact
    <2>4. Bitmaps \cap {pointer, record} = {} /\ CounterKeys \cap {pointer, record} = {}
        BY <1>7, <1>8
    <2>5. KeysExact' <=> DOMAIN disk' = CounterKeys \cup Bitmaps \cup PointersLeft \cup PayloadsLeft
        BY <1>2 DEF KeysExact
    <2> HIDE DEF Bitmaps, Pointers, Payloads, PointersLeft, PayloadsLeft, pointer, record
    <2> QED  BY <1>3, <2>1, <2>2, <2>3, <2>4, <2>5
<1>11. ValuesExact'
    <2> SUFFICES ASSUME NEW i \in DOMAIN entities'
                 PROVE  /\ disk'[entityCurrentKey(entities'[i].key)] = BigEndian(i, NumWidth)
                        /\ disk'[payloadKey(i)] = encodePayloadValue(entities'[i])
        BY DEF ValuesExact
    <2>1. i \in DOMAIN entities /\ i # id /\ entities'[i] = entities[i]  BY <1>4
    <2>2. entityCurrentKey(entities[i].key) \in DOMAIN disk /\ payloadKey(i) \in DOMAIN disk
        BY <1>1, <2>1 DEF KeysExact
    <2> HIDE DEF pointer, record
    <2> QED  BY <1>1, <1>3, <1>6, <2>1, <2>2 DEF ValuesExact
<1> QED  BY <1>9, <1>10, <1>11 DEF LaidOut

(* Every step keeps the layout.                                            *)
LEMMA NextLaidOut == NamesFit /\ LaidOut /\ [Next]_vars => LaidOut'
<1> SUFFICES ASSUME NamesFit, LaidOut, [Next]_vars PROVE LaidOut'
    OBVIOUS
<1>1. ASSUME NEW p \in Attribute, SetBitmap(p) PROVE LaidOut'
    BY <1>1, SetBitmapLaidOut
<1>2. ASSUME NEW p \in Attribute, DeleteBitmap(p) PROVE LaidOut'
    BY <1>2, DeleteBitmapLaidOut
<1>3. ASSUME NEW id \in Id, NEW r \in Records, UpsertPayload(id, r) PROVE LaidOut'
    BY <1>3, UpsertLaidOut
<1>4. ASSUME NEW id \in Id, DeletePayloadForEntityKey(id) PROVE LaidOut'
    BY <1>4, DeletePayloadLaidOut
<1>5. CASE UNCHANGED vars
    BY <1>5 DEF vars, LaidOut, StateOK, KeysExact, ValuesExact
<1> QED  BY <1>1, <1>2, <1>3, <1>4, <1>5 DEF Next

(* The layout is never left, however many operations there are.            *)
THEOREM AlwaysLaidOut == NamesFit => (Spec => []LaidOut)
<1> SUFFICES ASSUME NamesFit PROVE Spec => []LaidOut
    OBVIOUS
<1>1. Init => LaidOut  BY InitLaidOut
<1>2. LaidOut /\ [Next]_vars => LaidOut'  BY NextLaidOut
<1> QED  BY <1>1, <1>2, PTL DEF Spec

-----------------------------------------------------------------------------
(* Lookups and scans.                                                      *)

(* What is on the disk is strings of bytes that are not empty.             *)
LEMMA DiskKeys ==
    ASSUME LaidOut
    PROVE  /\ \A k \in DOMAIN disk : k \in Bytes /\ Len(k) > 0
           /\ \A k \in DOMAIN disk : k[1] = 3 =>
                 \E id \in DOMAIN entities : k = entityCurrentKey(entities[id].key)
           /\ \A k \in DOMAIN disk : k[1] \in {16, 32} => \E p \in stored : k = BitmapKey(p)
           /\ \A k \in DOMAIN disk : k[1] \in {1, 2, 3, 6, 7, 16, 32}
           /\ \A id \in DOMAIN entities :
                 LET k == entityCurrentKey(entities[id].key)
                 IN  k \in DOMAIN disk /\ k[1] = 3
<1>1. StateOK /\ KeysExact  BY DEF LaidOut
<1>2. \A k \in CounterKeys : k \in Bytes /\ Len(k) > 0 /\ k[1] \in {1, 6, 7}  BY KeySpaces
<1>3. \A id \in DOMAIN entities :
          LET k == payloadKey(id) IN k \in Bytes /\ Len(k) > 0 /\ k[1] = 2
    BY <1>1, KeySpaces DEF StateOK
<1>4. \A id \in DOMAIN entities :
          LET k == entityCurrentKey(entities[id].key) IN k \in Bytes /\ Len(k) > 0 /\ k[1] = 3
    BY <1>1, KeySpaces, RecordKeys DEF StateOK
<1>5. \A p \in stored :
          LET k == BitmapKey(p) IN k \in Bytes /\ Len(k) > 0 /\ k[1] \in {16, 32}
    BY <1>1, KeySpaces DEF StateOK
<1>6. ASSUME NEW k \in DOMAIN disk
      PROVE  \/ k \in CounterKeys \/ \E id \in DOMAIN entities : k = payloadKey(id)
             \/ \E id \in DOMAIN entities : k = entityCurrentKey(entities[id].key)
             \/ \E p \in stored : k = BitmapKey(p)
    BY <1>1 DEF KeysExact
<1>7. \A id \in DOMAIN entities : entityCurrentKey(entities[id].key) \in DOMAIN disk
    BY <1>1 DEF KeysExact
<1>8. \A k \in DOMAIN disk : k \in Bytes /\ Len(k) > 0
    BY <1>2, <1>3, <1>4, <1>5, <1>6
<1>9. \A k \in DOMAIN disk : k[1] \in {1, 2, 3, 6, 7, 16, 32}
    BY <1>2, <1>3, <1>4, <1>5, <1>6
<1>10. \A k \in DOMAIN disk : k[1] = 3 =>
          \E id \in DOMAIN entities : k = entityCurrentKey(entities[id].key)
    BY <1>2, <1>3, <1>5, <1>6
<1>11. \A k \in DOMAIN disk : k[1] \in {16, 32} => \E p \in stored : k = BitmapKey(p)
    BY <1>2, <1>3, <1>4, <1>6
<1> QED  BY <1>4, <1>7, <1>8, <1>9, <1>10, <1>11

(* A scan finds what is between its bounds.                                *)
LEMMA ScanBetween == \A prefix : Scan(prefix) = {k \in DOMAIN disk : Between(k, prefix)}
    BY DEF Scan, Between

(* The bitmap of an attribute and value is on the disk if that is stored.  *)
LEMMA LookupFollows == ASSUME NamesFit, LaidOut PROVE LookupExact
<1> SUFFICES ASSUME NEW p \in Attribute PROVE BitmapKey(p) \in DOMAIN disk <=> p \in stored
    BY DEF LookupExact
<1>1. stored \subseteq Attribute /\ KeysExact  BY DEF LaidOut, StateOK
<1>2. p \in stored => BitmapKey(p) \in DOMAIN disk  BY <1>1 DEF KeysExact
<1>3. ASSUME BitmapKey(p) \in DOMAIN disk PROVE p \in stored
    <2>1. BitmapKey(p)[1] \in {16, 32}  BY KeySpaces
    <2>2. PICK q \in stored : BitmapKey(p) = BitmapKey(q)  BY <1>3, <2>1, DiskKeys
    <2>3. p = q  BY <1>1, <2>2, KeysDiffer
    <2> QED  BY <2>3
<1> QED  BY <1>2, <1>3

(* The pointers are as many as the entities.                               *)
LEMMA CountFollows == ASSUME LaidOut PROVE CountExact
<1> DEFINE Pointers == {entityCurrentKey(entities[id].key) : id \in DOMAIN entities}
           ids == DOMAIN entities
           f == [id \in ids |-> entityCurrentKey(entities[id].key)]
<1>1. StateOK  BY DEF LaidOut
<1>2. Scan(<<prefixEntityCurrent>>) = Pointers
    <2>1. \A k \in DOMAIN disk : Between(k, <<prefixEntityCurrent>>) <=> k[1] = 3
        BY DiskKeys, ScanOfEntities DEF prefixEntityCurrent
    <2>2. Scan(<<prefixEntityCurrent>>) = {k \in DOMAIN disk : k[1] = 3}
        BY <2>1, ScanBetween
    <2>3. \A k : k \in DOMAIN disk /\ k[1] = 3 <=> k \in Pointers
        BY DiskKeys
    <2> QED  BY <2>2, <2>3
<1>3. ASSUME NEW i \in ids, NEW j \in ids, f[i] = f[j] PROVE i = j
    <2>1. entities[i].key \in Bytes /\ entities[j].key \in Bytes
        BY <1>1, RecordKeys DEF StateOK
    <2>2. entities[i].key = entities[j].key  BY <1>3, <2>1, KeysDiffer
    <2> QED  BY <1>1, <2>2 DEF StateOK
<1>4. f \in Bijection(ids, Pointers)
    <2>1. f \in [ids -> Pointers]  OBVIOUS
    <2>2. f \in Injection(ids, Pointers)  BY <1>3, <2>1 DEF Injection, IsInjective
    <2>3. \A k \in Pointers : \E id \in ids : f[id] = k  OBVIOUS
    <2> QED  BY <2>1, <2>2, <2>3 DEF Bijection, Surjection
<1>5. ExistsBijection(ids, Pointers)
    <2> HIDE DEF f, Pointers, ids
    <2> QED  BY <1>4 DEF ExistsBijection
<1>6. IsFiniteSet(ids)  BY <1>1 DEF StateOK
<1> HIDE DEF f, Pointers, ids
<1>7. Cardinality(Pointers) = Cardinality(ids)
    BY <1>5, <1>6, FS_Bijection
<1> QED  BY <1>2, <1>7 DEF CountExact, CountEntitiesByScan, ids

(* The scan of an attribute finds the keys of its values.                  *)
LEMMA ScanFollows ==
    ASSUME NamesFit, LaidOut, NEW kind \in {"str", "num"}, NEW name \in Bytes,
           Len(name) < Capacity(LenWidth)
    PROVE  Scan(NamePrefix(KindByte(kind), name))
              = {BitmapKey(p) : p \in {q \in stored : q[1] = kind /\ q[2] = name}}
<1> DEFINE prefix == NamePrefix(KindByte(kind), name)
           held == {q \in stored : q[1] = kind /\ q[2] = name}
<1>1. /\ stored \subseteq Attribute /\ \A q \in stored : BitmapKey(q) \in DOMAIN disk
    BY DEF LaidOut, StateOK, KeysExact
<1>2. ASSUME NEW q \in stored
      PROVE  Between(BitmapKey(q), prefix) <=> q[1] = kind /\ q[2] = name
    <2>1. q \in IndexKeys /\ NameFits(q)
        BY <1>1, StoredBytesAssumption DEF NamesFit
    <2> QED  BY <2>1, ScanOfName
<1>3. ASSUME NEW k \in DOMAIN disk, Between(k, prefix)
      PROVE  \E q \in stored : k = BitmapKey(q)
    <2>1. /\ k \in Bytes /\ Len(k) > 0 /\ k[1] \in {1, 2, 3, 6, 7, 16, 32}
          /\ k[1] \in {16, 32} => \E q \in stored : k = BitmapKey(q)
        BY DiskKeys
    <2>2. ASSUME k[1] \in {1, 2, 3, 6, 7} PROVE FALSE
        <3>1. k[1] \in Nat /\ k[1] < prefixStringBitmap
            BY <2>2 DEF prefixStringBitmap
        <3> QED  BY <1>3, <2>1, <3>1, ScanOfNameOnly
    <2> QED  BY <2>1, <2>2
<1>4. Scan(prefix) = {k \in DOMAIN disk : Between(k, prefix)}
    BY ScanBetween
<1> HIDE DEF prefix
<1>5. \A k : k \in Scan(prefix) <=> k \in {BitmapKey(p) : p \in held}
    BY <1>1, <1>2, <1>3, <1>4
<1>6. Scan(prefix) = {BitmapKey(p) : p \in held}
    <2> HIDE DEF held
    <2> QED  BY <1>5
<1> QED  BY <1>6 DEF prefix

(* The keys that a scan finds are decoded to the values, or one of them    *)
(* makes it fail.                                                          *)
LEMMA ScanExactFollows == ASSUME NamesFit, ValuesFit, LaidOut PROVE ScanExact
<1> SUFFICES ASSUME NEW a \in {<<p[1], p[2]>> : p \in Attribute}
             PROVE  LET held == {p \in stored : p[1] = a[1] /\ p[2] = a[2]}
                        scan == scanDistinctValues(a[1], a[2])
                    IN  IF \A p \in held : Fits(p) THEN scan = {p[3] : p \in held}
                                                   ELSE Panic \in scan
    BY DEF ScanExact
<1> DEFINE kind == a[1]
           name == a[2]
           held == {p \in stored : p[1] = kind /\ p[2] = name}
           scan == scanDistinctValues(kind, name)
           decoded(p) == IF Fits(p) THEN p[3] ELSE Panic
<1>1. kind \in {"str", "num"} /\ name \in Bytes /\ Len(name) < Capacity(LenWidth)
    <2>1. PICK p \in Attribute : a = <<p[1], p[2]>>  OBVIOUS
    <2>2. p \in IndexKeys /\ NameFits(p)  BY StoredBytesAssumption DEF NamesFit
    <2> QED  BY <2>1, <2>2, KeyShape DEF NameFits
<1>2. Scan(NamePrefix(KindByte(kind), name)) = {BitmapKey(p) : p \in held}
    <2> HIDE DEF kind, name
    <2> QED  BY <1>1, ScanFollows
<1>3. \A p \in held :
          /\ p \in IndexKeys /\ p[1] = kind /\ NameFits(p) /\ ValueFits(p) /\ NumberFits(p)
    BY StoredBytesAssumption DEF LaidOut, StateOK, NamesFit, ValuesFit
<1> HIDE DEF kind, name
<1>4. scan = {decoded(p) : p \in held}
    <2>1. CASE kind = "str"
        <3>1. scan = {decodeStringBitmapKey(k) : k \in Scan(NamePrefix(KindByte(kind), name))}
            BY <2>1 DEF scanDistinctValues, stringBitmapNamePrefix, KindByte
        <3>2. \A p \in held : decodeStringBitmapKey(BitmapKey(p)) = decoded(p)
            BY <1>3, <2>1, StringDecodes
        <3> HIDE DEF held, scan, decoded
        <3> QED  BY <1>2, <3>1, <3>2
    <2>2. CASE kind = "num"
        <3>1. scan = {decodeNumericBitmapKey(k) : k \in Scan(NamePrefix(KindByte(kind), name))}
            BY <2>2 DEF scanDistinctValues, numericBitmapNamePrefix, KindByte
        <3>2. \A p \in held : decodeNumericBitmapKey(BitmapKey(p)) = decoded(p)
            BY <1>3, <2>2, NumberDecodes
        <3> HIDE DEF held, scan, decoded
        <3> QED  BY <1>2, <3>1, <3>2
    <2> QED  BY <1>1, <2>1, <2>2
<1> HIDE DEF held, scan
<1>5. ASSUME \A p \in held : Fits(p) PROVE scan = {p[3] : p \in held}
    BY <1>4, <1>5
<1>6. ASSUME ~ \A p \in held : Fits(p) PROVE Panic \in scan
    <2>1. PICK p \in held : ~Fits(p)  BY <1>6
    <2>2. decoded(p) = Panic  BY <2>1
    <2> QED  BY <1>4, <2>1, <2>2
<1> QED  BY <1>5, <1>6 DEF held, scan, kind, name

(* Looking a key up finds the bitmap of that attribute and value and no    *)
(* other, as long as names fit their length fields.                        *)
THEOREM LookupAlwaysExact == NamesFit => (Spec => []LookupExact)
<1> SUFFICES ASSUME NamesFit PROVE Spec => []LookupExact
    OBVIOUS
<1>1. LaidOut => LookupExact  BY LookupFollows
<1>2. Spec => []LaidOut  BY AlwaysLaidOut
<1> QED  BY <1>1, <1>2, PTL

(* A scan of the values of an attribute finds those it has, or fails.      *)
THEOREM ScanAlwaysExact == NamesFit /\ ValuesFit => (Spec => []ScanExact)
<1> SUFFICES ASSUME NamesFit, ValuesFit PROVE Spec => []ScanExact
    OBVIOUS
<1>1. LaidOut => ScanExact  BY ScanExactFollows
<1>2. Spec => []LaidOut  BY AlwaysLaidOut
<1> QED  BY <1>1, <1>2, PTL

(* The scan that counts entities for the migration finds the entities.     *)
THEOREM CountAlwaysExact == NamesFit => (Spec => []CountExact)
<1> SUFFICES ASSUME NamesFit PROVE Spec => []CountExact
    OBVIOUS
<1>1. LaidOut => CountExact  BY CountFollows
<1>2. Spec => []LaidOut  BY AlwaysLaidOut
<1> QED  BY <1>1, <1>2, PTL

-----------------------------------------------------------------------------
(* Records.                                                                *)

(* A field is a string, and it is as long as its length and its bytes.     *)
LEMMA FieldBytes ==
    ASSUME NEW s \in Bytes, NEW width \in Nat
    PROVE  /\ Field(s, width) = Join(BigEndian(Len(s), width), s)
           /\ Field(s, width) \in Bytes
           /\ BigEndian(Len(s), width) \in Bytes /\ Len(BigEndian(Len(s), width)) = width
           /\ Len(Field(s, width)) = width + Len(s)
<1>1. Len(s) \in Nat  BY BytesFacts
<1>2. BigEndian(Len(s), width) \in Bytes /\ Len(BigEndian(Len(s), width)) = width
    BY <1>1, BigEndianBytes
<1>3. Field(s, width) = Join(BigEndian(Len(s), width), s)
    BY DEF Field, Join
<1> QED  BY <1>2, <1>3, JoinFacts

(* A field whose length fits is found where it begins.                     *)
LEMMA FieldFound ==
    ASSUME NEW front \in Bytes, NEW s \in Bytes, NEW rest \in Bytes, NEW width \in Nat,
           Len(s) < Capacity(width),
           NEW data, data = Join(front, Join(Field(s, width), rest))
    PROVE  /\ HasField(data, Len(front), width)
           /\ FieldEnd(data, Len(front), width) = Len(front) + Len(Field(s, width))
           /\ FieldAt(data, Len(front), width) = s
<1> DEFINE len == BigEndian(Len(s), width)
           n == Len(s)
           m == Len(front)
<1>1. len \in Bytes /\ Len(len) = width /\ Field(s, width) = Join(len, s)
      /\ Field(s, width) \in Bytes /\ Len(Field(s, width)) = width + n
    BY FieldBytes
<1>2. n \in Nat /\ m \in Nat /\ Len(rest) \in Nat /\ n < Capacity(width)
    BY BytesFacts
<1>3. Number(len) = n
    <2> HIDE DEF n
    <2> QED  BY <1>2, RoundTrip DEF n
<1> HIDE DEF len
<1>4. data = Join(front, Join(len, Join(s, rest)))
    <2>1. Join(Join(len, s), rest) = Join(len, Join(s, rest))
        BY <1>1, JoinAssociates
    <2> QED  BY <1>1, <2>1
<1>5. Join(s, rest) \in Bytes
    BY JoinFacts
<1>6. data = Join(Join(front, len), Join(s, rest)) /\ Join(front, len) \in Bytes
      /\ Len(Join(front, len)) = m + width
    <2>1. Join(Join(front, len), Join(s, rest)) = Join(front, Join(len, Join(s, rest)))
        BY <1>1, <1>5, JoinAssociates
    <2>2. Join(front, len) \in Bytes /\ Len(Join(front, len)) = Len(front) + Len(len)
        BY <1>1, JoinFacts
    <2> QED  BY <1>1, <1>4, <2>1, <2>2
<1>7. SubSeq(data, m + 1, m + width) = len
    <2> DEFINE tail == Join(s, rest)
    <2>1. tail \in Bytes /\ data = Join(front, Join(len, tail))  BY <1>4, <1>5
    <2> HIDE DEF tail
    <2>2. SubSeq(data, Len(front) + 1, Len(front) + Len(len)) = len
        BY <1>1, <2>1, Middle
    <2> QED  BY <1>1, <2>2
<1>8. SubSeq(data, m + width + 1, m + width + n) = s
    <2> DEFINE head == Join(front, len)
    <2>1. head \in Bytes /\ data = Join(head, Join(s, rest)) /\ Len(head) = m + width
        BY <1>6
    <2> HIDE DEF head
    <2>2. SubSeq(data, Len(head) + 1, Len(head) + Len(s)) = s
        BY <2>1, Middle
    <2> QED  BY <2>1, <2>2
<1>9. Len(data) = m + (width + n) + Len(rest)
    <2> DEFINE field == Field(s, width)
    <2>1. field \in Bytes /\ Len(field) = width + n  BY <1>1
    <2> HIDE DEF field
    <2>2. Join(field, rest) \in Bytes /\ Len(Join(field, rest)) = Len(field) + Len(rest)
        BY <2>1, JoinFacts
    <2>3. Len(Join(front, Join(field, rest))) = Len(front) + Len(Join(field, rest))
        BY <2>2, JoinFacts
    <2>4. data = Join(front, Join(field, rest))  BY DEF field
    <2> HIDE DEF n
    <2> QED  BY <2>1, <2>2, <2>3, <2>4, <1>2
<1>10. FieldEnd(data, m, width) = m + width + n
    BY <1>3, <1>7 DEF FieldEnd
<1>11. m + width + n = m + (width + n) /\ m + width <= Len(data) /\ m + width + n <= Len(data)
    <2> HIDE DEF m, n
    <2> QED  BY <1>2, <1>9
<1> QED  BY <1>1, <1>8, <1>10, <1>11 DEF HasField, FieldAt

(* The record in the order of its parts, split in front of each field.     *)
LEMMA RecordShape ==
    ASSUME NEW r \in Records
    PROVE  LET data == encodePayloadValue(r)
               type == Field(r.contentType, LenWidth)
               str  == Field(JSON[r.str], JSONWidth)
               num  == Field(JSON[r.num], JSONWidth)
               two  == Join(r.key, type)
               three == Join(two, str)
           IN  /\ data \in Bytes
               /\ data = Join(r.key, Join(type, Join(str, Join(num, r.payload))))
               /\ data = Join(two, Join(str, Join(num, r.payload)))
               /\ data = Join(three, Join(num, r.payload))
               /\ data = Join(Join(three, num), r.payload)
               /\ {two, three, Join(three, num), Join(num, r.payload),
                   Join(str, Join(num, r.payload))} \subseteq Bytes
               /\ Len(two) = Len(r.key) + Len(type)
               /\ Len(three) = Len(two) + Len(str)
               /\ Len(Join(three, num)) = Len(three) + Len(num)
               /\ Len(data) = Len(r.key) + Len(Join(type, Join(str, Join(num, r.payload))))
<1> DEFINE type == Field(r.contentType, LenWidth)
           str  == Field(JSON[r.str], JSONWidth)
           num  == Field(JSON[r.num], JSONWidth)
           key == r.key
           payload == r.payload
<1>1. /\ key \in Bytes /\ payload \in Bytes /\ r.contentType \in Bytes
      /\ JSON[r.str] \in Bytes /\ JSON[r.num] \in Bytes
    BY StoredBytesAssumption, CodecAssumption
<1>2. type \in Bytes /\ str \in Bytes /\ num \in Bytes
    BY <1>1, FieldBytes, CodecAssumption, EncodingAssumption
<1>3. encodePayloadValue(r) = Join(Join(Join(Join(key, type), str), num), payload)
    BY DEF encodePayloadValue, Join
<1> HIDE DEF type, str, num, key, payload
<1> DEFINE two == Join(key, type)
           three == Join(two, str)
           four == Join(three, num)
           last == Join(num, payload)
           later == Join(str, last)
           rest == Join(type, later)
<1>4. two \in Bytes /\ Len(two) = Len(key) + Len(type)  BY <1>1, <1>2, JoinFacts
<1>5. last \in Bytes  BY <1>1, <1>2, JoinFacts
<1> HIDE DEF two, last
<1>6. three \in Bytes /\ Len(three) = Len(two) + Len(str)  BY <1>2, <1>4, JoinFacts
<1>7. later \in Bytes  BY <1>2, <1>5, JoinFacts
<1> HIDE DEF three, later
<1>8. four \in Bytes /\ Len(four) = Len(three) + Len(num)  BY <1>2, <1>6, JoinFacts
<1>9. rest \in Bytes  BY <1>2, <1>7, JoinFacts
<1>10. Join(four, payload) = Join(three, last)
    BY <1>1, <1>2, <1>6, JoinAssociates DEF last
<1>11. Join(three, last) = Join(two, later)
    BY <1>2, <1>4, <1>5, JoinAssociates DEF three, later
<1>12. Join(two, later) = Join(key, rest)
    BY <1>1, <1>2, <1>7, JoinAssociates DEF two
<1>13. encodePayloadValue(r) = Join(four, payload)
    BY <1>3 DEF three, two
<1> HIDE DEF four, rest
<1>14. Join(key, rest) \in Bytes /\ Len(Join(key, rest)) = Len(key) + Len(rest)
    BY <1>1, <1>9, JoinFacts
<1>15. /\ encodePayloadValue(r) \in Bytes
       /\ encodePayloadValue(r) = Join(key, rest)
       /\ encodePayloadValue(r) = Join(two, later)
       /\ encodePayloadValue(r) = Join(three, last)
       /\ encodePayloadValue(r) = Join(four, payload)
       /\ {two, three, four, last, later} \subseteq Bytes
       /\ Len(two) = Len(key) + Len(type)
       /\ Len(three) = Len(two) + Len(str)
       /\ Len(four) = Len(three) + Len(num)
       /\ Len(encodePayloadValue(r)) = Len(key) + Len(rest)
    BY <1>4, <1>5, <1>6, <1>7, <1>8, <1>10, <1>11, <1>12, <1>13, <1>14
<1> QED  BY <1>15 DEF four, rest, three, later, two, last, type, str, num, key, payload

(* The first so many bytes of a string, and all that follow.               *)
LEMMA Ends ==
    ASSUME NEW a \in Bytes, NEW b \in Bytes
    PROVE  /\ SubSeq(Join(a, b), 1, Len(a)) = a
           /\ SubSeq(Join(a, b), Len(a) + 1, Len(Join(a, b))) = b
<1>1. Len(a) \in Nat /\ Len(Join(a, b)) = Len(a) + Len(b)
    BY JoinFacts, BytesFacts
<1>2. SubSeq(Join(a, b), Len(a) + 1, Len(Join(a, b))) = b
    <2>1. SubSeq(Join(a, b), Len(a) + 1, Len(a) + Len(b)) = b  BY Rest
    <2> QED  BY <1>1, <2>1
<1>3. SubSeq(Join(a, b), 1, Len(a)) = a
    <2> DEFINE none == <<>>
    <2>1. none \in Bytes /\ Len(none) = 0 /\ Join(none, Join(a, b)) = Join(a, b)
        <3>1. Join(a, b) \in Seq(Byte)  BY JoinFacts DEF Bytes
        <3>2. <<>> \o Join(a, b) = Join(a, b)  BY <3>1, ConcatEmptySeq
        <3>3. <<>> \in Bytes /\ Len(<<>>) = 0  BY DEF Bytes
        <3> QED  BY <3>2, <3>3 DEF Join
    <2> HIDE DEF none
    <2>2. SubSeq(Join(none, Join(a, b)), Len(none) + 1, Len(none) + Len(a)) = a
        BY <2>1, Middle
    <2>3. 0 + 1 = 1 /\ 0 + Len(a) = Len(a)  BY <1>1
    <2> QED  BY <2>1, <2>2, <2>3
<1> QED  BY <1>2, <1>3

(* A text is unmarshalled to the map of valid UTF-8 it is the text of.     *)
LEMMA UnmarshalReverses ==
    /\ \A a \in UTF8 : Unmarshals(JSON[a]) /\ Unmarshal(JSON[a]) = a
    /\ \A text : Unmarshals(text) => Unmarshal(text) \in UTF8
<1>1. \A text : Unmarshals(text) => Unmarshal(text) \in UTF8 /\ JSON[Unmarshal(text)] = text
    BY DEF Unmarshals, Unmarshal
<1>2. \A a \in UTF8 : Unmarshals(JSON[a])
    BY DEF Unmarshals
<1>3. ASSUME NEW a \in UTF8 PROVE Unmarshal(JSON[a]) = a
    <2>1. Unmarshal(JSON[a]) \in UTF8 /\ JSON[Unmarshal(JSON[a])] = JSON[a]
        BY <1>1, <1>2
    <2> HIDE DEF Unmarshal
    <2> QED  BY <2>1, CodecAssumption
<1> QED  BY <1>1, <1>2, <1>3

(* A record that survives is decoded to what it was.                       *)
LEMMA SurvivorDecodes ==
    ASSUME TextsFit, NEW r \in Records, Survives(r)
    PROVE  decodePayloadValue(encodePayloadValue(r)) = r
<1> DEFINE data == encodePayloadValue(r)
           text == JSON[r.str]
           note == JSON[r.num]
           key == r.key
           payload == r.payload
           ct == r.contentType
           type == Field(ct, LenWidth)
           str  == Field(text, JSONWidth)
           num  == Field(note, JSONWidth)
           two == Join(key, type)
           three == Join(two, str)
           four == Join(three, num)
           last == Join(num, payload)
           later == Join(str, last)
           rest == Join(type, later)
<1>1. /\ key \in Bytes /\ payload \in Bytes /\ ct \in Bytes
      /\ text \in Bytes /\ note \in Bytes /\ Len(key) = KeyWidth
      /\ r.str \in UTF8 /\ r.num \in UTF8
      /\ Len(ct) < Capacity(LenWidth)
      /\ Len(text) < Capacity(JSONWidth) /\ Len(note) < Capacity(JSONWidth)
      /\ LenWidth \in Nat /\ JSONWidth \in Nat /\ KeyWidth \in Nat
    BY StoredBytesAssumption, CodecAssumption, EncodingAssumption DEF Survives, TextsFit
<1>2. /\ data \in Bytes
      /\ data = Join(key, rest)
      /\ data = Join(two, later)
      /\ data = Join(three, last)
      /\ data = Join(four, payload)
      /\ two \in Bytes /\ three \in Bytes /\ four \in Bytes /\ last \in Bytes /\ later \in Bytes
      /\ Len(two) = Len(key) + Len(type)
      /\ Len(three) = Len(two) + Len(str)
      /\ Len(four) = Len(three) + Len(num)
      /\ Len(data) = Len(key) + Len(rest)
    BY RecordShape
<1>3. r = [key |-> key, contentType |-> ct, str |-> r.str, num |-> r.num, payload |-> payload]
    BY StoredBytesAssumption
<1>4. /\ Unmarshals(text) /\ Unmarshal(text) = r.str
      /\ Unmarshals(note) /\ Unmarshal(note) = r.num
    BY <1>1, UnmarshalReverses
<1>5. type \in Bytes
    BY <1>1, FieldBytes
<1> HIDE DEF data, text, note, key, payload, ct
<1>6. /\ HasField(data, KeyWidth, LenWidth) /\ StrStart(data) = Len(two)
      /\ FieldAt(data, KeyWidth, LenWidth) = ct
    <2>1. /\ data = Join(key, Join(Field(ct, LenWidth), later))
          /\ key \in Bytes /\ ct \in Bytes /\ later \in Bytes
          /\ LenWidth \in Nat /\ Len(ct) < Capacity(LenWidth)
          /\ Len(two) = Len(key) + Len(Field(ct, LenWidth)) /\ Len(key) = KeyWidth
        BY <1>1, <1>2
    <2> HIDE DEF later, two
    <2>2. /\ HasField(data, Len(key), LenWidth)
          /\ FieldEnd(data, Len(key), LenWidth) = Len(key) + Len(Field(ct, LenWidth))
          /\ FieldAt(data, Len(key), LenWidth) = ct
        BY <2>1, FieldFound
    <2> QED  BY <2>1, <2>2 DEF StrStart
<1>7. /\ HasField(data, StrStart(data), JSONWidth) /\ NumStart(data) = Len(three)
      /\ FieldAt(data, StrStart(data), JSONWidth) = text
    <2>1. /\ data = Join(two, Join(Field(text, JSONWidth), last))
          /\ two \in Bytes /\ text \in Bytes /\ last \in Bytes
          /\ JSONWidth \in Nat /\ Len(text) < Capacity(JSONWidth)
          /\ Len(three) = Len(two) + Len(Field(text, JSONWidth))
        BY <1>1, <1>2
    <2> HIDE DEF last, two, three
    <2>2. /\ HasField(data, Len(two), JSONWidth)
          /\ FieldEnd(data, Len(two), JSONWidth) = Len(two) + Len(Field(text, JSONWidth))
          /\ FieldAt(data, Len(two), JSONWidth) = text
        BY <2>1, FieldFound
    <2> QED  BY <1>6, <2>1, <2>2 DEF NumStart
<1>8. /\ HasField(data, NumStart(data), JSONWidth) /\ PayloadStart(data) = Len(four)
      /\ FieldAt(data, NumStart(data), JSONWidth) = note
    <2>1. /\ data = Join(three, Join(Field(note, JSONWidth), payload))
          /\ three \in Bytes /\ note \in Bytes /\ payload \in Bytes
          /\ JSONWidth \in Nat /\ Len(note) < Capacity(JSONWidth)
          /\ Len(four) = Len(three) + Len(Field(note, JSONWidth))
        BY <1>1, <1>2
    <2> HIDE DEF three, four
    <2>2. /\ HasField(data, Len(three), JSONWidth)
          /\ FieldEnd(data, Len(three), JSONWidth) = Len(three) + Len(Field(note, JSONWidth))
          /\ FieldAt(data, Len(three), JSONWidth) = note
        BY <2>1, FieldFound
    <2> QED  BY <1>7, <2>1, <2>2 DEF PayloadStart
<1>9. /\ SubSeq(data, 1, KeyWidth) = key
      /\ SubSeq(data, PayloadStart(data) + 1, Len(data)) = payload
    <2>1. rest \in Bytes  BY <1>2, <1>5, JoinFacts
    <2>2. /\ data = Join(key, rest) /\ data = Join(four, payload) /\ four \in Bytes
          /\ key \in Bytes /\ payload \in Bytes
        BY <1>1, <1>2
    <2> HIDE DEF rest, four
    <2>3. SubSeq(data, 1, Len(key)) = key
        <3>1. SubSeq(Join(key, rest), 1, Len(key)) = key  BY <2>1, <2>2, Ends
        <3> QED  BY <2>2, <3>1
    <2>4. SubSeq(data, Len(four) + 1, Len(data)) = payload
        <3>1. SubSeq(Join(four, payload), Len(four) + 1, Len(Join(four, payload))) = payload
            BY <2>2, Ends
        <3> QED  BY <2>2, <3>1
    <2> QED  BY <1>1, <1>8, <2>3, <2>4
<1>10. Decodes(data)
    <2>1. Len(data) >= KeyWidth + LenWidth
        BY <1>6 DEF HasField
    <2> QED  BY <1>4, <1>6, <1>7, <1>8, <2>1 DEF Decodes
<1>11. decodePayloadValue(data) =
         [key |-> key, contentType |-> ct, str |-> r.str, num |-> r.num, payload |-> payload]
    BY <1>4, <1>6, <1>7, <1>8, <1>9, <1>10 DEF decodePayloadValue
<1> QED  BY <1>3, <1>11 DEF data

(* A record that does not survive is decoded to another one, or not.       *)
LEMMA OthersDoNot ==
    ASSUME NEW r \in Records, decodePayloadValue(encodePayloadValue(r)) = r
    PROVE  Survives(r)
<1> DEFINE data == encodePayloadValue(r)
           ct == r.contentType
           n == Number(SubSeq(data, KeyWidth + 1, KeyWidth + LenWidth))
<1>1. /\ LenWidth \in Nat /\ KeyWidth \in Nat /\ data \in Bytes /\ ct \in Bytes
    BY StoredBytesAssumption, CodecAssumption, EncodingAssumption, RecordShape
<1>2. Decodes(data)
    <2> SUFFICES ASSUME ~Decodes(data) PROVE FALSE  OBVIOUS
    <2>1. r = Malformed  BY DEF decodePayloadValue
    <2>2. "error" \in DOMAIN r  BY <2>1 DEF Malformed
    <2>3. DOMAIN r = {"key", "contentType", "payload", "str", "num"}
        BY StoredBytesAssumption
    <2> QED  BY <2>2, <2>3
<1>3. /\ r.contentType = FieldAt(data, KeyWidth, LenWidth)
      /\ r.str = Unmarshal(FieldAt(data, StrStart(data), JSONWidth))
      /\ r.num = Unmarshal(FieldAt(data, NumStart(data), JSONWidth))
    <2> DEFINE d == [key         |-> SubSeq(data, 1, KeyWidth),
                     contentType |-> FieldAt(data, KeyWidth, LenWidth),
                     str         |-> Unmarshal(FieldAt(data, StrStart(data), JSONWidth)),
                     num         |-> Unmarshal(FieldAt(data, NumStart(data), JSONWidth)),
                     payload     |-> SubSeq(data, PayloadStart(data) + 1, Len(data))]
    <2>1. r = d  BY <1>2 DEF decodePayloadValue
    <2>2. /\ d.contentType = FieldAt(data, KeyWidth, LenWidth)
          /\ d.str = Unmarshal(FieldAt(data, StrStart(data), JSONWidth))
          /\ d.num = Unmarshal(FieldAt(data, NumStart(data), JSONWidth))
        OBVIOUS
    <2> HIDE DEF d
    <2> QED  BY <2>1, <2>2
<1>4. r.str \in UTF8 /\ r.num \in UTF8
    <2>1. /\ Unmarshals(FieldAt(data, StrStart(data), JSONWidth))
          /\ Unmarshals(FieldAt(data, NumStart(data), JSONWidth))
        BY <1>2 DEF Decodes
    <2> QED  BY <1>3, <2>1, UnmarshalReverses
<1> HIDE DEF data
<1>5. /\ KeyWidth + LenWidth <= Len(data)
      /\ FieldEnd(data, KeyWidth, LenWidth) = KeyWidth + LenWidth + n
      /\ KeyWidth + LenWidth + n <= Len(data)
    BY <1>2 DEF Decodes, HasField, FieldEnd
<1>6. n \in Nat /\ n < Capacity(LenWidth)
    <2> DEFINE s == SubSeq(data, KeyWidth + 1, KeyWidth + LenWidth)
    <2>1. s \in Bytes /\ Len(s) = LenWidth
        BY <1>1, <1>5, SubSeqFacts
    <2> HIDE DEF s
    <2>2. Number(s) \in Nat /\ Number(s) < Capacity(Len(s))
        BY <2>1, NumberBelowCapacity
    <2> QED  BY <2>1, <2>2 DEF s
<1> HIDE DEF n
<1>7. Len(ct) = n
    <2> DEFINE m == KeyWidth + LenWidth
    <2>1. m \in Nat /\ m + n <= Len(data)  BY <1>1, <1>5
    <2>2. ct = SubSeq(data, m + 1, m + n)
        BY <1>3, <1>5 DEF FieldAt
    <2> HIDE DEF m, ct
    <2> QED  BY <1>1, <1>6, <2>1, <2>2, SubSeqFacts
<1> QED  BY <1>4, <1>6, <1>7 DEF Survives

(* An entity's pointer leads to its record.                                *)
LEMMA PointerLeads ==
    ASSUME LaidOut, NEW id \in DOMAIN entities
    PROVE  GetCurrentPayloadForEntityKey(entities[id].key)
              = decodePayloadValue(encodePayloadValue(entities[id]))
<1>1. /\ id \in Id
      /\ disk[entityCurrentKey(entities[id].key)] = BigEndian(id, NumWidth)
      /\ disk[payloadKey(id)] = encodePayloadValue(entities[id])
    BY DEF LaidOut, StateOK, ValuesExact
<1>2. NumWidth \in Nat /\ id \in Nat /\ id < Capacity(NumWidth)
    <2>1. NumWidth \in Nat  BY EncodingAssumption
    <2>2. Capacity(NumWidth) \in Nat  BY <2>1, CapacityExceedsWidth
    <2> QED  BY <1>1, <2>1, <2>2, StoredBytesAssumption
<1>3. Number(BigEndian(id, NumWidth)) = id
    BY <1>2, RoundTrip
<1> QED  BY <1>1, <1>3 DEF GetCurrentPayloadForEntityKey

(* What an entity's pointer leads to is decoded to the entity, if it       *)
(* survives.                                                               *)
LEMMA DecodeFollows == ASSUME TextsFit, LaidOut PROVE DecodeReverses
<1> SUFFICES ASSUME NEW id \in DOMAIN entities
             PROVE  GetCurrentPayloadForEntityKey(entities[id].key) = entities[id]
                        <=> Survives(entities[id])
    BY DEF DecodeReverses
<1>1. entities[id] \in Records  BY DEF LaidOut, StateOK
<1>2. decodePayloadValue(encodePayloadValue(entities[id])) = entities[id]
          <=> Survives(entities[id])
    BY <1>1, SurvivorDecodes, OthersDoNot
<1> QED  BY <1>2, PointerLeads

(* A record is read back as it was written exactly when its content type   *)
(* fits its length field and its attributes are UTF-8.                     *)
THEOREM DecodeAlwaysReverses == NamesFit /\ TextsFit => (Spec => []DecodeReverses)
<1> SUFFICES ASSUME NamesFit, TextsFit PROVE Spec => []DecodeReverses
    OBVIOUS
<1>1. LaidOut => DecodeReverses  BY DecodeFollows
<1>2. Spec => []LaidOut  BY AlwaysLaidOut
<1> QED  BY <1>1, <1>2, PTL

-----------------------------------------------------------------------------
(* Answers.                                                                *)

(* Fields with their names, without those that are left out.               *)
Labelled(L, f) == {<<l, f[l]>> : l \in L} \ Omitted

(* Leaving empty fields out does not make different fields the same: one   *)
(* of the two is there.                                                    *)
LEMMA OmittingDistinguishes ==
    ASSUME NEW L, NEW f, NEW g, Labelled(L, f) = Labelled(L, g)
    PROVE  \A l \in L : f[l] = g[l]
<1> SUFFICES ASSUME NEW l \in L, f[l] # g[l] PROVE FALSE
    OBVIOUS
<1>1. ASSUME f[l] # <<>> PROVE FALSE
    <2>1. <<l, f[l]>> \in Labelled(L, f)  BY <1>1 DEF Labelled, Omitted
    <2>2. <<l, f[l]>> \in Labelled(L, g)  BY <2>1
    <2> QED  BY <2>2 DEF Labelled
<1>2. ASSUME g[l] # <<>> PROVE FALSE
    <2>1. <<l, g[l]>> \in Labelled(L, g)  BY <1>2 DEF Labelled, Omitted
    <2>2. <<l, g[l]>> \in Labelled(L, f)  BY <2>1
    <2> QED  BY <2>2 DEF Labelled
<1> QED  BY <1>1, <1>2

(* What requests ask for.                                                  *)
LEMMA AskedKnown ==
    ASSUME IncludesKnown, NEW asked \in Includes \cup {ToolIncludeData, NoIncludeData}
    PROVE  GetIncludeData(asked) \subseteq Flags
    BY DEF IncludesKnown, GetIncludeData, ToolIncludeData, Flags, AttributeFlags

(* Two entities look the same when their fields and their lists do.        *)
LEMMA ShownSame ==
    ASSUME NEW flags \in SUBSET Flags, NEW r, NEW s
    PROVE  toPayload(r, flags) = toPayload(s, flags)
              <=> /\ \A flag \in flags \ AttributeFlags : FieldValue(r, flag) = FieldValue(s, flag)
                  /\ filterAttributes(flags, r.str) = filterAttributes(flags, s.str)
                  /\ filterAttributes(flags, r.num) = filterAttributes(flags, s.num)
<1> DEFINE fields == flags \ AttributeFlags
           L == fields \cup {"stringAttributes", "numericAttributes"}
           value(e) == [l \in L |-> IF l = "stringAttributes" THEN filterAttributes(flags, e.str)
                                    ELSE IF l = "numericAttributes" THEN filterAttributes(flags, e.num)
                                    ELSE FieldValue(e, l)]
<1>1. "stringAttributes" \notin fields /\ "numericAttributes" \notin fields
    BY DEF Flags, AttributeFlags
<1>2. ASSUME NEW e
      PROVE  toPayload(e, flags) = Labelled(L, value(e))
    <2>1. {<<l, value(e)[l]>> : l \in L}
             = {<<flag, FieldValue(e, flag)>> : flag \in fields}
                  \cup {<<"stringAttributes", filterAttributes(flags, e.str)>>,
                        <<"numericAttributes", filterAttributes(flags, e.num)>>}
        <3> HIDE DEF fields
        <3> QED  BY <1>1
    <2> QED  BY <2>1 DEF toPayload, Labelled
<1>3. ASSUME toPayload(r, flags) = toPayload(s, flags)
      PROVE  \A l \in L : value(r)[l] = value(s)[l]
    <2> DEFINE f == value(r)
               g == value(s)
    <2>1. Labelled(L, f) = Labelled(L, g)
        BY <1>2, <1>3
    <2> HIDE DEF f, g, L
    <2>2. \A l \in L : f[l] = g[l]
        BY <2>1, OmittingDistinguishes
    <2> QED  BY <2>2 DEF f, g
<1>4. ASSUME NEW e
      PROVE  /\ \A l \in fields : value(e)[l] = FieldValue(e, l)
             /\ value(e)["stringAttributes"] = filterAttributes(flags, e.str)
             /\ value(e)["numericAttributes"] = filterAttributes(flags, e.num)
    <2> HIDE DEF fields
    <2> QED  BY <1>1
<1>5. \A l \in fields : l \in L
    OBVIOUS
<1>6. "stringAttributes" \in L /\ "numericAttributes" \in L
    OBVIOUS
<1>7. ASSUME toPayload(r, flags) = toPayload(s, flags)
      PROVE  /\ \A flag \in fields : FieldValue(r, flag) = FieldValue(s, flag)
             /\ filterAttributes(flags, r.str) = filterAttributes(flags, s.str)
             /\ filterAttributes(flags, r.num) = filterAttributes(flags, s.num)
    <2>1. \A l \in L : value(r)[l] = value(s)[l]  BY <1>3, <1>7
    <2> HIDE DEF value, L, fields
    <2> QED  BY <1>4, <1>5, <1>6, <2>1
<1>8. ASSUME /\ \A flag \in fields : FieldValue(r, flag) = FieldValue(s, flag)
             /\ filterAttributes(flags, r.str) = filterAttributes(flags, s.str)
             /\ filterAttributes(flags, r.num) = filterAttributes(flags, s.num)
      PROVE  toPayload(r, flags) = toPayload(s, flags)
    <2>1. {<<flag, FieldValue(r, flag)>> : flag \in fields}
             = {<<flag, FieldValue(s, flag)>> : flag \in fields}
        <3> HIDE DEF fields
        <3> QED  BY <1>8
    <2> QED  BY <1>8, <2>1 DEF toPayload
<1> QED  BY <1>7, <1>8

(* The fields of their own are of attributes of these maps, or not.        *)
Divided(Mine, Others, m, n) ==
    /\ Mine \cup Others = DOMAIN FieldAttribute
    /\ \A flag \in Mine : FieldAttribute[flag] \in DOMAIN m \cap DOMAIN n
    /\ \A flag \in Others : FieldAttribute[flag] \notin DOMAIN m \cup DOMAIN n

(* Two maps agree in what a request asks about exactly when the lists that *)
(* it is given do, and the fields of their own.                            *)
LEMMA MapsSame ==
    ASSUME NEW flags, NEW m, NEW n, NEW Mine, NEW Others, Divided(Mine, Others, m, n)
    PROVE  SameUnder(flags, m, n)
              <=> /\ filterAttributes(flags, m) = filterAttributes(flags, n)
                  /\ \A flag \in flags \cap Mine : m[FieldAttribute[flag]] = n[FieldAttribute[flag]]
<1> DEFINE listed(name) ==
               (IF name \in Dollar THEN "syntheticAttributes" ELSE "attributes") \in flags
           lm == filterAttributes(flags, m)
           ln == filterAttributes(flags, n)
<1>1. /\ DOMAIN lm = {name \in DOMAIN m : listed(name)} /\ \A name \in DOMAIN lm : lm[name] = m[name]
      /\ DOMAIN ln = {name \in DOMAIN n : listed(name)} /\ \A name \in DOMAIN ln : ln[name] = n[name]
      /\ lm = [name \in DOMAIN lm |-> lm[name]] /\ ln = [name \in DOMAIN ln |-> ln[name]]
    BY DEF filterAttributes, Restrict, AttributesAsked
<1>2. \A name : Concerns(flags, name) <=>
          \/ \E flag \in flags \cap DOMAIN FieldAttribute : FieldAttribute[flag] = name
          \/ listed(name)
    BY DEF Concerns
<1> HIDE DEF lm, ln, listed
<1> USE DEF Divided
<1>3. ASSUME SameUnder(flags, m, n)
      PROVE  lm = ln /\ \A flag \in flags \cap Mine : m[FieldAttribute[flag]] = n[FieldAttribute[flag]]
    <2>1. ASSUME NEW name \in DOMAIN m \cup DOMAIN n, Concerns(flags, name)
          PROVE  name \in DOMAIN m \cap DOMAIN n /\ m[name] = n[name]
        BY <1>3, <2>1 DEF SameUnder
    <2>2. DOMAIN lm = DOMAIN ln  BY <1>1, <1>2, <2>1
    <2>3. \A name \in DOMAIN lm : lm[name] = ln[name]  BY <1>1, <1>2, <2>1, <2>2
    <2>4. lm = ln  BY <1>1, <2>2, <2>3
    <2>5. \A flag \in flags \cap Mine : m[FieldAttribute[flag]] = n[FieldAttribute[flag]]
        BY <1>2, <2>1
    <2> QED  BY <2>4, <2>5
<1>4. ASSUME lm = ln, \A flag \in flags \cap Mine : m[FieldAttribute[flag]] = n[FieldAttribute[flag]]
      PROVE  SameUnder(flags, m, n)
    <2> SUFFICES ASSUME NEW name \in DOMAIN m \cup DOMAIN n, Concerns(flags, name)
                 PROVE  name \in DOMAIN m \cap DOMAIN n /\ m[name] = n[name]
        BY DEF SameUnder
    <2>1. ASSUME NEW flag \in flags \cap DOMAIN FieldAttribute, FieldAttribute[flag] = name
          PROVE  name \in DOMAIN m \cap DOMAIN n /\ m[name] = n[name]
        BY <1>4, <2>1
    <2>2. ASSUME listed(name) PROVE name \in DOMAIN m \cap DOMAIN n /\ m[name] = n[name]
        <3>1. name \in DOMAIN lm /\ name \in DOMAIN ln  BY <1>1, <1>4, <2>2
        <3> QED  BY <1>1, <1>4, <3>1
    <2> QED  BY <1>2, <2>1, <2>2
<1> QED  BY <1>3, <1>4 DEF lm, ln

(* The fields of their own show what the attributes are.                   *)
LEMMA FieldsShow ==
    ASSUME RecordsWhole, NEW r \in Records, NEW s \in Records
    PROVE  /\ \A flag \in NumericFlags :
                 FieldValue(r, flag) = FieldValue(s, flag)
                    <=> r.num[FieldAttribute[flag]] = s.num[FieldAttribute[flag]]
           /\ \A flag \in StringFlags :
                 FieldValue(r, flag) = FieldValue(s, flag)
                    <=> r.str[FieldAttribute[flag]] = s.str[FieldAttribute[flag]]
<1>1. ASSUME NEW e \in Records, NEW flag \in NumericFlags
      PROVE  FieldValue(e, flag) = e.num[FieldAttribute[flag]]
    <2>1. FieldAttribute[flag] \in DOMAIN e.num  BY DEF RecordsWhole
    <2>2. FieldValue(e, flag) = Numeric(e, FieldAttribute[flag])
        BY DEF NumericFlags, FieldValue, FieldAttribute
    <2> QED  BY <2>1, <2>2 DEF Numeric
<1>2. ASSUME NEW e \in Records, NEW flag \in StringFlags
      PROVE  FieldValue(e, flag) = Addresses[e.str[FieldAttribute[flag]]]
    <2>1. FieldAttribute[flag] \in DOMAIN e.str  BY DEF RecordsWhole
    <2>2. FieldValue(e, flag) = Addresses[String(e, FieldAttribute[flag])]
        BY DEF StringFlags, FieldValue, FieldAttribute
    <2> QED  BY <2>1, <2>2 DEF String
<1>3. \A flag \in StringFlags :
          Addresses[r.str[FieldAttribute[flag]]] = Addresses[s.str[FieldAttribute[flag]]]
              => r.str[FieldAttribute[flag]] = s.str[FieldAttribute[flag]]
    BY DEF RecordsWhole
<1> QED  BY <1>1, <1>2, <1>3

(* Two records look the same exactly when they agree in what is asked for. *)
LEMMA ShownIffSame ==
    ASSUME RecordsWhole, NEW flags \in SUBSET Flags, NEW r \in Records, NEW s \in Records
    PROVE  toPayload(r, flags) = toPayload(s, flags) <=> Indistinct(flags, r, s)
<1> DEFINE Plain == {"key", "payload", "contentType"}
           same(flag) == FieldValue(r, flag) = FieldValue(s, flag)
           str == filterAttributes(flags, r.str) = filterAttributes(flags, s.str)
           num == filterAttributes(flags, r.num) = filterAttributes(flags, s.num)
<1>1. DOMAIN FieldAttribute = NumericFlags \cup StringFlags
    BY DEF FieldAttribute, NumericFlags, StringFlags
<1>2. flags \ AttributeFlags
          = (flags \cap Plain) \cup (flags \cap NumericFlags) \cup (flags \cap StringFlags)
    BY DEF Flags, AttributeFlags, NumericFlags, StringFlags
<1>3. SameUnder(flags, r.str, s.str) <=> str /\ \A flag \in flags \cap StringFlags : same(flag)
    <2> DEFINE m == r.str
               n == s.str
    <2>1. /\ \A flag \in StringFlags : FieldAttribute[flag] \in DOMAIN m \cap DOMAIN n
          /\ \A flag \in NumericFlags : FieldAttribute[flag] \notin DOMAIN m \cup DOMAIN n
        BY DEF RecordsWhole
    <2>2. \A flag \in StringFlags : same(flag) <=> m[FieldAttribute[flag]] = n[FieldAttribute[flag]]
        BY FieldsShow
    <2> HIDE DEF m, n, same
    <2>3. SameUnder(flags, m, n)
              <=> /\ filterAttributes(flags, m) = filterAttributes(flags, n)
                  /\ \A flag \in flags \cap StringFlags :
                        m[FieldAttribute[flag]] = n[FieldAttribute[flag]]
        <3>1. Divided(StringFlags, NumericFlags, m, n)
            BY <1>1, <2>1 DEF Divided
        <3> QED  BY <3>1, MapsSame
    <2>4. str <=> filterAttributes(flags, m) = filterAttributes(flags, n)
        BY DEF m, n
    <2>5. SameUnder(flags, r.str, s.str) <=> SameUnder(flags, m, n)
        BY DEF m, n
    <2> HIDE DEF str
    <2> QED  BY <2>2, <2>3, <2>4, <2>5
<1>4. SameUnder(flags, r.num, s.num) <=> num /\ \A flag \in flags \cap NumericFlags : same(flag)
    <2> DEFINE m == r.num
               n == s.num
    <2>1. /\ \A flag \in NumericFlags : FieldAttribute[flag] \in DOMAIN m \cap DOMAIN n
          /\ \A flag \in StringFlags : FieldAttribute[flag] \notin DOMAIN m \cup DOMAIN n
        BY DEF RecordsWhole
    <2>2. \A flag \in NumericFlags : same(flag) <=> m[FieldAttribute[flag]] = n[FieldAttribute[flag]]
        BY FieldsShow
    <2> HIDE DEF m, n, same
    <2>3. SameUnder(flags, m, n)
              <=> /\ filterAttributes(flags, m) = filterAttributes(flags, n)
                  /\ \A flag \in flags \cap NumericFlags :
                        m[FieldAttribute[flag]] = n[FieldAttribute[flag]]
        <3>1. Divided(NumericFlags, StringFlags, m, n)
            BY <1>1, <2>1 DEF Divided
        <3> QED  BY <3>1, MapsSame
    <2>4. num <=> filterAttributes(flags, m) = filterAttributes(flags, n)
        BY DEF m, n
    <2>5. SameUnder(flags, r.num, s.num) <=> SameUnder(flags, m, n)
        BY DEF m, n
    <2> HIDE DEF num
    <2> QED  BY <2>2, <2>3, <2>4, <2>5
<1>5. toPayload(r, flags) = toPayload(s, flags)
          <=> (\A flag \in flags \ AttributeFlags : same(flag)) /\ str /\ num
    BY ShownSame
<1>6. Indistinct(flags, r, s)
          <=> /\ \A flag \in flags \cap Plain : same(flag)
              /\ SameUnder(flags, r.str, s.str) /\ SameUnder(flags, r.num, s.num)
    BY DEF Indistinct
<1> HIDE DEF same, str, num, Plain
<1> QED  BY <1>2, <1>3, <1>4, <1>5, <1>6

(* Entities that survive are shown as they are.                            *)
LEMMA ShowsFollows ==
    ASSUME RecordsWhole, IncludesKnown, TextsFit, LaidOut PROVE ShowsWhatIsAsked
<1> SUFFICES ASSUME NEW i \in {id \in DOMAIN entities : Survives(entities[id])},
                    NEW j \in {id \in DOMAIN entities : Survives(entities[id])},
                    NEW asked \in Includes \cup {ToolIncludeData, NoIncludeData}
             PROVE  LET flags    == GetIncludeData(asked)
                        shown(e) == toPayload(GetCurrentPayloadForEntityKey(e.key), flags)
                    IN  shown(entities[i]) = shown(entities[j])
                            <=> Indistinct(flags, entities[i], entities[j])
    BY DEF ShowsWhatIsAsked
<1> DEFINE flags == GetIncludeData(asked)
<1>1. flags \in SUBSET Flags  BY AskedKnown
<1>2. /\ entities[i] \in Records /\ entities[j] \in Records
    BY DEF LaidOut, StateOK
<1>3. /\ GetCurrentPayloadForEntityKey(entities[i].key) = entities[i]
      /\ GetCurrentPayloadForEntityKey(entities[j].key) = entities[j]
    <2>1. DecodeReverses  BY DecodeFollows
    <2> QED  BY <2>1 DEF DecodeReverses
<1> HIDE DEF flags
<1>4. toPayload(entities[i], flags) = toPayload(entities[j], flags)
          <=> Indistinct(flags, entities[i], entities[j])
    BY <1>1, <1>2, ShownIffSame
<1> QED  BY <1>3, <1>4 DEF flags

(* A client is shown all of what it asks for and nothing else.             *)
THEOREM AlwaysShowsWhatIsAsked ==
    NamesFit /\ TextsFit /\ RecordsWhole /\ IncludesKnown => (Spec => []ShowsWhatIsAsked)
<1> SUFFICES ASSUME NamesFit, TextsFit, RecordsWhole, IncludesKnown
             PROVE  Spec => []ShowsWhatIsAsked
    OBVIOUS
<1>1. LaidOut => ShowsWhatIsAsked  BY ShowsFollows
<1>2. Spec => []LaidOut  BY AlwaysLaidOut
<1> QED  BY <1>1, <1>2, PTL
=============================================================================
