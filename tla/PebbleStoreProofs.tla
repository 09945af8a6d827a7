-------------------------- MODULE PebbleStoreProofs --------------------------
(***************************************************************************)
(* Facts about records and about what the operations of a block do to a    *)
(* map of entities (EntityEvents), what the operations on views preserve   *)
(* (PebbleStore), and what a normalised query selects on a view            *)
(* (QueryEval): the lemmas behind the proofs about the follower and about  *)
(* queries.  No state variables here: v is a view, c a bitmap cache on it, *)
(* next the in-memory id counter.                                          *)
(***************************************************************************)
EXTENDS QueryEval, FiniteSetTheorems, TLAPS

-----------------------------------------------------------------------------
(* Maps                                                                    *)

(* Put adds or replaces one entry of a stored map and keeps its type.      *)
LEMMA PutFacts ==
    ASSUME NEW S, NEW T, NEW f, f \in [DOMAIN f -> T], DOMAIN f \subseteq S,
           NEW x \in S, NEW y \in T
    PROVE  /\ Put(f, x, y) \in [DOMAIN Put(f, x, y) -> T]
           /\ DOMAIN Put(f, x, y) = DOMAIN f \cup {x}
           /\ DOMAIN Put(f, x, y) \subseteq S
           /\ Put(f, x, y)[x] = y
           /\ \A z \in DOMAIN f : z # x => Put(f, x, y)[z] = f[z]
    BY DEF Put

(* Del drops one entry of a stored map and keeps its type.                 *)
LEMMA DelFacts ==
    ASSUME NEW S, NEW T, NEW f, f \in [DOMAIN f -> T], DOMAIN f \subseteq S,
           NEW x
    PROVE  /\ Del(f, x) \in [DOMAIN Del(f, x) -> T]
           /\ DOMAIN Del(f, x) = DOMAIN f \ {x}
           /\ DOMAIN Del(f, x) \subseteq S
           /\ \A z \in DOMAIN f : z # x => Del(f, x)[z] = f[z]
    BY DEF Del

-----------------------------------------------------------------------------
(* Rows                                                                    *)

(* uint64 arithmetic stays in the naturals.                                *)
LEMMA WrapNat ==
    ASSUME NEW n \in Nat
    PROVE  n % Wrap \in Nat
    BY NumbersAssumption

(* The expiration and the sequence the follower computes are naturals.     *)
LEMMA SequenceNat ==
    ASSUME NEW n \in Nat, NEW tx \in Index, NEW idx \in Index
    PROVE  /\ Sequence(n, tx, idx) \in Nat
           /\ \A btl \in BTL : ExpirationAfter(n, btl) \in Nat
<1>1. tx \in Nat /\ idx \in Nat /\ IndexBase \in Nat
    BY NumbersAssumption DEF Index
<1>2. (n * IndexBase + tx) * IndexBase + idx \in Nat
    <2>1. n * IndexBase \in Nat  BY <1>1
    <2>2. n * IndexBase + tx \in Nat  BY <2>1, <1>1
    <2>3. (n * IndexBase + tx) * IndexBase \in Nat  BY <2>2, <1>1
    <2> QED  BY <2>3, <1>1
<1>3. \A btl \in BTL : n + btl \in Nat  BY NumbersAssumption
<1> QED  BY <1>2, <1>3, WrapNat DEF Sequence, ExpirationAfter

(* An operation is of the kind its type says.                              *)
LEMMA OpKinds ==
    ASSUME NEW op \in Op
    PROVE  /\ op.type = "create" => op \in CreateOp
           /\ op.type = "update" => op \in UpdateOp
           /\ op.type \in {"delete", "expire"} => op \in RemoveOp
           /\ op.type = "extendBTL" => op \in ExtendOp
           /\ op.type = "changeOwner" => op \in ChangeOwnerOp
           /\ op.type # "unknown" => op.key \in Key
    BY DEF Op, CreateOp, UpdateOp, RemoveOp, ExtendOp, ChangeOwnerOp, UnknownOp

(* The record a create makes is a record, of the entity created.           *)
LEMMA NewRowType ==
    ASSUME NEW op \in CreateOp, NEW n \in Nat
    PROVE  NewRow(op, n) \in Row /\ NewRow(op, n).key = op.key
<1>1. Sequence(n, op.tx, op.idx) \in Nat /\ ExpirationAfter(n, op.btl) \in Nat
    BY SequenceNat DEF CreateOp
<1> QED  BY <1>1 DEF CreateOp, NewRow, Row

(* The records the follower stores are records.                            *)
LEMMA RowTypes ==
    ASSUME NEW op \in Op, NEW n \in Nat, NEW old \in Row
    PROVE  /\ op.type = "create" => NewRow(op, n) \in Row
           /\ op.type = "update" => UpdatedRow(old, op, n) \in Row
           /\ op.type = "extendBTL" => ExtendedRow(old, op) \in Row
           /\ op.type = "changeOwner" => ReownedRow(old, op) \in Row
<1>1. CASE op.type = "create"
    <2>1. op \in CreateOp  BY <1>1, OpKinds
    <2> QED  BY <1>1, <2>1, NewRowType
<1>2. CASE op.type = "update"
    <2>1. op \in UpdateOp  BY <1>2, OpKinds
    <2>2. ExpirationAfter(n, op.btl) \in Nat
        BY <2>1, SequenceNat DEF UpdateOp
    <2> QED  BY <1>2, <2>1, <2>2 DEF UpdateOp, UpdatedRow, Row
<1>3. CASE op.type = "extendBTL"
    <2>1. op \in ExtendOp  BY <1>3, OpKinds
    <2>2. ExpirationAfter(old.expiration, op.btl) \in Nat
        BY <2>1, SequenceNat DEF ExtendOp, Row
    <2> QED  BY <1>3, <2>1, <2>2 DEF ExtendedRow, Row
<1>4. CASE op.type = "changeOwner"
    <2>1. op \in ChangeOwnerOp  BY <1>4, OpKinds
    <2> QED  BY <1>4, <2>1 DEF ChangeOwnerOp, ReownedRow, Row
<1> QED  BY <1>1, <1>2, <1>3, <1>4

(* Neither an extension nor a change of owner, nor an update touches what  *)
(* the entity was created with, and an update depends on nothing else.     *)
LEMMA CreationKept ==
    ASSUME NEW op \in Op, NEW n \in Nat, NEW old \in Row, NEW other \in Row,
           SameCreation(old, other)
    PROVE  /\ op.type = "update" /\ op.key = old.key =>
                /\ SameCreation(UpdatedRow(old, op, n), old)
                /\ SameCreation(UpdatedRow(old, op, n), other)
                /\ UpdatedRow(old, op, n) = UpdatedRow(other, op, n)
           /\ SameCreation(ExtendedRow(old, op), ExtendedRow(other, op))
           /\ SameCreation(ExtendedRow(old, op), old)
           /\ SameCreation(ReownedRow(old, op), ReownedRow(other, op))
           /\ SameCreation(ReownedRow(old, op), old)
    BY DEF SameCreation, UpdatedRow, ExtendedRow, ReownedRow, Row

(* Refiling an extended or reowned entity under the one attribute that     *)
(* changed is refiling it under all of them: no other attribute has the    *)
(* same name.                                                              *)
LEMMA OneKeyChanges ==
    ASSUME NEW op \in Op, NEW old \in Row
    PROVE  /\ IndexKeys(ExtendedRow(old, op)) =
                (IndexKeys(old) \ {ExpirationKey(old)})
                \cup {ExpirationKey(ExtendedRow(old, op))}
           /\ IndexKeys(ReownedRow(old, op)) =
                (IndexKeys(old) \ {OwnerKey(old)})
                \cup {OwnerKey(ReownedRow(old, op))}
<1>1. \A a \in Attributes[old.body] : a # OwnerKey(old) /\ a # ExpirationKey(old)
    <2>1. old.body \in Body  BY DEF Row
    <2>2. \A a \in Attributes[old.body] : <<a[1], a[2]>> \notin SystemNames
        BY <2>1, AttributesAssumption
    <2>3. <<OwnerKey(old)[1], OwnerKey(old)[2]>> \in SystemNames
        BY DEF OwnerKey, SystemNames
    <2>4. <<ExpirationKey(old)[1], ExpirationKey(old)[2]>> \in SystemNames
        BY DEF ExpirationKey, SystemNames
    <2> QED  BY <2>2, <2>3, <2>4
<1> DEFINE Same == {<<"str", "$creator", old.creator>>, <<"str", "$key", old.key>>,
                    <<"num", "$createdAtBlock", old.createdAt>>,
                    <<"num", "$lastModifiedAtBlock", old.modifiedAt>>,
                    <<"num", "$sequence", old.sequence>>}
<1>2. \A a \in Same : a # OwnerKey(old) /\ a # ExpirationKey(old)
    BY DEF OwnerKey, ExpirationKey
<1>3. IndexKeys(old) = {OwnerKey(old), ExpirationKey(old)} \cup Same
                       \cup Attributes[old.body]
    BY Zenon DEF IndexKeys
<1>4. OwnerKey(old) # ExpirationKey(old)  BY DEF OwnerKey, ExpirationKey
<1>5. ASSUME NEW r, r = ExtendedRow(old, op)
      PROVE  /\ IndexKeys(r) = {OwnerKey(old), ExpirationKey(r)} \cup Same
                               \cup Attributes[old.body]
    <2>1. /\ r.creator = old.creator /\ r.key = old.key
          /\ r.createdAt = old.createdAt /\ r.modifiedAt = old.modifiedAt
          /\ r.sequence = old.sequence /\ r.body = old.body
          /\ r.owner = old.owner
        BY <1>5 DEF ExtendedRow, Row
    <2> QED  BY <2>1, Zenon DEF IndexKeys, OwnerKey
<1>6. ASSUME NEW r, r = ReownedRow(old, op)
      PROVE  /\ IndexKeys(r) = {OwnerKey(r), ExpirationKey(old)} \cup Same
                               \cup Attributes[old.body]
    <2>1. /\ r.creator = old.creator /\ r.key = old.key
          /\ r.createdAt = old.createdAt /\ r.modifiedAt = old.modifiedAt
          /\ r.sequence = old.sequence /\ r.body = old.body
          /\ r.expiration = old.expiration
        BY <1>6 DEF ReownedRow, Row
    <2> QED  BY <2>1, Zenon DEF IndexKeys, ExpirationKey
<1> HIDE DEF Same
<1> QED  BY <1>1, <1>2, <1>3, <1>4, <1>5, <1>6

-----------------------------------------------------------------------------
(* Operations on a map of entities                                         *)

IsEntityMap(f) == f \in [DOMAIN f -> Row] /\ DOMAIN f \subseteq Key

(* What an operation does, kind by kind.                                   *)
LEMMA EffectCases ==
    ASSUME NEW f, NEW op, NEW n
    PROVE  /\ op.type = "create" => Effect(f, op, n) = Put(f, op.key, NewRow(op, n))
           /\ op.type = "update" => Effect(f, op, n) =
                IF op.key \in DOMAIN f
                THEN Put(f, op.key, UpdatedRow(f[op.key], op, n)) ELSE f
           /\ op.type \in {"delete", "expire"} => Effect(f, op, n) =
                IF op.key \in DOMAIN f THEN Del(f, op.key) ELSE f
           /\ op.type = "extendBTL" => Effect(f, op, n) =
                IF op.key \in DOMAIN f
                THEN Put(f, op.key, ExtendedRow(f[op.key], op)) ELSE f
           /\ op.type = "changeOwner" => Effect(f, op, n) =
                IF op.key \in DOMAIN f
                THEN Put(f, op.key, ReownedRow(f[op.key], op)) ELSE f
           /\ op.type = "unknown" => Effect(f, op, n) = f
    BY DEF Effect

(* The type of an operation is one of the types.                           *)
LEMMA OpTypes ==
    ASSUME NEW op \in Op
    PROVE  op.type \in {"create", "update", "delete", "expire", "extendBTL",
                        "changeOwner", "unknown"}
    BY DEF Op, CreateOp, UpdateOp, RemoveOp, ExtendOp, ChangeOwnerOp, UnknownOp

(* An operation takes a map of entities to a map of entities.              *)
LEMMA EffectType ==
    ASSUME NEW f, IsEntityMap(f), NEW op \in Op, NEW n \in Nat
    PROVE  IsEntityMap(Effect(f, op, n))
<1>1. \A k \in Key, r \in Row : IsEntityMap(Put(f, k, r))
    BY DEF IsEntityMap, Put
<1>2. \A k : IsEntityMap(Del(f, k))
    BY DEF IsEntityMap, Del
<1>3. \A k \in DOMAIN f : f[k] \in Row
    BY DEF IsEntityMap
<1>4. CASE op.type = "create"
    <2>1. op.key \in Key  BY <1>4, OpKinds
    <2>2. NewRow(op, n) \in Row
        <3>1. op \in CreateOp  BY <1>4, OpKinds
        <3> QED  BY <3>1, NewRowType
    <2> QED  BY <1>1, <1>4, <2>1, <2>2, EffectCases
<1>5. CASE op.type = "update"
    <2>1. op.key \in Key  BY <1>5, OpKinds
    <2>2. \A old \in Row : UpdatedRow(old, op, n) \in Row  BY <1>5, RowTypes
    <2> QED  BY <1>1, <1>3, <1>5, <2>1, <2>2, EffectCases
<1>6. CASE op.type \in {"delete", "expire"}
    BY <1>2, <1>6, EffectCases
<1>7. CASE op.type = "extendBTL"
    <2>1. op.key \in Key  BY <1>7, OpKinds
    <2>2. \A old \in Row : ExtendedRow(old, op) \in Row  BY <1>7, RowTypes
    <2> QED  BY <1>1, <1>3, <1>7, <2>1, <2>2, EffectCases
<1>8. CASE op.type = "changeOwner"
    <2>1. op.key \in Key  BY <1>8, OpKinds
    <2>2. \A old \in Row : ReownedRow(old, op) \in Row  BY <1>8, RowTypes
    <2> QED  BY <1>1, <1>3, <1>8, <2>1, <2>2, EffectCases
<1>9. CASE op.type = "unknown"
    BY <1>9, EffectCases
<1> QED  BY <1>4, <1>5, <1>6, <1>7, <1>8, <1>9, OpTypes

(* The keys after an operation.                                            *)
LEMMA EffectDomain ==
    ASSUME NEW f, NEW op \in Op, NEW n
    PROVE  /\ op.type = "create" => DOMAIN Effect(f, op, n) = DOMAIN f \cup {op.key}
           /\ op.type \in {"delete", "expire"} =>
                DOMAIN Effect(f, op, n) = DOMAIN f \ {op.key}
           /\ op.type \in {"update", "extendBTL", "changeOwner", "unknown"} =>
                DOMAIN Effect(f, op, n) = DOMAIN f
<1>1. \A k, r : DOMAIN Put(f, k, r) = DOMAIN f \cup {k}  BY DEF Put
<1>2. \A k : DOMAIN Del(f, k) = DOMAIN f \ {k}  BY DEF Del
<1>3. CASE op.type = "create"
    <2>1. Effect(f, op, n) = Put(f, op.key, NewRow(op, n))  BY <1>3, EffectCases
    <2> QED  BY <1>1, <1>3, <2>1
<1>4. CASE op.type \in {"delete", "expire"}
    <2>1. Effect(f, op, n) = IF op.key \in DOMAIN f THEN Del(f, op.key) ELSE f
        BY <1>4, EffectCases
    <2>2. DOMAIN Effect(f, op, n) = DOMAIN f \ {op.key}
        <3>1. CASE op.key \in DOMAIN f  BY <1>2, <2>1, <3>1
        <3>2. CASE op.key \notin DOMAIN f  BY <2>1, <3>2
        <3> QED  BY <3>1, <3>2
    <2> QED  BY <1>4, <2>2
<1>5. ASSUME NEW r, Effect(f, op, n) = IF op.key \in DOMAIN f THEN Put(f, op.key, r) ELSE f
      PROVE  DOMAIN Effect(f, op, n) = DOMAIN f
    <2>1. CASE op.key \in DOMAIN f
        <3>1. DOMAIN Effect(f, op, n) = DOMAIN f \cup {op.key}  BY <1>1, <1>5, <2>1
        <3> QED  BY <2>1, <3>1
    <2>2. CASE op.key \notin DOMAIN f  BY <1>5, <2>2
    <2> QED  BY <2>1, <2>2
<1>6. CASE op.type = "update"
    <2>1. DOMAIN Effect(f, op, n) = DOMAIN f  BY <1>5, <1>6, EffectCases
    <2> QED  BY <1>6, <2>1
<1>7. CASE op.type = "extendBTL"
    <2>1. DOMAIN Effect(f, op, n) = DOMAIN f  BY <1>5, <1>7, EffectCases
    <2> QED  BY <1>7, <2>1
<1>8. CASE op.type = "changeOwner"
    <2>1. DOMAIN Effect(f, op, n) = DOMAIN f  BY <1>5, <1>8, EffectCases
    <2> QED  BY <1>8, <2>1
<1>9. CASE op.type = "unknown"
    <2>1. DOMAIN Effect(f, op, n) = DOMAIN f  BY <1>9, EffectCases
    <2> QED  BY <1>9, <2>1
<1> QED  BY <1>3, <1>4, <1>6, <1>7, <1>8, <1>9

(* Creates stay fresh as the operations of a block are taken one by one.   *)
LEMMA FreshCreatesStep ==
    ASSUME NEW ops \in Seq(Op), NEW i \in 1 .. Len(ops), NEW f, NEW n,
           FreshCreates(ops, i, DOMAIN f)
    PROVE  /\ FreshCreates(ops, i + 1, DOMAIN Effect(f, ops[i], n))
           /\ ops[i].type = "create" => ops[i].key \notin DOMAIN f
<1> DEFINE live == DOMAIN f
           op == ops[i]
           after == DOMAIN Effect(f, op, n)
<1>1. op \in Op  OBVIOUS
<1>2. /\ op.type = "create" => after = live \cup {op.key}
      /\ op.type \in {"delete", "expire"} => after = live \ {op.key}
      /\ op.type \in {"update", "extendBTL", "changeOwner", "unknown"} => after = live
    BY <1>1, EffectDomain
<1>3. ASSUME op.type = "create"  PROVE op.key \notin live
    BY <1>3 DEF FreshCreates
<1> HIDE DEF after, op
<1>4. \A k \in after : k \in live \/ (op.type = "create" /\ k = op.key)
    BY <1>1, <1>2, OpTypes
<1>5. \A k \in after : ~IsRemove(op, k)
    BY <1>1, <1>2 DEF IsRemove
<1>6. ASSUME NEW c \in i + 1 .. Len(ops), ops[c].type = "create"
      PROVE  /\ ops[c].key \in after =>
                   \E r \in i + 1 .. c - 1 : IsRemove(ops[r], ops[c].key)
             /\ \A b \in i + 1 .. c - 1 : IsCreate(ops[b], ops[c].key) =>
                   \E r \in b + 1 .. c - 1 : IsRemove(ops[r], ops[c].key)
    <2> DEFINE k == ops[c].key
    <2>1. c \in i .. Len(ops) /\ i \in i .. c - 1  OBVIOUS
    <2>2. k \in live => \E r \in i .. c - 1 : IsRemove(ops[r], k)
        BY <1>6, <2>1 DEF FreshCreates
    <2>3. \A b \in i .. c - 1 : IsCreate(ops[b], k) =>
              \E r \in b + 1 .. c - 1 : IsRemove(ops[r], k)
        BY <1>6, <2>1 DEF FreshCreates
    <2>4. ASSUME k \in after  PROVE \E r \in i + 1 .. c - 1 : IsRemove(ops[r], k)
        <3>1. CASE k \in live
            <4>1. PICK r \in i .. c - 1 : IsRemove(ops[r], k)  BY <2>2, <3>1
            <4>2. r # i  BY <1>5, <2>4, <4>1 DEF op
            <4> QED  BY <4>1, <4>2
        <3>2. CASE op.type = "create" /\ k = op.key
            BY <2>1, <2>3, <3>2 DEF IsCreate, op
        <3> QED  BY <1>4, <2>4, <3>1, <3>2
    <2> QED  BY <2>3, <2>4
<1> QED  BY <1>3, <1>6 DEF FreshCreates, after, op

(* The entities the follower keeps agree with the ones obtained by taking  *)
(* every operation in turn, up to pending updates: this is why applying    *)
(* the last update of a key in a block is enough.                          *)
LEMMA AgreeStep ==
    ASSUME NEW ops \in Seq(Op), NEW i \in 1 .. Len(ops), NEW n \in Nat,
           NEW these, IsEntityMap(these), \A k \in DOMAIN these : these[k].key = k,
           NEW those, IsEntityMap(those),
           AgreeExcept(these, those, PendingUpdates(ops, i)),
           NEW replaced \in BOOLEAN,
           replaced <=> /\ ops[i].type = "update"
                        /\ \E j \in i + 1 .. Len(ops) : IsUpdate(ops[j], ops[i].key)
    PROVE  AgreeExcept(IF replaced THEN these ELSE Effect(these, ops[i], n),
                       Effect(those, ops[i], n), PendingUpdates(ops, i + 1))
<1> DEFINE op == ops[i]
           P == PendingUpdates(ops, i)
           Q == PendingUpdates(ops, i + 1)
<1>1. op \in Op  OBVIOUS
<1>2. ASSUME NEW k \in Key, ~IsUpdate(op, k)  PROVE k \in Q <=> k \in P
    <2>1. (\E j \in 1 .. i : IsUpdate(ops[j], k)) <=>
          (\E j \in 1 .. i - 1 : IsUpdate(ops[j], k))
        BY <1>2
    <2>2. (\E j \in i + 1 .. Len(ops) : IsUpdate(ops[j], k)) <=>
          (\E j \in i .. Len(ops) : IsUpdate(ops[j], k))
        BY <1>2
    <2>3. (i + 1) - 1 = i  OBVIOUS
    <2> QED  BY <2>1, <2>2, <2>3 DEF PendingUpdates
<1>3. ASSUME op.type = "update"  PROVE op.key \in Q <=> replaced
    <2>1. op.key \in Key  BY <1>1, <1>3, OpKinds
    <2>2. \E j \in 1 .. i : IsUpdate(ops[j], op.key)  BY <1>3 DEF IsUpdate
    <2>3. (i + 1) - 1 = i  OBVIOUS
    <2> QED  BY <1>3, <2>1, <2>2, <2>3 DEF PendingUpdates
<1> HIDE DEF P, Q, op
<1>4. /\ DOMAIN these = DOMAIN those /\ DOMAIN those \subseteq Key
      /\ \A k \in DOMAIN those :
            /\ these[k] \in Row /\ those[k] \in Row
            /\ these[k].key = k /\ those[k].key = k
            /\ SameCreation(these[k], those[k])
            /\ k \notin P => these[k] = those[k]
    BY DEF AgreeExcept, IsEntityMap, SameCreation, P
<1>5. \A r \in Row : SameCreation(r, r)  BY DEF SameCreation
<1>6. ASSUME NEW f, NEW g, NEW k \in Key,
             DOMAIN f = DOMAIN these, DOMAIN g = DOMAIN those,
             \A x \in DOMAIN those : x # k => f[x] = these[x] /\ g[x] = those[x],
             k \in DOMAIN those => IF k \in Q THEN SameCreation(f[k], g[k])
                                  ELSE f[k] = g[k],
             \A x \in DOMAIN those : x # k => ~IsUpdate(op, x)
      PROVE  AgreeExcept(f, g, Q)
    BY <1>2, <1>4, <1>6 DEF AgreeExcept
<1>7. CASE op.type = "update"
    <2>1. op.key \in Key  BY <1>1, <1>7, OpKinds
    <2>2. \A x : x # op.key => ~IsUpdate(op, x)  BY DEF IsUpdate
    <2>3. Effect(those, op, n) = IF op.key \in DOMAIN those
              THEN Put(those, op.key, UpdatedRow(those[op.key], op, n)) ELSE those
        BY <1>7, EffectCases
    <2>4. Effect(these, op, n) = IF op.key \in DOMAIN these
              THEN Put(these, op.key, UpdatedRow(these[op.key], op, n)) ELSE these
        BY <1>7, EffectCases
    <2>5. ASSUME op.key \in DOMAIN those
          PROVE  /\ UpdatedRow(these[op.key], op, n) = UpdatedRow(those[op.key], op, n)
                 /\ SameCreation(these[op.key], UpdatedRow(those[op.key], op, n))
        <3>1. /\ these[op.key] \in Row /\ those[op.key] \in Row
              /\ these[op.key].key = op.key /\ those[op.key].key = op.key
              /\ SameCreation(these[op.key], those[op.key])
            BY <1>4, <2>5
        <3>2. /\ UpdatedRow(these[op.key], op, n) = UpdatedRow(those[op.key], op, n)
              /\ SameCreation(UpdatedRow(these[op.key], op, n), these[op.key])
            BY <1>1, <1>5, <1>7, <3>1, CreationKept
        <3> QED  BY <3>1, <3>2 DEF SameCreation
    <2>6. CASE replaced
        <3> DEFINE g == Effect(those, op, n)
        <3>1. op.key \in Q  BY <1>3, <1>7, <2>6
        <3>2. /\ DOMAIN g = DOMAIN those
              /\ \A x \in DOMAIN those : x # op.key => g[x] = those[x]
              /\ op.key \in DOMAIN those => g[op.key] = UpdatedRow(those[op.key], op, n)
            BY <2>3 DEF Put
        <3>3. AgreeExcept(these, g, Q)
            <4> HIDE DEF g
            <4> QED  BY <1>6, <2>1, <2>2, <2>5, <3>1, <3>2
        <3> QED  BY <2>6, <3>3 DEF op, Q
    <2>7. CASE ~replaced
        <3> DEFINE f == Effect(these, op, n)
                   g == Effect(those, op, n)
        <3>1. op.key \notin Q  BY <1>3, <1>7, <2>7
        <3>2. /\ DOMAIN g = DOMAIN those
              /\ \A x \in DOMAIN those : x # op.key => g[x] = those[x]
              /\ op.key \in DOMAIN those => g[op.key] = UpdatedRow(those[op.key], op, n)
            BY <2>3 DEF Put
        <3>3. /\ DOMAIN f = DOMAIN these
              /\ \A x \in DOMAIN these : x # op.key => f[x] = these[x]
              /\ op.key \in DOMAIN these => f[op.key] = UpdatedRow(these[op.key], op, n)
            BY <2>4 DEF Put
        <3>4. AgreeExcept(f, g, Q)
            <4> HIDE DEF f, g
            <4>1. DOMAIN these = DOMAIN those  BY <1>4
            <4>2. op.key \in DOMAIN those => f[op.key] = g[op.key]
                BY <2>5, <3>2, <3>3, <4>1
            <4>3. \A x \in DOMAIN those : x # op.key => f[x] = these[x] /\ g[x] = those[x]
                BY <3>2, <3>3, <4>1
            <4> QED  BY <1>6, <2>1, <2>2, <3>1, <3>2, <3>3, <4>2, <4>3
        <3> QED  BY <2>7, <3>4 DEF op, Q
    <2> QED  BY <2>6, <2>7
<1>8. ASSUME op.type # "update"  PROVE ~replaced /\ \A k \in Key : k \in Q <=> k \in P
    BY <1>2, <1>8 DEF IsUpdate, op
<1>9. CASE op.type = "create"
    <2>1. /\ op.key \in Key /\ NewRow(op, n) \in Row
        <3>1. op \in CreateOp /\ op.key \in Key  BY <1>1, <1>9, OpKinds
        <3> QED  BY <3>1, NewRowType
    <2> DEFINE r == NewRow(op, n)
    <2>2. /\ Effect(these, op, n) = Put(these, op.key, r)
          /\ Effect(those, op, n) = Put(those, op.key, r)
        BY <1>9, EffectCases
    <2> HIDE DEF r
    <2>3. AgreeExcept(Put(these, op.key, r), Put(those, op.key, r), Q)
        BY <1>4, <1>5, <1>8, <1>9, <2>1 DEF AgreeExcept, Put, r
    <2> QED  BY <1>8, <1>9, <2>2, <2>3 DEF op, Q
<1>10. CASE op.type \in {"delete", "expire"}
    <2>1. AgreeExcept(these, those, Q)
        BY <1>4, <1>8, <1>10 DEF AgreeExcept
    <2>2. AgreeExcept(Del(these, op.key), Del(those, op.key), Q)
        BY <2>1 DEF AgreeExcept, Del
    <2>3. Effect(those, op, n) = IF op.key \in DOMAIN those THEN Del(those, op.key) ELSE those
        BY <1>10, EffectCases
    <2>4. Effect(these, op, n) = IF op.key \in DOMAIN these THEN Del(these, op.key) ELSE these
        BY <1>10, EffectCases
    <2> QED  BY <1>4, <1>8, <1>10, <2>1, <2>2, <2>3, <2>4 DEF op, Q
<1>11. ASSUME op.type # "update", op.key \in Key, NEW r, NEW s,
              op.key \in DOMAIN those => SameCreation(r, s),
              these[op.key] = those[op.key] => r = s,
              Effect(these, op, n) = IF op.key \in DOMAIN these
                  THEN Put(these, op.key, r) ELSE these,
              Effect(those, op, n) = IF op.key \in DOMAIN those
                  THEN Put(those, op.key, s) ELSE those
       PROVE  AgreeExcept(Effect(these, op, n), Effect(those, op, n), Q)
    <2> DEFINE f == Effect(these, op, n)
               g == Effect(those, op, n)
    <2>1. /\ DOMAIN g = DOMAIN those
          /\ \A x \in DOMAIN those : x # op.key => g[x] = those[x]
          /\ op.key \in DOMAIN those => g[op.key] = s
        BY <1>11 DEF Put
    <2>2. /\ DOMAIN f = DOMAIN these
          /\ \A x \in DOMAIN these : x # op.key => f[x] = these[x]
          /\ op.key \in DOMAIN these => f[op.key] = r
        BY <1>11 DEF Put
    <2> HIDE DEF f, g
    <2>3. op.key \in DOMAIN those => IF op.key \in Q THEN SameCreation(f[op.key], g[op.key])
                                     ELSE f[op.key] = g[op.key]
        BY <1>4, <1>8, <1>11, <2>1, <2>2
    <2>4. AgreeExcept(f, g, Q)
        BY <1>4, <1>6, <1>11, <2>1, <2>2, <2>3 DEF IsUpdate
    <2> QED  BY <2>4 DEF f, g
<1>12. CASE op.type = "extendBTL"
    <2>1. op.key \in Key  BY <1>1, <1>12, OpKinds
    <2>2. /\ Effect(these, op, n) = IF op.key \in DOMAIN these
                THEN Put(these, op.key, ExtendedRow(these[op.key], op)) ELSE these
          /\ Effect(those, op, n) = IF op.key \in DOMAIN those
                THEN Put(those, op.key, ExtendedRow(those[op.key], op)) ELSE those
        BY <1>12, EffectCases
    <2>3. op.key \in DOMAIN those =>
              SameCreation(ExtendedRow(these[op.key], op), ExtendedRow(those[op.key], op))
        BY <1>1, <1>4, CreationKept
    <2>4. AgreeExcept(Effect(these, op, n), Effect(those, op, n), Q)
        <3> DEFINE r == ExtendedRow(these[op.key], op)
                   s == ExtendedRow(those[op.key], op)
        <3>1. these[op.key] = those[op.key] => r = s  OBVIOUS
        <3> HIDE DEF r, s
        <3> QED  BY <1>11, <1>12, <2>1, <2>2, <2>3, <3>1 DEF r, s
    <2> QED  BY <1>8, <1>12, <2>4 DEF op, Q
<1>13. CASE op.type = "changeOwner"
    <2>1. op.key \in Key  BY <1>1, <1>13, OpKinds
    <2>2. /\ Effect(these, op, n) = IF op.key \in DOMAIN these
                THEN Put(these, op.key, ReownedRow(these[op.key], op)) ELSE these
          /\ Effect(those, op, n) = IF op.key \in DOMAIN those
                THEN Put(those, op.key, ReownedRow(those[op.key], op)) ELSE those
        BY <1>13, EffectCases
    <2>3. op.key \in DOMAIN those =>
              SameCreation(ReownedRow(these[op.key], op), ReownedRow(those[op.key], op))
        BY <1>1, <1>4, CreationKept
    <2>4. AgreeExcept(Effect(these, op, n), Effect(those, op, n), Q)
        <3> DEFINE r == ReownedRow(these[op.key], op)
                   s == ReownedRow(those[op.key], op)
        <3>1. these[op.key] = those[op.key] => r = s  OBVIOUS
        <3> HIDE DEF r, s
        <3> QED  BY <1>11, <1>13, <2>1, <2>2, <2>3, <3>1 DEF r, s
    <2> QED  BY <1>8, <1>13, <2>4 DEF op, Q
<1>14. CASE op.type = "unknown"
    <2>1. Effect(these, op, n) = these /\ Effect(those, op, n) = those
        BY <1>14, EffectCases
    <2>2. AgreeExcept(these, those, Q)
        BY <1>4, <1>8, <1>14 DEF AgreeExcept
    <2> QED  BY <1>8, <1>14, <2>1, <2>2 DEF op, Q
<1> QED  BY <1>1, <1>7, <1>9, <1>10, <1>12, <1>13, <1>14, OpTypes

-----------------------------------------------------------------------------
(* Views and caches                                                        *)

IsCache(c) == c \in [DOMAIN c -> SUBSET Nat]

(* The bitmaps seen through a cache, stated for every index key.           *)
Filed(c, v) == \A p : Cached(c, v, p) = Posting(v, p)

(* Cache d on view w shows what cache c on view v shows, except that id    *)
(* has been removed under the keys in out and then added under those in in.*)
Refiled(c, v, d, w, out, in, id) ==
    \A p : Cached(d, w, p) = IF p \in in THEN Cached(c, v, p) \cup {id}
                             ELSE IF p \in out THEN Cached(c, v, p) \ {id}
                             ELSE Cached(c, v, p)

(* Removing an entity under the keys in out and adding it under those in   *)
(* in turns its index keys in v into those of row.                         *)
KeysBecome(v, row, out, in) ==
    IF row.key \in DOMAIN v.cur
    THEN IndexKeys(row) = (IndexKeys(v.pay[v.cur[row.key]]) \ out) \cup in
    ELSE IndexKeys(row) = in

-----------------------------------------------------------------------------
(* Views                                                                   *)

(* Replacing one key space of a view leaves the others alone.              *)
LEMMA ViewExcept ==
    ASSUME NEW v, IsView(v), NEW x
    PROVE  /\ [v EXCEPT !.cur = x] =
                [cur |-> x, pay |-> v.pay, bm |-> v.bm, meta |-> v.meta]
           /\ [v EXCEPT !.pay = x] =
                [cur |-> v.cur, pay |-> x, bm |-> v.bm, meta |-> v.meta]
           /\ [v EXCEPT !.bm = x] =
                [cur |-> v.cur, pay |-> v.pay, bm |-> x, meta |-> v.meta]
           /\ [v EXCEPT !.meta = x] =
                [cur |-> v.cur, pay |-> v.pay, bm |-> v.bm, meta |-> x]
    BY DEF IsView

(* The entity count and the id counter: writing one reads back, leaves the *)
(* other metadata alone and touches no other key space.                    *)
LEMMA MetaFacts ==
    ASSUME NEW v, IsView(v), NEW name \in MetaName, NEW n \in Nat,
           NEW w, w = PutMeta(v, name, n)
    PROVE  /\ IsView(w)
           /\ w.cur = v.cur /\ w.pay = v.pay /\ w.bm = v.bm
           /\ DOMAIN w.meta = DOMAIN v.meta \cup {name}
           /\ w.meta[name] = n
           /\ \A other, default : other # name =>
                 MetaOr(w, other, default) = MetaOr(v, other, default)
<1>1. w = [cur |-> v.cur, pay |-> v.pay, bm |-> v.bm, meta |-> Put(v.meta, name, n)]
    BY ViewExcept DEF PutMeta
<1>2. v.meta \in [DOMAIN v.meta -> Nat] /\ DOMAIN v.meta \subseteq MetaName
    BY DEF IsView
<1>3. w.cur = v.cur /\ w.pay = v.pay /\ w.bm = v.bm /\ w.meta = Put(v.meta, name, n)
    BY <1>1
<1>4. /\ w.meta \in [DOMAIN w.meta -> Nat]
      /\ DOMAIN w.meta = DOMAIN v.meta \cup {name}
      /\ DOMAIN w.meta \subseteq MetaName
      /\ w.meta[name] = n
      /\ \A z \in DOMAIN v.meta : z # name => w.meta[z] = v.meta[z]
    BY <1>2, <1>3 DEF Put
<1>5. IsView(w)
    BY <1>1, <1>4, <1>3 DEF IsView
<1> QED  BY <1>4, <1>3, <1>5 DEF MetaOr

(* A counter read from a view is a natural number.                         *)
LEMMA MetaNat ==
    ASSUME NEW v, IsView(v), NEW name, NEW default \in Nat
    PROVE  MetaOr(v, name, default) \in Nat
    BY DEF IsView, MetaOr

(* What UpsertPayload does to each key space and to the counters.          *)
Upserted(v, next, row, w) ==
    LET id == UpsertID(v, row.key, next)
    IN  /\ IsView(w)
        /\ id \in Nat
        /\ w.cur = Put(v.cur, row.key, id)
        /\ w.pay = Put(v.pay, id, row)
        /\ w.bm = v.bm
        /\ row.key \in DOMAIN v.cur => w.meta = v.meta
        /\ row.key \notin DOMAIN v.cur =>
              /\ DOMAIN w.meta = DOMAIN v.meta \cup {"idCounter", "entityCount"}
              /\ w.meta["idCounter"] = next + 1
              /\ w.meta["entityCount"] = GetNumberOfEntities(v) + 1
        /\ GetLastBlock(w) = GetLastBlock(v)

(* UpsertPayload writes the pointer, the record and, for a new entity, the *)
(* two counters, and nothing else.                                         *)
LEMMA UpsertFacts ==
    ASSUME NEW v, IsView(v), NEW next \in Nat, NEW row \in Row
    PROVE  Upserted(v, next, row, UpsertPayload(v, next, row))
<1> DEFINE id == UpsertID(v, row.key, next)
           w == UpsertPayload(v, next, row)
<1> DEFINE a == PersistNextID(v, next)
           b == IncrementEntityCount(a)
           u == IF row.key \in DOMAIN v.cur THEN v ELSE b
<1>1. /\ IsView(a)
      /\ a.cur = v.cur /\ a.pay = v.pay /\ a.bm = v.bm
      /\ DOMAIN a.meta = DOMAIN v.meta \cup {"idCounter"}
      /\ a.meta["idCounter"] = next + 1
      /\ GetNumberOfEntities(a) = GetNumberOfEntities(v)
      /\ GetLastBlock(a) = GetLastBlock(v)
    <2>1. next + 1 \in Nat /\ "idCounter" \in MetaName  BY DEF MetaName
    <2> QED  BY <2>1, MetaFacts DEF PersistNextID, GetNumberOfEntities, GetLastBlock
<1>2. /\ IsView(b)
      /\ b.cur = v.cur /\ b.pay = v.pay /\ b.bm = v.bm
      /\ DOMAIN b.meta = DOMAIN v.meta \cup {"idCounter", "entityCount"}
      /\ b.meta["idCounter"] = next + 1
      /\ b.meta["entityCount"] = GetNumberOfEntities(v) + 1
      /\ GetLastBlock(b) = GetLastBlock(v)
    <2>1. GetNumberOfEntities(a) + 1 \in Nat /\ "entityCount" \in MetaName
        BY <1>1, MetaNat DEF GetNumberOfEntities, MetaName
    <2> DEFINE n == GetNumberOfEntities(a) + 1
    <2>2. b = PutMeta(a, "entityCount", n)
        BY DEF IncrementEntityCount, SetEntityCount
    <2> HIDE DEF a, b, n
    <2>3. /\ IsView(b)
          /\ b.cur = a.cur /\ b.pay = a.pay /\ b.bm = a.bm
          /\ DOMAIN b.meta = DOMAIN a.meta \cup {"entityCount"}
          /\ b.meta["entityCount"] = n
          /\ \A other, default : other # "entityCount" =>
                 MetaOr(b, other, default) = MetaOr(a, other, default)
        BY <1>1, <2>1, <2>2, MetaFacts DEF n
    <2>4. b.meta["idCounter"] = a.meta["idCounter"]
        BY <2>3, <1>1 DEF MetaOr
    <2> QED  BY <1>1, <2>3, <2>4 DEF n, GetLastBlock
<1>3. /\ IsView(u) /\ u.cur = v.cur /\ u.pay = v.pay /\ u.bm = v.bm
      /\ row.key \in DOMAIN v.cur => u.meta = v.meta
      /\ row.key \notin DOMAIN v.cur => u.meta = b.meta
      /\ GetLastBlock(u) = GetLastBlock(v)
    BY <1>2
<1>4. id \in Nat /\ row.key \in Key
    BY DEF UpsertID, IsView, Row
<1>5. w = [u EXCEPT !.cur = Put(@, row.key, id), !.pay = Put(@, id, row)]
    BY DEF UpsertPayload
<1> HIDE DEF a, b, u, id, w
<1>6. w = [cur |-> Put(v.cur, row.key, id), pay |-> Put(v.pay, id, row),
           bm |-> v.bm, meta |-> u.meta]
    BY <1>3, <1>5 DEF IsView
<1>7. /\ v.cur \in [DOMAIN v.cur -> Nat] /\ DOMAIN v.cur \subseteq Key
      /\ v.pay \in [DOMAIN v.pay -> Row] /\ DOMAIN v.pay \subseteq Nat
    BY DEF IsView
<1>8. /\ w.cur \in [DOMAIN w.cur -> Nat] /\ DOMAIN w.cur \subseteq Key
      /\ w.pay \in [DOMAIN w.pay -> Row] /\ DOMAIN w.pay \subseteq Nat
    <2>1. w.cur = Put(v.cur, row.key, id) /\ w.pay = Put(v.pay, id, row)  BY <1>6
    <2>2. w.cur \in [DOMAIN w.cur -> Nat] /\ DOMAIN w.cur \subseteq Key
        BY <1>4, <1>7, <2>1 DEF Put
    <2>3. w.pay \in [DOMAIN w.pay -> Row] /\ DOMAIN w.pay \subseteq Nat
        BY <1>4, <1>7, <2>1 DEF Put
    <2> QED  BY <2>2, <2>3
<1>9. IsView(w)
    BY <1>3, <1>6, <1>8 DEF IsView
<1>10. GetLastBlock(w) = GetLastBlock(v)
    BY <1>3, <1>6 DEF GetLastBlock, MetaOr
<1>11. /\ row.key \in DOMAIN v.cur => w.meta = v.meta
       /\ row.key \notin DOMAIN v.cur => w.meta = b.meta
    BY <1>3, <1>6
<1>12. w.cur = Put(v.cur, row.key, id) /\ w.pay = Put(v.pay, id, row) /\ w.bm = v.bm
    BY <1>6
<1> QED  BY <1>2, <1>4, <1>9, <1>10, <1>11, <1>12 DEF Upserted, id, w

(* What DeletePayloadForEntityKey does to each key space and the counters. *)
LEMMA DeleteFacts ==
    ASSUME NEW v, IsView(v), NEW key \in DOMAIN v.cur, ~EntityCountUnderflow(v),
           NEW w, w = DeletePayloadForEntityKey(v, key)
    PROVE  /\ IsView(w)
           /\ w.cur = Del(v.cur, key)
           /\ w.pay = Del(v.pay, v.cur[key])
           /\ w.bm = v.bm
           /\ DOMAIN w.meta = DOMAIN v.meta \cup {"entityCount"}
           /\ w.meta["entityCount"] = GetNumberOfEntities(v) - 1
           /\ \A other, default : other # "entityCount" =>
                 MetaOr(w, other, default) = MetaOr(v, other, default)
<1> DEFINE u == [v EXCEPT !.pay = Del(@, v.cur[key]), !.cur = Del(@, key)]
<1>1. u = [cur |-> Del(v.cur, key), pay |-> Del(v.pay, v.cur[key]),
           bm |-> v.bm, meta |-> v.meta]
    <2> DEFINE x == Del(v.pay, v.cur[key])
               y == Del(v.cur, key)
    <2>1. u = [[v EXCEPT !.pay = x] EXCEPT !.cur = y]  OBVIOUS
    <2> HIDE DEF x, y, u
    <2>2. u = [cur |-> y, pay |-> x, bm |-> v.bm, meta |-> v.meta]
        BY <2>1 DEF IsView
    <2> QED  BY <2>2 DEF x, y
<1>2. /\ v.cur \in [DOMAIN v.cur -> Nat] /\ DOMAIN v.cur \subseteq Key
      /\ v.pay \in [DOMAIN v.pay -> Row] /\ DOMAIN v.pay \subseteq Nat
      /\ v.bm \in [DOMAIN v.bm -> SUBSET Nat]
      /\ v.meta \in [DOMAIN v.meta -> Nat] /\ DOMAIN v.meta \subseteq MetaName
    BY DEF IsView
<1>3. w = PutMeta(u, "entityCount", GetNumberOfEntities(u) - 1)
    BY DEF DeletePayloadForEntityKey, DecrementEntityCount, SetEntityCount
<1> HIDE DEF u
<1>4. /\ u.cur \in [DOMAIN u.cur -> Nat] /\ DOMAIN u.cur \subseteq Key
      /\ u.pay \in [DOMAIN u.pay -> Row] /\ DOMAIN u.pay \subseteq Nat
    <2>1. u.cur = Del(v.cur, key) /\ u.pay = Del(v.pay, v.cur[key])  BY <1>1
    <2>2. u.cur \in [DOMAIN u.cur -> Nat] /\ DOMAIN u.cur \subseteq Key
        BY <1>2, <2>1 DEF Del
    <2>3. u.pay \in [DOMAIN u.pay -> Row] /\ DOMAIN u.pay \subseteq Nat
        BY <1>2, <2>1 DEF Del
    <2> QED  BY <2>2, <2>3
<1>5. IsView(u)
    BY <1>1, <1>2, <1>4 DEF IsView
<1>6. GetNumberOfEntities(u) = GetNumberOfEntities(v)
    BY <1>1 DEF GetNumberOfEntities, MetaOr
<1>7. GetNumberOfEntities(u) - 1 \in Nat /\ "entityCount" \in MetaName
    BY <1>5, <1>6, MetaNat DEF EntityCountUnderflow, GetNumberOfEntities, MetaName
<1>8. /\ IsView(w)
      /\ w.cur = u.cur /\ w.pay = u.pay /\ w.bm = u.bm
      /\ DOMAIN w.meta = DOMAIN u.meta \cup {"entityCount"}
      /\ w.meta["entityCount"] = GetNumberOfEntities(u) - 1
      /\ \A other, default : other # "entityCount" =>
             MetaOr(w, other, default) = MetaOr(u, other, default)
    BY <1>3, <1>5, <1>7, MetaFacts
<1>9. \A other, default : MetaOr(u, other, default) = MetaOr(v, other, default)
    BY <1>1 DEF MetaOr
<1> QED  BY <1>1, <1>6, <1>8, <1>9

-----------------------------------------------------------------------------
(* Bitmaps                                                                 *)

(* Exactness of the cached bitmaps, key by key, is exactness for all keys. *)
LEMMA FiledIsExact ==
    ASSUME NEW v, NEW c
    PROVE  CacheExact(c, v) <=> Filed(c, v)
<1>1. ASSUME CacheExact(c, v), NEW p  PROVE Cached(c, v, p) = Posting(v, p)
    <2>1. CASE p \in DOMAIN v.bm \cup DOMAIN c  BY <1>1, <2>1 DEF CacheExact, CacheComplete
    <2>2. CASE p \notin DOMAIN v.bm \cup DOMAIN c
        <3>1. Cached(c, v, p) = {}  BY <2>2 DEF Cached, GetBitmap
        <3>2. \A id \in DOMAIN v.pay : p \notin IndexKeys(v.pay[id])
            BY <1>1, <3>1 DEF CacheExact, CacheComplete
        <3> QED  BY <3>1, <3>2 DEF Posting
    <2> QED  BY <2>1, <2>2
<1>2. ASSUME Filed(c, v)  PROVE CacheExact(c, v)
    BY <1>2 DEF Filed, CacheExact, CacheComplete, Posting
<1> QED  BY <1>1, <1>2 DEF Filed

(* What a cache shows after an id has been added under some keys, through  *)
(* any view with the same stored bitmaps.                                  *)
LEMMA AddFacts ==
    ASSUME NEW c, IsCache(c), NEW v, IsView(v), NEW keys, NEW id \in Nat,
           NEW d, d = AddToBitmaps(c, v, keys, id), NEW w, w.bm = v.bm
    PROVE  /\ IsCache(d)
           /\ \A p : Cached(d, w, p) = IF p \in keys THEN Cached(c, v, p) \cup {id}
                                        ELSE Cached(c, v, p)
<1>1. \A p : Cached(c, v, p) \in SUBSET Nat
    BY DEF IsCache, Cached, GetBitmap, IsView
<1>2. DOMAIN d = DOMAIN c \cup keys
    BY DEF AddToBitmaps
<1>3. \A p \in DOMAIN d : d[p] = IF p \in keys THEN Cached(c, v, p) \cup {id} ELSE c[p]
    BY DEF AddToBitmaps
<1>4. d = [p \in DOMAIN d |-> d[p]]
    BY DEF AddToBitmaps
<1>5. \A p \in DOMAIN d : d[p] \in SUBSET Nat
    BY <1>1, <1>2, <1>3 DEF IsCache
<1> QED  BY <1>2, <1>3, <1>4, <1>5 DEF Cached, GetBitmap, IsCache

(* The same after an id has been removed.                                  *)
LEMMA RemoveFacts ==
    ASSUME NEW c, IsCache(c), NEW v, IsView(v), NEW keys, NEW id \in Nat,
           NEW d, d = RemoveFromBitmaps(c, v, keys, id), NEW w, w.bm = v.bm
    PROVE  /\ IsCache(d)
           /\ \A p : Cached(d, w, p) = IF p \in keys THEN Cached(c, v, p) \ {id}
                                        ELSE Cached(c, v, p)
<1>1. \A p : Cached(c, v, p) \in SUBSET Nat
    BY DEF IsCache, Cached, GetBitmap, IsView
<1>2. DOMAIN d = DOMAIN c \cup keys
    BY DEF RemoveFromBitmaps
<1>3. \A p \in DOMAIN d : d[p] = IF p \in keys THEN Cached(c, v, p) \ {id} ELSE c[p]
    BY DEF RemoveFromBitmaps
<1>4. d = [p \in DOMAIN d |-> d[p]]
    BY DEF RemoveFromBitmaps
<1>5. \A p \in DOMAIN d : d[p] \in SUBSET Nat
    BY <1>1, <1>2, <1>3 DEF IsCache
<1> QED  BY <1>2, <1>3, <1>4, <1>5 DEF Cached, GetBitmap, IsCache

(* Flush stores what the cache shows, keeps the other key spaces, and      *)
(* stores no empty bitmap if there was none.                               *)
LEMMA FlushFacts ==
    ASSUME NEW c, IsCache(c), NEW v, IsView(v), \A p \in DOMAIN v.bm : v.bm[p] # {},
           NEW w, w = Flush(v, c)
    PROVE  /\ IsView(w)
           /\ w.cur = v.cur /\ w.pay = v.pay /\ w.meta = v.meta
           /\ \A p \in DOMAIN w.bm : w.bm[p] # {}
           /\ \A p : GetBitmap(w, p) = Cached(c, v, p)
<1> DEFINE kept == {p \in DOMAIN v.bm \cup DOMAIN c : p \in DOMAIN c => c[p] # {}}
           bm == [p \in kept |-> Cached(c, v, p)]
<1>1. w = [cur |-> v.cur, pay |-> v.pay, bm |-> bm, meta |-> v.meta]
    BY ViewExcept, Zenon DEF Flush
<1>2. \A p \in kept : Cached(c, v, p) \in SUBSET Nat /\ Cached(c, v, p) # {}
    BY DEF IsCache, Cached, GetBitmap, IsView
<1>3. \A p : p \notin kept => Cached(c, v, p) = {}
    BY DEF Cached, GetBitmap
<1>4. w.cur = v.cur /\ w.pay = v.pay /\ w.meta = v.meta /\ w.bm = bm
    BY <1>1
<1>5. DOMAIN bm = kept /\ \A p \in kept : bm[p] = Cached(c, v, p)
    OBVIOUS
<1>6. bm \in [DOMAIN bm -> SUBSET Nat]
    BY <1>2
<1> HIDE DEF kept, bm
<1>7. IsView(w)
    BY <1>1, <1>4, <1>6 DEF IsView
<1>8. \A p : GetBitmap(w, p) = Cached(c, v, p)
    BY <1>3, <1>4, <1>5 DEF GetBitmap
<1> QED  BY <1>2, <1>4, <1>5, <1>7, <1>8

-----------------------------------------------------------------------------
(* Consistency of a batch                                                  *)

(* The records of a batch after an upsert: one of them is new, under an id *)
(* that was not in use, or changed, under the id it had.                   *)
LEMMA UpsertChangesOne ==
    ASSUME NEW v, IsView(v), NEW next \in Nat, RecordsExact(v, next),
           NEW row \in Row,
           NEW id, id = UpsertID(v, row.key, next),
           NEW w, w = UpsertPayload(v, next, row)
    PROVE  /\ DOMAIN w.cur = DOMAIN v.cur \cup {row.key}
           /\ w.cur[row.key] = id
           /\ \A k \in DOMAIN v.cur : k # row.key => w.cur[k] = v.cur[k]
           /\ DOMAIN w.pay = DOMAIN v.pay \cup {id}
           /\ w.pay[id] = row
           /\ \A i \in DOMAIN v.pay : i # id => w.pay[i] = v.pay[i]
           /\ row.key \in DOMAIN v.cur => id = v.cur[row.key] /\ id \in DOMAIN v.pay
                                          /\ v.pay[id].key = row.key
           /\ row.key \notin DOMAIN v.cur => id = next /\ id \notin DOMAIN v.pay
<1>v. PointersMatchPayloads(v) /\ IdsBelow(v, PersistedNextID(v)) /\ PersistedNextID(v) <= next
    BY DEF RecordsExact
<1>0. DOMAIN v.pay \subseteq Nat /\ PersistedNextID(v) \in Nat
    BY MetaNat DEF IsView, PersistedNextID
<1>1. w.cur = Put(v.cur, row.key, id) /\ w.pay = Put(v.pay, id, row)
    <2>1. Upserted(v, next, row, w)  BY UpsertFacts
    <2> QED  BY <2>1 DEF Upserted
<1>2. /\ DOMAIN w.cur = DOMAIN v.cur \cup {row.key}
      /\ w.cur[row.key] = id
      /\ \A k \in DOMAIN v.cur : k # row.key => w.cur[k] = v.cur[k]
      /\ DOMAIN w.pay = DOMAIN v.pay \cup {id}
      /\ w.pay[id] = row
      /\ \A i \in DOMAIN v.pay : i # id => w.pay[i] = v.pay[i]
    BY <1>1 DEF Put
<1>3. CASE row.key \in DOMAIN v.cur
    BY <1>v, <1>2, <1>3 DEF UpsertID, PointersMatchPayloads
<1>4. CASE row.key \notin DOMAIN v.cur
    <2>1. id = next  BY <1>4 DEF UpsertID
    <2>2. \A i \in DOMAIN v.pay : i < PersistedNextID(v)  BY <1>v DEF IdsBelow
    <2>3. next \notin DOMAIN v.pay  BY <1>0, <1>v, <2>2
    <2> QED  BY <1>2, <1>4, <2>1, <2>3
<1> QED  BY <1>3, <1>4

(* Storing a record for an entity, new or not, keeps the pointers and the  *)
(* records of the batch, its count and its id counter in step.             *)
LEMMA UpsertKeepsRecords ==
    ASSUME NEW v, IsView(v), NEW next \in Nat, RecordsExact(v, next),
           NEW row \in Row,
           NEW w, w = UpsertPayload(v, next, row)
    PROVE  RecordsExact(w, IF row.key \in DOMAIN v.cur THEN next ELSE next + 1)
<1> DEFINE id == UpsertID(v, row.key, next)
<1>v. /\ IsFiniteSet(DOMAIN v.cur) /\ PointersMatchPayloads(v)
      /\ CountExact(v) /\ "entityCount" \in DOMAIN v.meta
      /\ IdsBelow(v, PersistedNextID(v)) /\ PersistedNextID(v) <= next
    BY DEF RecordsExact
<1>0. /\ v.cur \in [DOMAIN v.cur -> Nat] /\ DOMAIN v.pay \subseteq Nat
      /\ PersistedNextID(v) \in Nat /\ GetNumberOfEntities(v) \in Nat
    BY MetaNat DEF IsView, PersistedNextID, GetNumberOfEntities
<1>1. /\ row.key \in DOMAIN v.cur => w.meta = v.meta
      /\ row.key \notin DOMAIN v.cur =>
            /\ DOMAIN w.meta = DOMAIN v.meta \cup {"idCounter", "entityCount"}
            /\ w.meta["idCounter"] = next + 1
            /\ w.meta["entityCount"] = GetNumberOfEntities(v) + 1
    <2>1. Upserted(v, next, row, w)  BY UpsertFacts
    <2> QED  BY <2>1 DEF Upserted
<1>2. /\ DOMAIN w.cur = DOMAIN v.cur \cup {row.key}
      /\ w.cur[row.key] = id
      /\ \A k \in DOMAIN v.cur : k # row.key => w.cur[k] = v.cur[k]
      /\ DOMAIN w.pay = DOMAIN v.pay \cup {id}
      /\ w.pay[id] = row
      /\ \A i \in DOMAIN v.pay : i # id => w.pay[i] = v.pay[i]
      /\ row.key \in DOMAIN v.cur => id = v.cur[row.key] /\ id \in DOMAIN v.pay
                                     /\ v.pay[id].key = row.key
      /\ row.key \notin DOMAIN v.cur => id = next /\ id \notin DOMAIN v.pay
    BY UpsertChangesOne
<1> HIDE DEF id
<1>4. PointersMatchPayloads(w)
    <2>1. \A k \in DOMAIN v.cur : k # row.key =>
              v.cur[k] \in DOMAIN v.pay /\ v.cur[k] # id /\ v.pay[v.cur[k]].key = k
        BY <1>v, <1>2 DEF PointersMatchPayloads
    <2>2. \A i \in DOMAIN v.pay : i # id =>
              /\ v.pay[i].key \in DOMAIN v.cur /\ v.cur[v.pay[i].key] = i
              /\ v.pay[i].key # row.key
        BY <1>v, <1>2 DEF PointersMatchPayloads
    <2> QED  BY <1>2, <2>1, <2>2 DEF PointersMatchPayloads
<1>5. IsFiniteSet(DOMAIN w.cur) /\ CountExact(w) /\ "entityCount" \in DOMAIN w.meta
    <2> DEFINE S == DOMAIN v.cur
    <2>a. IsFiniteSet(S)  BY <1>v
    <2>b. DOMAIN w.cur = S \cup {row.key}  BY <1>2
    <2> HIDE DEF S
    <2>1. /\ IsFiniteSet(DOMAIN w.cur)
          /\ Cardinality(DOMAIN w.cur) =
                IF row.key \in S THEN Cardinality(S) ELSE Cardinality(S) + 1
        BY <2>a, <2>b, FS_AddElement, Zenon
    <2>2. GetNumberOfEntities(v) = Cardinality(S)
        BY <1>v DEF S, CountExact, GetNumberOfEntities, MetaOr
    <2>3. CASE row.key \in S
        BY <1>v, <1>1, <2>1, <2>2, <2>3 DEF S, CountExact
    <2>4. CASE row.key \notin S
        BY <1>1, <2>1, <2>2, <2>4 DEF S, CountExact
    <2> QED  BY <2>3, <2>4
<1>6. /\ IdsBelow(w, PersistedNextID(w))
      /\ PersistedNextID(w) <= IF row.key \in DOMAIN v.cur THEN next ELSE next + 1
    <2>1. CASE row.key \in DOMAIN v.cur
        <3>1. PersistedNextID(w) = PersistedNextID(v) /\ DOMAIN w.pay = DOMAIN v.pay
            BY <1>1, <1>2, <2>1 DEF PersistedNextID, MetaOr
        <3> QED  BY <1>v, <3>1, <2>1 DEF IdsBelow
    <2>2. CASE row.key \notin DOMAIN v.cur
        <3>1. PersistedNextID(w) = next + 1
            BY <1>1, <2>2 DEF PersistedNextID, MetaOr
        <3> QED  BY <1>v, <1>0, <1>2, <2>2, <3>1 DEF IdsBelow
    <2> QED  BY <2>1, <2>2
<1> QED  BY <1>4, <1>5, <1>6 DEF RecordsExact

(* If the id is refiled too the bitmaps stay the postings, provided that   *)
(* what the refiling does (removals under Out, additions under In) turns   *)
(* the old index keys into the new.                                        *)
LEMMA UpsertKeepsExact ==
    ASSUME NEW v, IsView(v), NEW c, IsCache(c), NEW next \in Nat,
           BatchExact(v, c, next),
           NEW row \in Row,
           NEW id, id = UpsertID(v, row.key, next),
           NEW w, w = UpsertPayload(v, next, row),
           NEW Out, NEW In,
           KeysBecome(v, row, Out, In),
           NEW d, IsCache(d), Refiled(c, v, d, w, Out, In, id)
    PROVE  BatchExact(w, d, IF row.key \in DOMAIN v.cur THEN next ELSE next + 1)
<1>1. RecordsExact(v, next) /\ CacheExact(c, v)
    BY DEF BatchExact
<1>2. /\ DOMAIN w.pay = DOMAIN v.pay \cup {id}
      /\ w.pay[id] = row
      /\ \A i \in DOMAIN v.pay : i # id => w.pay[i] = v.pay[i]
      /\ row.key \in DOMAIN v.cur => id = v.cur[row.key] /\ id \in DOMAIN v.pay
      /\ row.key \notin DOMAIN v.cur => id \notin DOMAIN v.pay
    BY <1>1, UpsertChangesOne
<1>3. ASSUME NEW p  PROVE Cached(d, w, p) = Posting(w, p)
    <2>1. Cached(c, v, p) = Posting(v, p)  BY <1>1, FiledIsExact DEF Filed
    <2>2. Posting(w, p) = IF p \in IndexKeys(row) THEN Posting(v, p) \cup {id}
                          ELSE Posting(v, p) \ {id}
        BY <1>2 DEF Posting
    <2>3. CASE p \in In
        <3>1. p \in IndexKeys(row)  BY <2>3 DEF KeysBecome
        <3> QED  BY <2>1, <2>2, <2>3, <3>1 DEF Refiled
    <2>4. CASE p \notin In /\ p \in Out
        <3>1. p \in IndexKeys(row) => row.key \notin DOMAIN v.cur
            BY <2>4 DEF KeysBecome
        <3>2. p \notin IndexKeys(row)  BY <2>4, <3>1 DEF KeysBecome
        <3> QED  BY <2>1, <2>2, <2>4, <3>2 DEF Refiled
    <2>5. CASE p \notin In /\ p \notin Out
        <3>1. id \in Posting(v, p) <=> p \in IndexKeys(row)
            BY <1>2, <2>5 DEF Posting, KeysBecome
        <3> QED  BY <2>1, <2>2, <2>5, <3>1 DEF Refiled
    <2> QED  BY <2>3, <2>4, <2>5
<1>4. CacheExact(d, w)
    BY <1>3, FiledIsExact DEF Filed
<1>5. RecordsExact(w, IF row.key \in DOMAIN v.cur THEN next ELSE next + 1)
    BY <1>1, UpsertKeepsRecords
<1> QED  BY <1>4, <1>5 DEF BatchExact

(* And every entity stays filed under its index keys even if the id is     *)
(* left under others, as a create of an existing key leaves it.            *)
LEMMA UpsertKeepsComplete ==
    ASSUME NEW v, IsView(v), NEW c, NEW next \in Nat,
           RecordsExact(v, next), CacheComplete(c, v),
           NEW row \in Row,
           NEW id, id = UpsertID(v, row.key, next),
           NEW w, w = UpsertPayload(v, next, row),
           NEW Out, NEW In,
           IndexKeys(row) \subseteq In \/ KeysBecome(v, row, Out, In),
           NEW d, Refiled(c, v, d, w, Out, In, id)
    PROVE  CacheComplete(d, w)
<1>1. /\ DOMAIN w.pay = DOMAIN v.pay \cup {id}
      /\ w.pay[id] = row
      /\ \A i \in DOMAIN v.pay : i # id => w.pay[i] = v.pay[i]
      /\ row.key \in DOMAIN v.cur => id = v.cur[row.key] /\ id \in DOMAIN v.pay
    BY UpsertChangesOne
<1>2. ASSUME NEW i \in DOMAIN w.pay, NEW p \in IndexKeys(w.pay[i])
      PROVE  i \in Cached(d, w, p)
    <2>1. CASE i # id
        <3>1. i \in Cached(c, v, p)
            BY <1>1, <1>2, <2>1 DEF CacheComplete
        <3> QED  BY <2>1, <3>1 DEF Refiled
    <2>2. CASE i = id
        <3>1. p \in IndexKeys(row)
            BY <1>1, <2>2
        <3>2. CASE p \in In
            BY <2>2, <3>2 DEF Refiled
        <3>3. CASE p \notin In
            <4>1. /\ row.key \in DOMAIN v.cur /\ p \notin Out
                  /\ p \in IndexKeys(v.pay[id]) /\ id \in DOMAIN v.pay
                BY <1>1, <3>1, <3>3 DEF KeysBecome
            <4>2. id \in Cached(c, v, p)
                BY <4>1 DEF CacheComplete
            <4> QED  BY <2>2, <3>3, <4>1, <4>2 DEF Refiled
        <3> QED  BY <3>2, <3>3
    <2> QED  BY <2>1, <2>2
<1> QED  BY <1>2 DEF CacheComplete

(* Deleting an entity keeps the records in step, and the entity count does *)
(* not underflow.                                                          *)
LEMMA DeleteKeepsRecords ==
    ASSUME NEW v, IsView(v), NEW next \in Nat, RecordsExact(v, next),
           NEW key \in DOMAIN v.cur,
           NEW w, w = DeletePayloadForEntityKey(v, key),
           ~EntityCountUnderflow(v)
    PROVE  RecordsExact(w, next)
<1> USE DEF RecordsExact
<1> DEFINE id == v.cur[key]
<1>0. /\ v.cur \in [DOMAIN v.cur -> Nat] /\ DOMAIN v.pay \subseteq Nat
      /\ PersistedNextID(v) \in Nat /\ GetNumberOfEntities(v) \in Nat
    BY MetaNat DEF IsView, PersistedNextID, GetNumberOfEntities
<1>1. /\ IsView(w)
      /\ w.cur = Del(v.cur, key)
      /\ w.pay = Del(v.pay, id)
      /\ DOMAIN w.meta = DOMAIN v.meta \cup {"entityCount"}
      /\ w.meta["entityCount"] = GetNumberOfEntities(v) - 1
      /\ \A other, default : other # "entityCount" =>
            MetaOr(w, other, default) = MetaOr(v, other, default)
    BY DeleteFacts
<1>2. /\ DOMAIN w.cur = DOMAIN v.cur \ {key}
      /\ \A k \in DOMAIN v.cur : k # key => w.cur[k] = v.cur[k]
      /\ DOMAIN w.pay = DOMAIN v.pay \ {id}
      /\ \A i \in DOMAIN v.pay : i # id => w.pay[i] = v.pay[i]
    BY <1>1 DEF Del
<1>3. id \in DOMAIN v.pay /\ v.pay[id].key = key
    BY DEF PointersMatchPayloads
<1>4. PointersMatchPayloads(w)
    <2>1. \A k \in DOMAIN v.cur : k # key =>
              v.cur[k] \in DOMAIN v.pay /\ v.cur[k] # id /\ v.pay[v.cur[k]].key = k
        BY <1>3 DEF PointersMatchPayloads
    <2>2. \A i \in DOMAIN v.pay : i # id =>
              /\ v.pay[i].key \in DOMAIN v.cur /\ v.cur[v.pay[i].key] = i
              /\ v.pay[i].key # key
        BY <1>3 DEF PointersMatchPayloads
    <2> QED  BY <1>2, <2>1, <2>2 DEF PointersMatchPayloads
<1>5. IsFiniteSet(DOMAIN w.cur) /\ CountExact(w) /\ "entityCount" \in DOMAIN w.meta
    <2>1. /\ IsFiniteSet(DOMAIN w.cur)
          /\ Cardinality(DOMAIN w.cur) = Cardinality(DOMAIN v.cur) - 1
        BY <1>2, FS_RemoveElement
    <2>2. GetNumberOfEntities(v) = Cardinality(DOMAIN v.cur)
        BY DEF CountExact, GetNumberOfEntities, MetaOr
    <2> QED  BY <1>1, <2>1, <2>2 DEF CountExact
<1>6. IdsBelow(w, PersistedNextID(w)) /\ PersistedNextID(w) <= next
    BY <1>1, <1>2 DEF IdsBelow, PersistedNextID
<1> QED  BY <1>4, <1>5, <1>6

(* If its id is unfiled the bitmaps stay the postings.                     *)
LEMMA DeleteKeepsExact ==
    ASSUME NEW v, IsView(v), NEW c, IsCache(c), NEW next \in Nat,
           BatchExact(v, c, next),
           NEW key \in DOMAIN v.cur,
           NEW w, w = DeletePayloadForEntityKey(v, key),
           ~EntityCountUnderflow(v),
           NEW d, IsCache(d),
           Refiled(c, v, d, w, IndexKeys(v.pay[v.cur[key]]), {}, v.cur[key])
    PROVE  BatchExact(w, d, next)
<1> DEFINE id == v.cur[key]
<1>1. /\ RecordsExact(v, next) /\ CacheExact(c, v)
      /\ id \in DOMAIN v.pay
    BY DEF BatchExact, RecordsExact, PointersMatchPayloads
<1>2. /\ DOMAIN w.pay = DOMAIN v.pay \ {id}
      /\ \A i \in DOMAIN v.pay : i # id => w.pay[i] = v.pay[i]
    <2>1. w.pay = Del(v.pay, id)  BY DeleteFacts
    <2> QED  BY <2>1 DEF Del
<1>3. ASSUME NEW p  PROVE Cached(d, w, p) = Posting(w, p)
    <2>1. Cached(c, v, p) = Posting(v, p)  BY <1>1, FiledIsExact DEF Filed
    <2>2. Posting(w, p) = Posting(v, p) \ {id}
        BY <1>2 DEF Posting
    <2>3. id \in Posting(v, p) <=> p \in IndexKeys(v.pay[id])
        BY <1>1 DEF Posting
    <2> QED  BY <2>1, <2>2, <2>3 DEF Refiled
<1>4. CacheExact(d, w)
    BY <1>3, FiledIsExact DEF Filed
<1>5. RecordsExact(w, next)
    BY <1>1, DeleteKeepsRecords
<1> QED  BY <1>4, <1>5 DEF BatchExact

(* And every other entity stays filed under its index keys.                *)
LEMMA DeleteKeepsComplete ==
    ASSUME NEW v, IsView(v), NEW c, CacheComplete(c, v), NEW key \in DOMAIN v.cur,
           NEW w, w = DeletePayloadForEntityKey(v, key), ~EntityCountUnderflow(v),
           NEW Out, NEW d, Refiled(c, v, d, w, Out, {}, v.cur[key])
    PROVE  CacheComplete(d, w)
<1> DEFINE id == v.cur[key]
<1>1. /\ DOMAIN w.pay = DOMAIN v.pay \ {id}
      /\ \A i \in DOMAIN v.pay : i # id => w.pay[i] = v.pay[i]
    <2>1. w.pay = Del(v.pay, id)  BY DeleteFacts
    <2> QED  BY <2>1 DEF Del
<1>2. ASSUME NEW i \in DOMAIN w.pay, NEW p \in IndexKeys(w.pay[i])
      PROVE  i \in Cached(d, w, p)
    <2>1. i \in Cached(c, v, p) /\ i # id
        BY <1>1, <1>2 DEF CacheComplete
    <2> QED  BY <2>1 DEF Refiled
<1> QED  BY <1>2 DEF CacheComplete

(* The batch still only adds to the database after an upsert that keeps    *)
(* what an existing entity was created with.                               *)
LEMMA UpsertKeepsExtends ==
    ASSUME NEW base, IsView(base), IdsBelow(base, PersistedNextID(base)),
           NEW v, IsView(v), NEW c, NEW next \in Nat, BatchExact(v, c, next),
           Extends(base, v), NEW row \in Row,
           row.key \in DOMAIN v.cur => SameCreation(row, v.pay[v.cur[row.key]])
    PROVE  Extends(base, UpsertPayload(v, next, row))
<1> DEFINE w == UpsertPayload(v, next, row)
           id == UpsertID(v, row.key, next)
           m == PersistedNextID(base)
<1>1. Upserted(v, next, row, w)  BY UpsertFacts
<1> HIDE DEF w
<1>2. /\ m \in Nat /\ PersistedNextID(v) \in Nat
      /\ DOMAIN base.pay \subseteq Nat /\ DOMAIN v.pay \subseteq Nat
    BY MetaNat DEF PersistedNextID, IsView
<1>3. m <= PersistedNextID(v) /\ PersistedNextID(v) <= next
    BY DEF Extends, BatchExact, RecordsExact
<1>4. /\ w.bm = base.bm
      /\ DOMAIN w.pay = DOMAIN v.pay \cup {id}
      /\ w.pay[id] = row
      /\ \A i \in DOMAIN v.pay : i # id => w.pay[i] = v.pay[i]
    BY <1>1 DEF Upserted, Extends, Put
<1>5. m <= PersistedNextID(w)
    <2>1. CASE row.key \in DOMAIN v.cur
        BY <1>1, <1>3, <2>1 DEF Upserted, PersistedNextID, MetaOr
    <2>2. CASE row.key \notin DOMAIN v.cur
        <3>1. PersistedNextID(w) = next + 1
            BY <1>1, <2>2 DEF Upserted, PersistedNextID, MetaOr
        <3> QED  BY <1>2, <1>3, <3>1
    <2> QED  BY <2>1, <2>2
<1>6. IF id \in DOMAIN base.pay THEN SameCreation(row, base.pay[id]) ELSE id >= m
    <2>1. CASE row.key \in DOMAIN v.cur
        <3>1. id = v.cur[row.key] /\ id \in DOMAIN v.pay
            BY <2>1 DEF UpsertID, BatchExact, RecordsExact, PointersMatchPayloads
        <3>2. SameCreation(row, v.pay[id])  BY <2>1, <3>1
        <3>3. IF id \in DOMAIN base.pay THEN SameCreation(v.pay[id], base.pay[id])
              ELSE id >= m
            BY <3>1 DEF Extends
        <3> QED  BY <3>2, <3>3 DEF SameCreation
    <2>2. CASE row.key \notin DOMAIN v.cur
        <3>1. id = next  BY <2>2 DEF UpsertID
        <3>2. id >= m  BY <1>2, <1>3, <3>1
        <3>3. \A i \in DOMAIN base.pay : i < m  BY DEF IdsBelow
        <3>4. id \notin DOMAIN base.pay  BY <1>2, <3>2, <3>3
        <3> QED  BY <3>2, <3>4
    <2> QED  BY <2>1, <2>2
<1>7. \A i \in DOMAIN v.pay : IF i \in DOMAIN base.pay
                              THEN SameCreation(v.pay[i], base.pay[i]) ELSE i >= m
    BY DEF Extends
<1> HIDE DEF id, m
<1>8. \A i \in DOMAIN w.pay : IF i \in DOMAIN base.pay
                              THEN SameCreation(w.pay[i], base.pay[i]) ELSE i >= m
    BY <1>4, <1>6, <1>7
<1> QED  BY <1>4, <1>5, <1>8 DEF Extends, m, w

(* So it does after a deletion.                                            *)
LEMMA DeleteKeepsExtends ==
    ASSUME NEW base, NEW v, IsView(v), Extends(base, v), NEW key \in DOMAIN v.cur,
           ~EntityCountUnderflow(v)
    PROVE  Extends(base, DeletePayloadForEntityKey(v, key))
<1> DEFINE w == DeletePayloadForEntityKey(v, key)
<1>1. /\ w.pay = Del(v.pay, v.cur[key])
      /\ w.bm = v.bm
      /\ \A other, default : other # "entityCount" =>
            MetaOr(w, other, default) = MetaOr(v, other, default)
    BY DeleteFacts
<1> HIDE DEF w
<1>2. DOMAIN w.pay \subseteq DOMAIN v.pay /\ \A i \in DOMAIN w.pay : w.pay[i] = v.pay[i]
    BY <1>1 DEF Del
<1>3. PersistedNextID(w) = PersistedNextID(v)
    BY <1>1 DEF PersistedNextID
<1> QED  BY <1>1, <1>2, <1>3 DEF Extends, w

(* The entities of a view are typed and carry their own key.               *)
LEMMA EntitiesFacts ==
    ASSUME NEW v, IsView(v), PointersMatchPayloads(v)
    PROVE  /\ Entities(v) \in [DOMAIN v.cur -> Row]
           /\ DOMAIN Entities(v) = DOMAIN v.cur
           /\ DOMAIN Entities(v) \subseteq Key
           /\ \A k \in DOMAIN v.cur : Entities(v)[k] = v.pay[v.cur[k]]
           /\ \A k \in DOMAIN v.cur : Entities(v)[k].key = k
    BY DEF Entities, GetCurrentPayloadForEntityKey, IsView, PointersMatchPayloads

(* Upserting a record replaces or adds one entity.                         *)
LEMMA UpsertEntities ==
    ASSUME NEW v, IsView(v), NEW next \in Nat, RecordsExact(v, next), NEW row \in Row
    PROVE  Entities(UpsertPayload(v, next, row)) = Put(Entities(v), row.key, row)
<1> DEFINE w == UpsertPayload(v, next, row)
           id == UpsertID(v, row.key, next)
<1>1. Upserted(v, next, row, w)  BY UpsertFacts
<1> HIDE DEF w
<1>2. PointersMatchPayloads(v) /\ IdsBelow(v, PersistedNextID(v))
      /\ PersistedNextID(v) <= next
    BY DEF RecordsExact
<1>3. PersistedNextID(v) \in Nat /\ DOMAIN v.pay \subseteq Nat
    BY MetaNat DEF PersistedNextID, IsView
<1>4. /\ DOMAIN w.cur = DOMAIN v.cur \cup {row.key}
      /\ w.cur[row.key] = id
      /\ \A k \in DOMAIN v.cur : k # row.key => w.cur[k] = v.cur[k]
      /\ w.pay[id] = row
      /\ \A i \in DOMAIN v.pay : i # id => w.pay[i] = v.pay[i]
    BY <1>1 DEF Upserted, Put
<1>5. \A k \in DOMAIN v.cur : k # row.key => v.cur[k] \in DOMAIN v.pay /\ v.cur[k] # id
    <2>1. CASE row.key \in DOMAIN v.cur
        BY <1>2, <2>1 DEF UpsertID, PointersMatchPayloads
    <2>2. CASE row.key \notin DOMAIN v.cur
        <3>1. id = next  BY <2>2 DEF UpsertID
        <3>2. \A i \in DOMAIN v.pay : i < PersistedNextID(v)  BY <1>2 DEF IdsBelow
        <3>3. next \notin DOMAIN v.pay  BY <1>2, <1>3, <3>2
        <3> QED  BY <1>2, <3>1, <3>3 DEF PointersMatchPayloads
    <2> QED  BY <2>1, <2>2
<1> HIDE DEF id
<1>6. \A k \in DOMAIN w.cur : w.pay[w.cur[k]] =
          IF k = row.key THEN row ELSE v.pay[v.cur[k]]
    BY <1>4, <1>5
<1>7. Entities(w) = [k \in DOMAIN w.cur |-> w.pay[w.cur[k]]]
    BY DEF Entities, GetCurrentPayloadForEntityKey
<1>8. /\ DOMAIN Entities(v) = DOMAIN v.cur
      /\ \A k \in DOMAIN v.cur : Entities(v)[k] = v.pay[v.cur[k]]
    BY DEF Entities, GetCurrentPayloadForEntityKey
<1>9. Put(Entities(v), row.key, row) =
        [k \in DOMAIN w.cur |-> IF k = row.key THEN row ELSE v.pay[v.cur[k]]]
    BY <1>4, <1>8 DEF Put
<1> QED  BY <1>6, <1>7, <1>9 DEF w

(* Deleting an entity drops it.                                            *)
LEMMA DeleteEntities ==
    ASSUME NEW v, IsView(v), PointersMatchPayloads(v), NEW key \in DOMAIN v.cur,
           ~EntityCountUnderflow(v)
    PROVE  Entities(DeletePayloadForEntityKey(v, key)) = Del(Entities(v), key)
<1> DEFINE w == DeletePayloadForEntityKey(v, key)
<1>1. w.cur = Del(v.cur, key) /\ w.pay = Del(v.pay, v.cur[key])
    BY DeleteFacts
<1> HIDE DEF w
<1>2. /\ DOMAIN w.cur = DOMAIN v.cur \ {key}
      /\ \A k \in DOMAIN v.cur : k # key => w.cur[k] = v.cur[k]
      /\ \A i \in DOMAIN v.pay : i # v.cur[key] => w.pay[i] = v.pay[i]
    BY <1>1 DEF Del
<1>3. \A k \in DOMAIN v.cur : k # key =>
          v.cur[k] \in DOMAIN v.pay /\ v.cur[k] # v.cur[key]
    BY DEF PointersMatchPayloads
<1>4. \A k \in DOMAIN w.cur : w.pay[w.cur[k]] = v.pay[v.cur[k]]
    BY <1>2, <1>3
<1>5. Entities(w) = [k \in DOMAIN w.cur |-> w.pay[w.cur[k]]]
    BY DEF Entities, GetCurrentPayloadForEntityKey
<1>6. /\ DOMAIN Entities(v) = DOMAIN v.cur
      /\ \A k \in DOMAIN v.cur : Entities(v)[k] = v.pay[v.cur[k]]
    BY DEF Entities, GetCurrentPayloadForEntityKey
<1>7. Del(Entities(v), key) = [k \in DOMAIN w.cur |-> v.pay[v.cur[k]]]
    BY <1>2, <1>6 DEF Del
<1> QED  BY <1>4, <1>5, <1>7 DEF w
-----------------------------------------------------------------------------
(* Evaluation of queries on a view.                                        *)

(* Every index key of a record is an attribute with one value.             *)
LEMMA IndexKeyIsTriple ==
    ASSUME NEW row \in Row, NEW p \in IndexKeys(row)
    PROVE  p = <<p[1], p[2], p[3]>>
<1>1. CASE p \in Attributes[row.body]
    <2>1. row.body \in Body  BY DEF Row
    <2> QED  BY <2>1, <1>1, IndexKeyAssumption
<1>2. CASE p \notin Attributes[row.body]
    <2>1. p \in {OwnerKey(row), ExpirationKey(row),
                 <<"str", "$creator", row.creator>>,
                 <<"str", "$key", row.key>>,
                 <<"num", "$createdAtBlock", row.createdAt>>,
                 <<"num", "$lastModifiedAtBlock", row.modifiedAt>>,
                 <<"num", "$sequence", row.sequence>>}
        BY <1>2, Zenon DEF IndexKeys
    <2> QED  BY <2>1 DEF OwnerKey, ExpirationKey
<1> QED  BY <1>1, <1>2

(* In an exact index, looking up a key gives its posting; and only keys of *)
(* records are stored, so a scan sees triples.                             *)
LEMMA LookupIsPosting ==
    ASSUME NEW v, Readable(v)
    PROVE  /\ \A p : GetBitmap(v, p) = Posting(v, p)
           /\ \A p \in DOMAIN v.bm : p = <<p[1], p[2], p[3]>>
<1>1. \A p \in DOMAIN v.bm : GetBitmap(v, p) = Posting(v, p) /\ v.bm[p] # {}
    BY DEF Readable, IndexExact, CacheExact, CacheComplete, Cached, EmptyMap
<1>2. ASSUME NEW p, p \notin DOMAIN v.bm  PROVE GetBitmap(v, p) = Posting(v, p)
    <2>1. GetBitmap(v, p) = {}  BY <1>2 DEF GetBitmap
    <2>2. \A id \in DOMAIN v.pay : p \in IndexKeys(v.pay[id]) => id \in GetBitmap(v, p)
        BY DEF Readable, IndexExact, CacheExact, CacheComplete, Cached, EmptyMap
    <2> QED  BY <2>1, <2>2 DEF Posting
<1>3. ASSUME NEW p \in DOMAIN v.bm  PROVE p = <<p[1], p[2], p[3]>>
    <2>1. PICK id \in Posting(v, p) : TRUE
        BY <1>1, <1>3 DEF GetBitmap
    <2>2. id \in DOMAIN v.pay /\ p \in IndexKeys(v.pay[id])
        BY <2>1 DEF Posting
    <2>3. v.pay[id] \in Row  BY <2>2 DEF Readable, IsView
    <2> QED  BY <2>2, <2>3, IndexKeyIsTriple
<1> QED  BY <1>1, <1>2, <1>3

(* Comparisons are true or false.                                          *)
LEMMA CompareIsBoolean ==
    ASSUME NEW t, IsTerm(t), NEW w
    PROVE  Compare(t, w) \in BOOLEAN
    BY DEF Compare

(* A scan of the values of the term's attribute selects the entities with  *)
(* a value that passes.                                                    *)
LEMMA ScanIsTrueOf ==
    ASSUME NEW v, Readable(v), NEW t, IsTerm(t)
    PROVE  evaluateByScan(v, t) = {id \in DOMAIN v.pay : TrueOf(t, v.pay[id])}
<1>1. \A w : Passes(t, w) <=> (Compare(t, w) <=> ~t.not)
    BY CompareIsBoolean DEF Passes, IsTerm
<1>2. ASSUME NEW id \in evaluateByScan(v, t)
      PROVE  id \in DOMAIN v.pay /\ TrueOf(t, v.pay[id])
    <2>1. PICK w \in GetMatchingValues(v, t) : id \in GetBitmap(v, <<t.kind, t.var, w>>)
        BY <1>2 DEF evaluateByScan, reconstructBitmapsOR
    <2>2. id \in DOMAIN v.pay /\ <<t.kind, t.var, w>> \in IndexKeys(v.pay[id])
        BY <2>1, LookupIsPosting DEF Posting
    <2>3. Passes(t, w)  BY <2>1 DEF GetMatchingValues
    <2> QED  BY <1>1, <2>2, <2>3 DEF TrueOf
<1>3. ASSUME NEW id \in DOMAIN v.pay, TrueOf(t, v.pay[id])
      PROVE  id \in evaluateByScan(v, t)
    <2>1. PICK p \in IndexKeys(v.pay[id]) :
              p[1] = t.kind /\ p[2] = t.var /\ (Compare(t, p[3]) <=> ~t.not)
        BY <1>3 DEF TrueOf
    <2>2. v.pay[id] \in Row  BY DEF Readable, IsView
    <2>3. p = <<t.kind, t.var, p[3]>>  BY <2>1, <2>2, IndexKeyIsTriple
    <2>4. id \in GetBitmap(v, p)  BY LookupIsPosting DEF Posting
    <2>5. p \in DOMAIN v.bm  BY <2>4 DEF GetBitmap
    <2>6. p[3] \in GetMatchingValues(v, t)
        BY <1>1, <2>1, <2>5 DEF GetMatchingValues, scanDistinctValues
    <2> QED  BY <2>3, <2>4, <2>6 DEF evaluateByScan, reconstructBitmapsOR
<1> QED  BY <1>2, <1>3

(* So does the point lookup of an equality.                                *)
LEMMA TermIsTrueOf ==
    ASSUME NEW v, Readable(v), NEW t, IsTerm(t)
    PROVE  evaluateTerm(v, t) = {id \in DOMAIN v.pay : TrueOf(t, v.pay[id])}
<1>1. ASSUME t.op = "=", ~t.not
      PROVE  GetBitmap(v, <<t.kind, t.var, t.val>>) =
                 {id \in DOMAIN v.pay : TrueOf(t, v.pay[id])}
    <2> DEFINE key == <<t.kind, t.var, t.val>>
    <2>1. GetBitmap(v, key) = Posting(v, key)  BY LookupIsPosting
    <2>2. ASSUME NEW id \in DOMAIN v.pay
          PROVE  key \in IndexKeys(v.pay[id]) <=> TrueOf(t, v.pay[id])
        <3>1. v.pay[id] \in Row  BY DEF Readable, IsView
        <3>2. \A w : Compare(t, w) <=> w = t.val  BY <1>1 DEF Compare
        <3>3. \A p \in IndexKeys(v.pay[id]) : p = <<p[1], p[2], p[3]>>
            BY <3>1, IndexKeyIsTriple
        <3> QED  BY <1>1, <3>2, <3>3 DEF TrueOf
    <2> QED  BY <2>1, <2>2 DEF Posting
<1> QED  BY <1>1, ScanIsTrueOf
         DEF IsTerm, TermOps, evaluateTerm, evaluateEquality, evaluateInclusion,
             evaluateGlob, evaluateComparison

(* Evaluation of a whole query on an exact index is its answer over the    *)
(* records.                                                                *)
LEMMA EvaluationIsAnswer ==
    ASSUME NEW v, Readable(v), NEW ast, IsAST(ast)
    PROVE  evaluateAST(v, ast) = Answer(v, ast)
<1>1. CASE ast = AllEntities
    <2>1. evaluateAllCurrent(v) = DOMAIN v.pay
        BY DEF evaluateAllCurrent, Readable, PointersMatchPayloads
    <2> QED  BY <1>1, <2>1 DEF evaluateAST, Answer, Matches
<1>2. CASE ast # AllEntities
    <2>1. ASSUME NEW and \in ast
          PROVE  evaluateAnd(v, and) =
                     {id \in DOMAIN v.pay : \A t \in and : TrueOf(t, v.pay[id])}
        <3>1. and # {} /\ \A t \in and : IsTerm(t)  BY DEF IsAST
        <3>2. \A t \in and : evaluateTerm(v, t) =
                                 {id \in DOMAIN v.pay : TrueOf(t, v.pay[id])}
            BY <3>1, TermIsTrueOf
        <3> QED  BY <3>1, <3>2 DEF evaluateAnd
    <2> QED  BY <1>2, <2>1 DEF evaluateAST, evaluateExpr, Answer, Matches
<1> QED  BY <1>1, <1>2
=============================================================================
