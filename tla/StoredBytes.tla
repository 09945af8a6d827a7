---------------------------- MODULE StoredBytes ----------------------------
(***************************************************************************)
(* The database as bytes: one ordered map from keys to values.  The rest   *)
(* of the project keeps each key space as a map of its own, of records and *)
(* of bitmaps by attribute, type and value; here these maps are what       *)
(* lookups and scans make of the bytes, from the write of an entity to     *)
(* what a client is shown of it.                                           *)
(***************************************************************************)
EXTENDS RecordCodec, EntityRendering, FiniteSets

CONSTANTS
    Records,    \* records of entities
    Id,         \* payload ids
    Attribute,  \* index keys <<kind, name, value>>, see EntityEvents
    Includes,   \* the include data of requests
    MaxStored   \* bound: bitmaps and entities stored at a time

(* Names, texts and keys are strings of bytes, numbers and ids have 64     *)
(* bits, and an entity key has as many bytes as there is room for.         *)
ASSUME StoredBytesAssumption ==
    /\ Attribute \subseteq IndexKeys
    /\ \A p \in Attribute : NumberFits(p)
    /\ Id \subseteq 0 .. Capacity(NumWidth) - 1
    /\ Records \subseteq [key : Bytes, contentType : Bytes, payload : Bytes,
                         str : DOMAIN JSON, num : DOMAIN JSON]
    /\ \A r \in Records : Len(r.key) = KeyWidth

VARIABLES
    disk,       \* from the keys of the database to its values
    stored,     \* the index keys with a bitmap
    entities    \* from ids to the records of the entities

vars == <<disk, stored, entities>>

(* Values that are not looked at here: counters and bitmaps.               *)
Opaque == <<>>

Room == Cardinality(stored) + Cardinality(DOMAIN entities) < MaxStored

Keep(f, domain) == [x \in domain |-> f[x]]
Put(f, x, v) == [y \in DOMAIN f \cup {x} |-> IF y = x THEN v ELSE f[y]]

-----------------------------------------------------------------------------
Init ==
    /\ disk = [k \in {lastBlockKey, idCounterKey, entityCountKey} |-> Opaque]
    /\ stored = {}
    /\ entities = [id \in {} |-> Opaque]

SetBitmap(p) ==
    /\ p \in stored \/ Room
    /\ disk' = Put(disk, BitmapKey(p), Opaque)
    /\ stored' = stored \cup {p}
    /\ UNCHANGED entities

DeleteBitmap(p) ==
    /\ p \in stored
    /\ disk' = Keep(disk, DOMAIN disk \ {BitmapKey(p)})
    /\ stored' = stored \ {p}
    /\ UNCHANGED entities

(* The pointer and the record, of a new entity or in place of the ones it  *)
(* has.                                                                    *)
UpsertPayload(id, r) ==
    /\ id \in DOMAIN entities \/ Room
    /\ \A i \in DOMAIN entities : i = id <=> entities[i].key = r.key
    /\ disk' = Put(Put(disk, entityCurrentKey(r.key), BigEndian(id, NumWidth)),
                   payloadKey(id), encodePayloadValue(r))
    /\ entities' = Put(entities, id, r)
    /\ UNCHANGED stored

DeletePayloadForEntityKey(id) ==
    /\ id \in DOMAIN entities
    /\ disk' = Keep(disk, DOMAIN disk \ {entityCurrentKey(entities[id].key), payloadKey(id)})
    /\ entities' = Keep(entities, DOMAIN entities \ {id})
    /\ UNCHANGED stored

Next ==
    \/ \E p \in Attribute : SetBitmap(p) \/ DeleteBitmap(p)
    \/ \E id \in Id : DeletePayloadForEntityKey(id) \/ \E r \in Records : UpsertPayload(id, r)

Spec == Init /\ [][Next]_vars

-----------------------------------------------------------------------------
(* What the code relies on and does not check.  Lengths lose their high    *)
(* bytes when they do not fit, and a record has the attributes that the    *)
(* event follower gives it, which no operation has under another type.     *)
NamesFit == \A p \in Attribute : NameFits(p)
ValuesFit == \A p \in Attribute : ValueFits(p)
TextsFit == \A a \in DOMAIN JSON : Len(JSON[a]) < Capacity(JSONWidth)
IncludesKnown == \A asked \in Includes : asked \subseteq Flags

RecordsWhole ==
    /\ \A r \in Records :
          /\ \A flag \in NumericFlags :
                FieldAttribute[flag] \in DOMAIN r.num \ DOMAIN r.str
          /\ \A flag \in StringFlags :
                FieldAttribute[flag] \in DOMAIN r.str \ DOMAIN r.num
    /\ \A r, s \in Records : \A flag \in StringFlags :
          LET name == FieldAttribute[flag]
          IN  Addresses[r.str[name]] = Addresses[s.str[name]] => r.str[name] = s.str[name]

-----------------------------------------------------------------------------
(* Reading.                                                                *)
Scan(prefix) ==
    LET upper == prefixUpperBound(prefix)
    IN  {k \in DOMAIN disk : /\ ~Precedes(k, prefix)
                             /\ upper = Unbounded \/ Precedes(k, upper)}

scanDistinctValues(kind, name) ==
    IF kind = "str"
    THEN {decodeStringBitmapKey(k) : k \in Scan(stringBitmapNamePrefix(name))}
    ELSE {decodeNumericBitmapKey(k) : k \in Scan(numericBitmapNamePrefix(name))}

CountEntitiesByScan == Cardinality(Scan(<<prefixEntityCurrent>>))

GetCurrentPayloadForEntityKey(key) ==
    decodePayloadValue(disk[payloadKey(Number(disk[entityCurrentKey(key)]))])

-----------------------------------------------------------------------------
Survives(r) == Len(r.contentType) < Capacity(LenWidth) /\ {r.str, r.num} \subseteq UTF8

(* Looking a key up finds the bitmap of that attribute and value and no    *)
(* other: keys of two attributes, of two values, of the two types and of   *)
(* other key spaces never coincide, whatever bytes they are made of.       *)
LookupExact == \A p \in Attribute : BitmapKey(p) \in DOMAIN disk <=> p \in stored

(* Scanning the values of an attribute yields each value it has, and       *)
(* nothing of an attribute whose name continues or precedes it, of the     *)
(* other type or of another key space; names of 0xFF bytes included, for   *)
(* which the upper bound of the scan needs its carry.  It fails when it    *)
(* meets a key too long for its offsets, and only then.                    *)
ScanExact ==
    \A a \in {<<p[1], p[2]>> : p \in Attribute} :
        LET held == {p \in stored : p[1] = a[1] /\ p[2] = a[2]}
            scan == scanDistinctValues(a[1], a[2])
        IN  IF \A p \in held : Fits(p) THEN scan = {p[3] : p \in held}
                                       ELSE Panic \in scan

(* The scan that counts entities for the migration finds the entities and  *)
(* nothing else.                                                           *)
CountExact == CountEntitiesByScan = Cardinality(DOMAIN entities)

(* A record that is written is read back as it was, whatever bytes its     *)
(* content type and payload consist of, if its content type fits its       *)
(* length field and its attributes are UTF-8; and otherwise it is not.     *)
DecodeReverses ==
    \A id \in DOMAIN entities :
        GetCurrentPayloadForEntityKey(entities[id].key) = entities[id]
            <=> Survives(entities[id])

(* A client is shown all of what it asks for and nothing else: two         *)
(* entities look the same exactly when they agree in what is asked for,    *)
(* however the flags are combined and however much the fields repeat one   *)
(* another; so nothing is lost by leaving empty fields out of the JSON,    *)
(* and the answer of the command line tool determines the record.          *)
ShowsWhatIsAsked ==
    \A i, j \in {id \in DOMAIN entities : Survives(entities[id])} : i # j =>
        \A asked \in Includes \cup {ToolIncludeData, NoIncludeData} :
            LET flags    == GetIncludeData(asked)
                shown(e) == toPayload(GetCurrentPayloadForEntityKey(e.key), flags)
            IN  shown(entities[i]) = shown(entities[j])
                    <=> Indistinct(flags, entities[i], entities[j])
=============================================================================
