--------------------------- MODULE EntityRendering ---------------------------
(***************************************************************************)
(* What a client is shown of an entity (pebblestore/query_rpc.go           *)
(* GetIncludeData, toPayload; cmd/query/main.go): the record's fields and  *)
(* attributes that the request includes, as JSON, in which an empty field  *)
(* is left out.                                                            *)
(*                                                                         *)
(* A record's attributes are two maps from names to values, strings and    *)
(* numbers, that hold the store's own attributes beside the entity's.  The *)
(* lists of the answer are sorted by name, and names are unique: a list is *)
(* a restriction of the map.  IncludeData is the set of its flags that are *)
(* set.                                                                    *)
(***************************************************************************)
EXTENDS Naturals, Functions

CONSTANTS
    Dollar,     \* the attribute names that begin with "$"
    Addresses   \* common.HexToAddress, on the strings in use

(* Stands for a request without IncludeData.                               *)
NoIncludeData == {"none"}

AttributeFlags == {"attributes", "syntheticAttributes"}
Flags == AttributeFlags \cup
    {"key", "payload", "contentType", "expiration", "creator", "owner",
     "createdAtBlock", "lastModifiedAtBlock",
     "transactionIndexInBlock", "operationIndexInTransaction"}

(* The defaults apply when the request has no IncludeData.                 *)
GetIncludeData(asked) ==
    IF asked = NoIncludeData
    THEN {"key", "contentType", "payload", "creator", "owner", "attributes", "expiration"}
    ELSE asked

(* The command line tool asks for everything.                              *)
ToolIncludeData == Flags

-----------------------------------------------------------------------------
(* Slip: the first of the two flags decides.                               *)
AttributesAskedFirst(flags, m) ==
    {name \in DOMAIN m :
        IF "attributes" \in flags THEN name \notin Dollar
        ELSE "syntheticAttributes" \in flags /\ name \in Dollar}

(* The predicate that the two flags choose together.                       *)
AttributesAsked(flags, m) ==
    {name \in DOMAIN m :
        (IF name \in Dollar THEN "syntheticAttributes" ELSE "attributes") \in flags}

filterAttributes(flags, m) == Restrict(m, AttributesAsked(flags, m))

(* A name that a Go map does not have gives the zero value.                *)
Numeric(r, name) == IF name \in DOMAIN r.num THEN r.num[name] ELSE 0
String(r, name) == IF name \in DOMAIN r.str THEN r.str[name] ELSE ""

FieldValue(r, flag) ==
    CASE flag = "key"                         -> r.key
      [] flag = "payload"                     -> r.payload
      [] flag = "contentType"                 -> r.contentType
      [] flag = "expiration"                  -> Numeric(r, "$expiration")
      [] flag = "creator"                     -> Addresses[String(r, "$creator")]
      [] flag = "owner"                       -> Addresses[String(r, "$owner")]
      [] flag = "createdAtBlock"              -> Numeric(r, "$createdAtBlock")
      [] flag = "lastModifiedAtBlock"         -> Numeric(r, "$lastModifiedAtBlock")
      [] flag = "transactionIndexInBlock"     -> Numeric(r, "$txIndex")
      [] flag = "operationIndexInTransaction" -> Numeric(r, "$opIndex")

(* Left out by omitempty: an empty payload, an empty list.                 *)
Omitted == {"payload", "stringAttributes", "numericAttributes"} \X {<<>>}

toPayload(r, flags) ==
    ({<<flag, FieldValue(r, flag)>> : flag \in flags \ AttributeFlags}
        \cup {<<"stringAttributes", filterAttributes(flags, r.str)>>,
              <<"numericAttributes", filterAttributes(flags, r.num)>>}) \ Omitted

-----------------------------------------------------------------------------
(* The attributes that a request asks about, by a list or by a field of    *)
(* their own.                                                              *)
FieldAttribute ==
    [expiration |-> "$expiration", creator |-> "$creator", owner |-> "$owner",
     createdAtBlock |-> "$createdAtBlock",
     lastModifiedAtBlock |-> "$lastModifiedAtBlock",
     transactionIndexInBlock |-> "$txIndex",
     operationIndexInTransaction |-> "$opIndex"]

NumericFlags ==
    {"expiration", "createdAtBlock", "lastModifiedAtBlock",
     "transactionIndexInBlock", "operationIndexInTransaction"}
StringFlags == {"creator", "owner"}

Concerns(flags, name) ==
    \/ \E flag \in flags \cap DOMAIN FieldAttribute : FieldAttribute[flag] = name
    \/ name \in Dollar /\ "syntheticAttributes" \in flags
    \/ name \notin Dollar /\ "attributes" \in flags

SameUnder(flags, m, n) ==
    \A name \in DOMAIN m \cup DOMAIN n :
        Concerns(flags, name) =>
            name \in DOMAIN m \cap DOMAIN n /\ m[name] = n[name]

(* Two records agree in everything that is asked for.                      *)
Indistinct(flags, r, s) ==
    /\ \A field \in flags \cap {"key", "payload", "contentType"} :
            FieldValue(r, field) = FieldValue(s, field)
    /\ SameUnder(flags, r.str, s.str)
    /\ SameUnder(flags, r.num, s.num)
=============================================================================
