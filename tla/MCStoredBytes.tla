--------------------------- MODULE MCStoredBytes ---------------------------
(* Constants for StoredBytes: lengths of one byte, numbers and entity keys *)
(* of two.                                                                 *)
EXTENDS StoredBytes, TLC, FiniteSetsExt

Long(b, n) == [i \in 1 .. n |-> b]

(* Names are all strings of up to two of three bytes, values some of them. *)
Letter == {0, 16, 63}
Short == {<<>>} \cup {<<a>> : a \in Letter} \cup {<<a, b>> : a, b \in Letter}
Value == {<<>>, <<0>>, <<16>>, <<63>>, <<16, 63>>}

(* With their header the long names and values fill the range of the       *)
(* lengths to the last byte, and one of each type exceeds it by one.       *)
MCAttribute ==
    ({"str"} \X Short \X Value) \cup ({"num"} \X Short \X {0, 4095})
    \cup {<<"str", Long(63, 50), Long(63, 10)>>, <<"str", Long(63, 60), <<>>>>,
          <<"str", <<>>, Long(63, 60)>>, <<"num", Long(63, 61), 7>>,
          <<"str", Long(63, 50), Long(63, 11)>>, <<"num", Long(63, 62), 7>>}

-----------------------------------------------------------------------------
StoreNumbers ==
    "$expiration" :> 5 @@ "$createdAtBlock" :> 1 @@ "$lastModifiedAtBlock" :> 2
        @@ "$sequence" :> 3 @@ "$txIndex" :> 0 @@ "$opIndex" :> 0
StoreStrings == "$owner" :> "0xa1" @@ "$creator" :> "0xa1" @@ "$key" :> "0xe1"

(* Attributes that differ from these in one thing or two.                  *)
Strings == {m @@ StoreStrings : m \in
    {"$owner" :> "0xb2", "$creator" :> "0xb2", "$key" :> "0xe2", "type" :> "",
     "type" :> "nft", "type" :> "nft" @@ "$owner" :> "0xb2", "$note" :> ""}}
Numbers == {(name :> 9) @@ StoreNumbers : name \in DOMAIN StoreNumbers \cup {"version"}}
    \cup {("version" :> 0) @@ StoreNumbers}

Invalid == "type" :> "invalid" @@ StoreStrings
Replaced == "type" :> "replacement" @@ StoreStrings

(* The texts are of two lengths; that of a string that is not UTF-8 is the *)
(* text of its replacement.                                                *)
MCUTF8 == Strings \cup Numbers \cup {StoreStrings, StoreNumbers, Replaced}
Listed == FoldSet(LAMBDA m, list : Append(list, m), <<>>, MCUTF8)
Text(m) == LET i == CHOOSE n \in DOMAIN Listed : Listed[n] = m
           IN  <<60>> \o Long(i, 1 + (i % 2)) \o <<62>>
MCJSON == [m \in MCUTF8 \cup {Invalid} |-> Text(IF m = Invalid THEN Replaced ELSE m)]

(* Content types and payloads that look like lengths or like JSON, and     *)
(* content types at the limit of their length and beyond.                  *)
Texts == {<<>>, <<63>>, <<0, 3, 60, 62>>, <<60, 1, 62, 0, 3, 60, 1, 62>>}
LongTypes == {Long(9, 63), Long(0, 64), Long(9, 65)}

Base1 == [key |-> <<0, 0>>, contentType |-> <<9>>, payload |-> <<1>>,
          str |-> StoreStrings, num |-> StoreNumbers]

Variants ==
    {Base1, [Base1 EXCEPT !.str = Invalid], [Base1 EXCEPT !.str = Replaced]}
    \cup {[Base1 EXCEPT !.str = m] : m \in Strings}
    \cup {[Base1 EXCEPT !.num = m] : m \in Numbers}
    \cup {[Base1 EXCEPT !.contentType = c, !.payload = p] : c, p \in Texts}
    \cup {[Base1 EXCEPT !.contentType = c] : c \in LongTypes}

MCRecords == Variants \cup {[r EXCEPT !.key = <<63, 63>>] : r \in Variants}
MCId == {1, 64}

MCDollar == DOMAIN StoreNumbers \cup DOMAIN StoreStrings \cup {"$note"}
MCAddresses == "0xa1" :> "a1" @@ "0xb2" :> "b2"

(* Flags by two, without those that work like others of these.            *)
MCFlags == {"attributes", "syntheticAttributes", "payload", "contentType",
            "expiration", "owner", "transactionIndexInBlock"}
MCIncludes == {{f, g} : f, g \in MCFlags} \cup {{}, MCFlags}

-----------------------------------------------------------------------------
(* What the theorems about StoredBytes assume of its constants.            *)
ASSUME FitAssumption ==
    NamesFit /\ ValuesFit /\ TextsFit /\ RecordsWhole /\ IncludesKnown
=============================================================================
