------------------------ MODULE QueryEntitiesProofs ------------------------
(***************************************************************************)
(* The safety properties of QueryEntities, for all page sizes, limits, ids *)
(* and block numbers.                                                      *)
(*                                                                         *)
(* The inductive invariant: whatever the request still has to show lies    *)
(* below everything the client has been shown, and above everything that   *)
(* is left for later; the cursor is the last id shown; and ids that were   *)
(* shown or are about to be lie below the id counter, whose growth keeps   *)
(* newcomers above them.                                                   *)
(***************************************************************************)
EXTENDS QueryEntities, FiniteSetTheorems, TLAPS

Decreasing(s) == \A i, j \in DOMAIN s : i < j => s[i] > s[j]

Shown == Elements(pages) \cup Elements(data)
Ahead == chunk \cup rest

(* A request that waits has nothing in its page.                           *)
Blank == pc \in {"poll", "sleep", "ready"} => data = <<>> /\ chunk = {}

Order ==
    /\ Decreasing(pages)
    /\ pc = "fill" =>
        /\ Decreasing(pages \o data)
        /\ \A x \in Ahead : \A y \in Shown : x < y
        /\ \A x \in chunk, y \in rest : y < x

CursorLast ==
    pc # "end" =>
        \/ cursor = None /\ pages = <<>>
        \/ /\ cursor # None
           /\ cursor \in Elements(pages)
           /\ \A y \in Elements(pages) : cursor <= y

Known ==
    /\ \A y \in Shown \cup Ahead : y < nextID
    /\ stable \subseteq matching

Fresh ==
    \A x \in newcomers :
        /\ \A y \in Elements(pages) : y < x
        /\ pc = "fill" => \A y \in Shown \cup Ahead : y < x

Complete ==
    /\ pc # "end" /\ cursor # None =>
        \A x \in stable : x \in Elements(pages) \/ x < cursor
    /\ pc = "fill" => stable \subseteq Shown \cup Ahead
    /\ pc = "end" => stable \subseteq Elements(pages)

Covered ==
    /\ pc = "ready" => height >= atBlock
    /\ SnapshotCoversAtBlock

Inv ==
    /\ TypeOK
    /\ Blank /\ Order /\ CursorLast /\ Known /\ Fresh /\ Complete /\ Covered

-----------------------------------------------------------------------------
(* Sequences of ids.                                                       *)

(* The elements of a concatenation are those of its parts.                 *)
LEMMA ElementsConcat ==
    ASSUME NEW S, NEW s \in Seq(S), NEW t \in Seq(S)
    PROVE  /\ Elements(s \o t) = Elements(s) \cup Elements(t)
           /\ s \o t \in Seq(S)
<1>1. s \o t \in Seq(S) /\ Len(s \o t) = Len(s) + Len(t)
    OBVIOUS
<1>2. Elements(s \o t) \subseteq Elements(s) \cup Elements(t)
    <2> SUFFICES ASSUME NEW i \in DOMAIN (s \o t)
                 PROVE  (s \o t)[i] \in Elements(s) \cup Elements(t)
        BY DEF Elements
    <2>1. CASE i <= Len(s)
        BY <2>1 DEF Elements
    <2>2. CASE i > Len(s)
        <3>1. i - Len(s) \in DOMAIN t /\ (s \o t)[i] = t[i - Len(s)]
            BY <2>2, <1>1
        <3> QED BY <3>1 DEF Elements
    <2> QED BY <2>1, <2>2, <1>1
<1>3. Elements(s) \subseteq Elements(s \o t)
    <2> SUFFICES ASSUME NEW i \in DOMAIN s PROVE s[i] \in Elements(s \o t)
        BY DEF Elements
    <2>1. i \in DOMAIN (s \o t) /\ (s \o t)[i] = s[i]
        BY <1>1
    <2> QED BY <2>1 DEF Elements
<1>4. Elements(t) \subseteq Elements(s \o t)
    <2> SUFFICES ASSUME NEW i \in DOMAIN t PROVE t[i] \in Elements(s \o t)
        BY DEF Elements
    <2>1. i + Len(s) \in DOMAIN (s \o t) /\ (s \o t)[i + Len(s)] = t[i]
        BY <1>1
    <2> QED BY <2>1 DEF Elements
<1> QED BY <1>1, <1>2, <1>3, <1>4

(* Appending an id adds it.                                                *)
LEMMA ElementsAppend ==
    ASSUME NEW S, NEW s \in Seq(S), NEW x \in S
    PROVE  /\ Elements(Append(s, x)) = Elements(s) \cup {x}
           /\ Append(s, x) \in Seq(S)
<1>1. Append(s, x) \in Seq(S) /\ Len(Append(s, x)) = Len(s) + 1
    OBVIOUS
<1>2. Elements(Append(s, x)) \subseteq Elements(s) \cup {x}
    BY <1>1 DEF Elements
<1>3. Elements(s) \subseteq Elements(Append(s, x))
    <2> SUFFICES ASSUME NEW i \in DOMAIN s PROVE s[i] \in Elements(Append(s, x))
        BY DEF Elements
    <2>1. i \in DOMAIN Append(s, x) /\ Append(s, x)[i] = s[i]
        BY <1>1
    <2> QED BY <2>1 DEF Elements
<1>4. x \in Elements(Append(s, x))
    <2>1. Len(s) + 1 \in DOMAIN Append(s, x) /\ Append(s, x)[Len(s) + 1] = x
        BY <1>1
    <2> QED BY <2>1 DEF Elements
<1> QED BY <1>1, <1>2, <1>3, <1>4

(* An id below all others keeps the order when it comes last.              *)
LEMMA DecreasingAppend ==
    ASSUME NEW S \in SUBSET Nat, NEW s \in Seq(S), NEW t \in Seq(S), NEW x \in S,
           Decreasing(s \o t), \A y \in Elements(s \o t) : x < y
    PROVE  Decreasing(s \o Append(t, x))
<1> DEFINE st == s \o t
<1>1. st \in Seq(S) /\ s \o Append(t, x) = Append(st, x)
    OBVIOUS
<1>2. \A i \in DOMAIN st : st[i] \in Elements(st)
    BY DEF Elements
<1>3. \A y \in Elements(st) : x < y
    OBVIOUS
<1>4. Decreasing(st)
    OBVIOUS
<1> HIDE DEF st
<1>5. Decreasing(Append(st, x))
    <2> SUFFICES ASSUME NEW i \in DOMAIN Append(st, x), NEW j \in DOMAIN Append(st, x), i < j
                 PROVE  Append(st, x)[i] > Append(st, x)[j]
        BY DEF Decreasing
    <2>1. i \in DOMAIN st /\ Append(st, x)[i] = st[i]
        BY <1>1
    <2>2. CASE j \in DOMAIN st
        BY <2>1, <2>2, <1>1, <1>4 DEF Decreasing
    <2>3. CASE j \notin DOMAIN st
        <3>1. Append(st, x)[j] = x
            BY <2>3, <1>1
        <3>2. x < st[i]
            BY <2>1, <1>2, <1>3
        <3>3. st[i] \in S
            BY <2>1, <1>1
        <3> QED BY <2>1, <3>1, <3>2, <3>3
    <2> QED BY <2>2, <2>3
<1> QED BY <1>1, <1>5

(* The ids a chunk takes are above those it leaves.                        *)
LEMMA NewestAbove ==
    ASSUME NEW n \in Int, NEW top \in Nat, NEW ids \in SUBSET Nat,
           \A y \in ids : y < top,
           NEW x \in Newest(ids, n), NEW y \in ids \ Newest(ids, n)
    PROVE  y < x
<1> DEFINE Above(z) == {w \in ids : w > z}
<1>1. IsFiniteSet(ids)
    <2>1. IsFiniteSet(0 .. top)
        BY FS_Interval
    <2>2. ids \subseteq 0 .. top
        OBVIOUS
    <2> QED BY <2>1, <2>2, FS_Subset
<1>2. SUFFICES ASSUME ~(y < x) PROVE FALSE
    OBVIOUS
<1>3. x \in ids /\ Cardinality(Above(x)) < n /\ ~(Cardinality(Above(y)) < n)
    <2> HIDE DEF Above
    <2>1. Newest(ids, n) = {z \in ids : Cardinality(Above(z)) < n}
        BY DEF Newest, Above
    <2> QED BY <2>1
<1>4. Above(y) \subseteq Above(x)
    <2>1. x \in Nat /\ y \in Nat /\ x <= y
        BY <1>2, <1>3
    <2>2. SUFFICES ASSUME NEW w \in ids, w > y PROVE w > x
        OBVIOUS
    <2>3. w \in Nat
        OBVIOUS
    <2> QED BY <2>1, <2>2, <2>3
<1>5. IsFiniteSet(Above(x))
    BY <1>1, FS_Subset
<1>6. /\ Cardinality(Above(y)) <= Cardinality(Above(x))
      /\ Cardinality(Above(x)) \in Nat /\ Cardinality(Above(y)) \in Nat
    <2>1. IsFiniteSet(Above(y)) /\ Cardinality(Above(y)) <= Cardinality(Above(x))
        BY <1>4, <1>5, FS_Subset
    <2> QED BY <2>1, <1>5, FS_CardinalityType
<1> HIDE DEF Above
<1> QED BY <1>3, <1>6

(* What is shown and what is ahead are ids.                                *)
LEMMA ShownNat ==
    ASSUME TypeOK
    PROVE  Shown \subseteq Nat /\ Ahead \subseteq Nat
<1> USE CommittedStoreAssumption
<1>1. Elements(data) \subseteq Counter
    <2>1. data \in Seq(Counter)
        BY DEF TypeOK
    <2> QED BY <2>1 DEF Elements
<1>2. Elements(pages) \subseteq Counter
    <2>1. pages \in Seq(Counter)
        BY DEF TypeOK
    <2> QED BY <2>1 DEF Elements
<1>3. chunk \subseteq Counter /\ rest \subseteq Counter
    BY DEF TypeOK
<1> QED BY <1>1, <1>2, <1>3 DEF Shown, Ahead

-----------------------------------------------------------------------------
(* The invariant holds at first.                                           *)
LEMMA InvInit == Init => Inv
<1> SUFFICES ASSUME Init PROVE Inv
    OBVIOUS
<1> USE CommittedStoreAssumption, QueryAssumption
<1>1. TypeOK
    <2>1. data \in Seq(Counter) /\ pages \in Seq(Counter)
        BY DEF Init
    <2>2. /\ height \in Height /\ nextID \in Counter
          /\ live \subseteq {id \in Counter : id < nextID}
          /\ matching \subseteq live
        BY DEF Init, Open
    <2>3. /\ pc \in Control /\ expired \in BOOLEAN
          /\ atBlock \in Nat /\ maxResults \in Nat /\ cursor \in Nat
          /\ totalBytes \in Nat /\ snapHeight \in Nat
        BY DEF Init, Control, None
    <2>4. rest = {} /\ chunk = {} /\ stable = {} /\ newcomers = {}
        BY DEF Init
    <2> QED BY <2>1, <2>2, <2>3, <2>4 DEF TypeOK
<1>2. Elements(pages) = {} /\ Elements(data) = {}
    BY DEF Init, Elements
<1>3. Blank /\ Order /\ CursorLast /\ Known /\ Fresh /\ Complete /\ Covered
    BY <1>2 DEF Init, Blank, Order, CursorLast, Known, Fresh, Complete, Covered,
                SnapshotCoversAtBlock, Decreasing, Shown, Ahead, None
<1> QED BY <1>1, <1>3 DEF Inv

-----------------------------------------------------------------------------
(* Commits.  New entities are above every id in sight.                     *)
LEMMA CommitStep ==
    ASSUME Inv, Commit
    PROVE  Inv'
<1> USE CommittedStoreAssumption, QueryAssumption
<1>1. /\ UNCHANGED <<pc, expired, atBlock, maxResults, cursor, rest, chunk, data,
                     totalBytes, pages, snapHeight>>
      /\ newcomers' = newcomers \cup (live' \ live)
      /\ stable' = stable \cap matching'
    BY DEF Commit, options, page
<1>2. /\ height' \in Height /\ height' > height
      /\ nextID' \in Counter /\ nextID' >= nextID
      /\ live' \subseteq live \cup Allocated(nextID') /\ matching' \subseteq live'
    BY DEF Commit, StoreCommit
<1>3. /\ height \in Nat /\ nextID \in Nat /\ nextID' \in Nat /\ height' \in Nat
      /\ atBlock \in Nat
    BY <1>2 DEF Inv, TypeOK
<1>4. live' \subseteq {id \in Counter : id < nextID'}
    BY <1>2, <1>3 DEF Inv, TypeOK, Allocated
<1>5. TypeOK'
    BY <1>1, <1>2, <1>4 DEF Inv, TypeOK
<1>6. Shown' = Shown /\ Ahead' = Ahead /\ Elements(pages)' = Elements(pages)
    BY <1>1 DEF Shown, Ahead
<1>7. Shown \subseteq Nat /\ Ahead \subseteq Nat
    BY ShownNat DEF Inv
<1>8. Blank' /\ Order' /\ CursorLast'
    BY <1>1, <1>6 DEF Inv, Blank, Order, CursorLast, Decreasing
<1>9. Known'
    BY <1>1, <1>2, <1>3, <1>6, <1>7 DEF Inv, Known
<1>10. Fresh'
    <2> SUFFICES ASSUME NEW x \in newcomers'
                 PROVE  /\ \A y \in Elements(pages) : y < x
                        /\ pc = "fill" => \A y \in Shown \cup Ahead : y < x
        BY <1>1, <1>6 DEF Fresh
    <2>1. CASE x \in newcomers
        BY <2>1 DEF Inv, Fresh
    <2>2. CASE x \in live' \ live
        <3>1. x \in Nat /\ nextID <= x
            BY <2>2, <1>2 DEF Allocated
        <3>2. \A y \in Shown \cup Ahead : y < nextID
            BY DEF Inv, Known
        <3>3. \A y \in Shown \cup Ahead : y < x
            BY <3>1, <3>2, <1>3, <1>7
        <3> QED BY <3>3 DEF Shown
    <2> QED BY <2>1, <2>2, <1>1
<1>11. Complete'
    BY <1>1, <1>6 DEF Inv, Complete
<1>12. Covered'
    BY <1>1, <1>2, <1>3 DEF Inv, Covered, SnapshotCoversAtBlock
<1> QED BY <1>5, <1>8, <1>9, <1>10, <1>11, <1>12 DEF Inv

(* A page that is asked for starts blank.                                  *)
LEMMA FirstPageStep ==
    ASSUME Inv, FirstPage
    PROVE  Inv'
<1> USE CommittedStoreAssumption, QueryAssumption
<1>1. TypeOK'
    <2>1. maxResults' \in Nat
        BY DEF FirstPage, GetResultsPerPage
    <2>2. data' \in Seq(Counter) /\ pages' \in Seq(Counter)
        BY DEF FirstPage, Call
    <2>3. (/\ height \in Height /\ nextID \in Counter
           /\ live \subseteq {id \in Counter : id < nextID}
           /\ matching \subseteq live)'
        BY DEF FirstPage, Call, database, Inv, TypeOK
    <2>4. (/\ pc \in Control /\ expired \in BOOLEAN /\ atBlock \in Nat
           /\ cursor \in Nat /\ totalBytes \in Nat /\ snapHeight \in Nat)'
        BY DEF FirstPage, Call, Control, None
    <2>5. (rest = {} /\ chunk = {} /\ stable = {} /\ newcomers = {})'
        BY DEF FirstPage, Call
    <2> QED BY <2>1, <2>2, <2>3, <2>4, <2>5 DEF TypeOK
<1>2. Elements(pages') = {} /\ Elements(data') = {}
    BY DEF FirstPage, Call, Elements
<1>3. (Blank /\ Order /\ CursorLast /\ Known /\ Fresh /\ Complete /\ Covered)'
    BY <1>2 DEF FirstPage, Call, Blank, Order, CursorLast, Known, Fresh, Complete,
                Covered, SnapshotCoversAtBlock, Decreasing, Shown, Ahead
<1> QED BY <1>1, <1>3 DEF Inv

(* So does the next page; what the client has stays.                       *)
LEMMA NextPageStep ==
    ASSUME Inv, NextPage
    PROVE  Inv'
<1>1. /\ UNCHANGED <<height, nextID, live, matching, atBlock, maxResults, cursor,
                     pages, snapHeight, stable, newcomers>>
      /\ pc \in {"more", "failed"} /\ pc' = "poll" /\ expired' = FALSE
      /\ rest' = {} /\ chunk' = {} /\ data' = <<>> /\ totalBytes' = 0
    BY DEF NextPage, Call, database, options, session
<1>2. Elements(data') = {} /\ Elements(pages)' = Elements(pages)
    BY <1>1 DEF Elements
<1>3. TypeOK'
    <2>1. data' \in Seq(Counter) /\ pages' \in Seq(Counter)
        BY <1>1 DEF Inv, TypeOK
    <2>2. (/\ height \in Height /\ nextID \in Counter
           /\ live \subseteq {id \in Counter : id < nextID}
           /\ matching \subseteq live
           /\ atBlock \in Nat /\ maxResults \in Nat /\ cursor \in Nat
           /\ snapHeight \in Nat
           /\ stable \subseteq Counter /\ newcomers \subseteq Counter)'
        BY <1>1 DEF Inv, TypeOK
    <2>3. (pc \in Control /\ expired \in BOOLEAN /\ totalBytes \in Nat)'
        BY <1>1 DEF Control
    <2>4. rest' = {} /\ chunk' = {}
        BY <1>1
    <2> QED BY <2>1, <2>2, <2>3, <2>4 DEF TypeOK
<1>4. (Blank /\ Order /\ CursorLast)'
    BY <1>1 DEF Inv, Blank, Order, CursorLast, Decreasing
<1>5. (Known /\ Fresh /\ Complete /\ Covered)'
    BY <1>1, <1>2 DEF Inv, Known, Fresh, Complete, Covered, SnapshotCoversAtBlock,
                      Shown, Ahead
<1> QED BY <1>3, <1>4, <1>5 DEF Inv

(* Waiting, and giving up: only the control changes.                       *)
LEMMA WaitStep ==
    ASSUME Inv, Poll \/ Wake \/ TimerFires \/ Timeout \/ QueryFails
    PROVE  Inv'
<1>1. UNCHANGED <<height, nextID, live, matching, atBlock, maxResults, cursor, rest,
                  chunk, data, totalBytes, pages, snapHeight, stable, newcomers>>
    BY DEF Poll, Wake, TimerFires, Timeout, QueryFails, database, options, page, session
<1>2. /\ expired' \in BOOLEAN
      /\ pc' \in {"poll", "sleep", "ready", "failed"}
      /\ pc' # "failed" => pc \in {"poll", "sleep"}
      /\ pc' = "ready" => height >= atBlock
      /\ pc \in {"poll", "sleep", "ready", "fill"}
    BY DEF Poll, Wake, TimerFires, Timeout, QueryFails, Reached, Inv, TypeOK, Serving
<1>3. TypeOK'
    BY <1>1, <1>2 DEF Inv, TypeOK, Control
<1>4. Shown' = Shown /\ Ahead' = Ahead /\ Elements(pages)' = Elements(pages)
    BY <1>1 DEF Shown, Ahead
<1>5. (Blank /\ Order /\ CursorLast)'
    BY <1>1, <1>2, <1>4 DEF Inv, Blank, Order, CursorLast, Decreasing
<1>6. (Known /\ Fresh /\ Complete /\ Covered)'
    BY <1>1, <1>2, <1>4 DEF Inv, Known, Fresh, Complete, Covered, SnapshotCoversAtBlock
<1> QED BY <1>3, <1>5, <1>6 DEF Inv

-----------------------------------------------------------------------------
(* Serving a page.                                                         *)

(* Below the cursor is below everything the client has been shown.         *)
LEMMA EvaluateStep ==
    ASSUME Inv, Evaluate
    PROVE  Inv'
<1> USE CommittedStoreAssumption, QueryAssumption
<1>1. /\ UNCHANGED <<height, nextID, live, matching, expired, atBlock, maxResults,
                     cursor, chunk, data, totalBytes, pages>>
      /\ pc = "ready" /\ pc' = "fill"
      /\ rest' = BelowCursor(matching) /\ snapHeight' = height
      /\ \/ cursor = None /\ stable' = matching /\ newcomers' = {}
         \/ cursor # None /\ stable' = stable /\ newcomers' = newcomers
    BY DEF Evaluate, database, options
<1>2. /\ data = <<>> /\ chunk = {} /\ height >= atBlock
      /\ matching \subseteq {id \in Counter : id < nextID}
    BY <1>1 DEF Inv, Blank, Covered, TypeOK
<1>3. /\ rest' \subseteq matching
      /\ cursor = None => rest' = matching
      /\ cursor # None => \A x \in matching : x \in rest' <=> x < cursor
    BY <1>1 DEF BelowCursor
<1>4. TypeOK'
    <2>1. rest' \subseteq Counter /\ stable' \subseteq Counter /\ newcomers' \subseteq Counter
        BY <1>1, <1>2, <1>3 DEF Inv, TypeOK
    <2>2. snapHeight' \in Nat
        BY <1>1 DEF Inv, TypeOK
    <2> QED BY <1>1, <2>1, <2>2 DEF Inv, TypeOK, Control
<1>5. Elements(data) = {}
    BY <1>2 DEF Elements
<1>6. /\ Shown' = Elements(pages) /\ Ahead' = rest' /\ Elements(pages)' = Elements(pages)
      /\ Shown = Elements(pages)
    BY <1>1, <1>2, <1>5 DEF Shown, Ahead
<1>7. Elements(pages) \subseteq Nat /\ nextID \in Nat /\ cursor \in Nat
    BY <1>6, ShownNat DEF Inv, TypeOK
<1>8. cursor = None => Elements(pages) = {}
    BY <1>1 DEF Inv, CursorLast, Elements
<1>9. cursor # None => \A x \in rest', y \in Elements(pages) : x < cursor /\ cursor <= y
    BY <1>1, <1>3 DEF Inv, CursorLast
<1>10. rest' \subseteq Nat /\ \A x \in rest' : x < nextID
    BY <1>2, <1>3
<1>11. Order'
    <2>1. (pages \o data)' = pages
        <3>1. pages \in Seq(Counter)
            BY DEF Inv, TypeOK
        <3> QED BY <1>1, <1>2, <3>1
    <2>2. \A x \in rest', y \in Elements(pages) : x < y
        BY <1>7, <1>8, <1>9, <1>10
    <2>3. Decreasing(pages)
        BY DEF Inv, Order
    <2>4. chunk' = {}
        BY <1>1, <1>2
    <2>5. Decreasing(pages)' /\ Decreasing(pages \o data)'
        BY <1>1, <2>1, <2>3 DEF Decreasing
    <2> QED BY <1>6, <2>2, <2>4, <2>5 DEF Order
<1>12. Blank' /\ CursorLast'
    BY <1>1 DEF Inv, Blank, CursorLast
<1>13. Known'
    <2>1. stable' \subseteq matching'
        BY <1>1 DEF Inv, Known
    <2> QED BY <1>1, <1>6, <1>10, <2>1 DEF Inv, Known
<1>14. Fresh'
    <2> SUFFICES ASSUME NEW x \in newcomers'
                 PROVE  \A y \in Elements(pages) \cup rest' : y < x
        BY <1>6 DEF Fresh
    <2>1. cursor # None /\ x \in newcomers
        BY <1>1
    <2>2. \A y \in Elements(pages) : y < x
        BY <2>1 DEF Inv, Fresh
    <2>3. cursor \in Elements(pages)
        BY <1>1, <2>1 DEF Inv, CursorLast
    <2>4. x \in Nat
        BY <2>1 DEF Inv, TypeOK
    <2>5. ASSUME NEW y \in rest' PROVE y < x
        <3>1. y < cursor /\ cursor < x /\ y \in Nat
            BY <1>3, <1>10, <2>1, <2>2, <2>3
        <3> QED BY <3>1, <2>4, <1>7
    <2> QED BY <2>2, <2>5
<1>15. Complete'
    <2>1. CASE cursor = None
        BY <2>1, <1>1, <1>3, <1>6 DEF Complete
    <2>2. CASE cursor # None
        <3>1. stable' = stable /\ stable \subseteq matching
            BY <2>2, <1>1 DEF Inv, Known
        <3>2. \A x \in stable : x \in Elements(pages) \/ x < cursor
            BY <2>2, <1>1 DEF Inv, Complete
        <3>3. stable \subseteq Elements(pages) \cup rest'
            BY <2>2, <3>1, <3>2, <1>3
        <3> QED BY <3>1, <3>2, <3>3, <1>1, <1>6 DEF Complete
    <2> QED BY <2>1, <2>2
<1>16. Covered'
    BY <1>1, <1>2 DEF Covered, SnapshotCoversAtBlock
<1> QED BY <1>4, <1>11, <1>12, <1>13, <1>14, <1>15, <1>16 DEF Inv

(* A chunk is the newest of what is left.                                  *)
LEMMA FetchChunkStep ==
    ASSUME Inv, FetchChunk
    PROVE  Inv'
<1> USE CommittedStoreAssumption, QueryAssumption
<1> DEFINE n == Smaller(maxResults - Len(data), ChunkSize)
<1>1. /\ UNCHANGED <<height, nextID, live, matching, pc, expired, atBlock, maxResults,
                     cursor, data, totalBytes, pages, snapHeight, stable, newcomers>>
      /\ pc = "fill" /\ chunk = {}
      /\ chunk' = Newest(rest, n) /\ rest' = rest \ Newest(rest, n)
    BY DEF FetchChunk, database, options, session
<1>2. n \in Int
    <2>1. Len(data) \in Nat /\ maxResults \in Nat /\ ChunkSize \in Nat
        BY DEF Inv, TypeOK
    <2> QED BY <2>1 DEF Smaller
<1> HIDE DEF n
<1>3. Newest(rest, n) \subseteq rest
    BY DEF Newest
<1>4. rest \subseteq Nat /\ nextID \in Nat /\ \A y \in rest : y < nextID
    BY DEF Inv, TypeOK, Known, Ahead
<1>5. \A x \in chunk', y \in rest' : y < x
    BY <1>1, <1>2, <1>4, NewestAbove
<1>6. Ahead' = Ahead /\ Shown' = Shown /\ Elements(pages)' = Elements(pages)
    BY <1>1, <1>3 DEF Ahead, Shown
<1>7. TypeOK'
    <2>1. chunk' \subseteq Counter /\ rest' \subseteq Counter
        BY <1>1, <1>3 DEF Inv, TypeOK
    <2> QED BY <1>1, <2>1 DEF Inv, TypeOK
<1>8. Order'
    BY <1>1, <1>5, <1>6 DEF Inv, Order, Decreasing
<1>9. (Blank /\ CursorLast /\ Covered)'
    BY <1>1, <1>6 DEF Inv, Blank, CursorLast, Covered, SnapshotCoversAtBlock
<1>10. (Known /\ Fresh /\ Complete)'
    BY <1>1, <1>6 DEF Inv, Known, Fresh, Complete
<1> QED BY <1>7, <1>8, <1>9, <1>10 DEF Inv

(* A row is shown: the lowest id so far.  If it fills the page, the cursor *)
(* is at it, and all that was ahead is below.                              *)
LEMMA AppendRowStep ==
    ASSUME Inv, AppendRow
    PROVE  Inv'
<1> USE CommittedStoreAssumption, QueryAssumption
<1>1. PICK id \in chunk, bytes \in RowBytes :
        /\ \A x \in chunk : x <= id
        /\ data' = Append(data, id)
        /\ totalBytes' = totalBytes + bytes
        /\ \/ /\ pc' = "more" /\ cursor' = CursorAfter(id)
              /\ pages' = pages \o data' /\ chunk' = {}
           \/ chunk' = chunk \ {id} /\ UNCHANGED <<pc, cursor, pages>>
    BY DEF AppendRow
<1>2. /\ UNCHANGED <<height, nextID, live, matching, expired, atBlock, maxResults, rest,
                     snapHeight, stable, newcomers>>
      /\ pc = "fill"
    BY DEF AppendRow, database
<1>3. /\ pages \in Seq(Counter) /\ data \in Seq(Counter) /\ id \in Counter /\ id \in Nat
      /\ id # None
    BY DEF Inv, TypeOK, None
<1>4. data' \in Seq(Counter) /\ Elements(data') = Elements(data) \cup {id}
    BY <1>1, <1>3, ElementsAppend
<1>5. /\ pages \o data' \in Seq(Counter)
      /\ Elements(pages \o data') = Elements(pages) \cup Elements(data) \cup {id}
    BY <1>3, <1>4, ElementsConcat
<1>6. Shown \subseteq Nat /\ Ahead \subseteq Nat
    BY ShownNat DEF Inv
<1>7. /\ \A y \in Shown : id < y
      /\ \A x \in rest : x < id
      /\ \A x \in chunk \ {id} : x < id
    <2>1. (\A y \in Shown : id < y) /\ (\A x \in rest : x < id)
        BY <1>2 DEF Inv, Order, Ahead
    <2>2. ASSUME NEW x \in chunk \ {id} PROVE x < id
        BY <1>1, <1>3, <1>6 DEF Ahead
    <2> QED BY <2>1, <2>2
<1>8. Decreasing(pages \o data')
    <2>1. Counter \in SUBSET Nat
        OBVIOUS
    <2>2. Decreasing(pages \o data)
        BY <1>2 DEF Inv, Order
    <2>3. \A y \in Elements(pages \o data) : id < y
        BY <1>3, <1>7, ElementsConcat DEF Shown
    <2> QED BY <1>1, <1>3, <2>1, <2>2, <2>3, DecreasingAppend
<1>9. Shown' = Shown \cup {id} /\ Ahead' \subseteq Ahead
    <2>1. CASE pages' = pages
        BY <2>1, <1>1, <1>2, <1>4 DEF Shown, Ahead
    <2>2. CASE pages' = pages \o data' /\ chunk' = {}
        BY <2>2, <1>2, <1>4, <1>5 DEF Shown, Ahead
    <2> QED BY <2>1, <2>2, <1>1
<1>10. /\ id \in Ahead
       /\ \A y \in Shown \cup Ahead : y < nextID
       /\ \A x \in newcomers : \A y \in Shown \cup Ahead : y < x
       /\ stable \subseteq Shown \cup Ahead
    BY <1>2 DEF Inv, Known, Fresh, Complete, Ahead
<1>11. TypeOK'
    <2>1. pages' \in Seq(Counter)
        BY <1>1, <1>3, <1>5
    <2>2. pc' \in Control /\ cursor' \in Nat
        BY <1>1, <1>3 DEF CursorAfter, Inv, TypeOK, Control
    <2>3. totalBytes' \in Nat
        BY <1>1 DEF Inv, TypeOK
    <2>4. chunk' \subseteq Counter
        BY <1>1 DEF Inv, TypeOK
    <2> QED BY <1>2, <1>4, <2>1, <2>2, <2>3, <2>4 DEF Inv, TypeOK
<1>12. Known'
    BY <1>2, <1>9, <1>10 DEF Inv, Known
<1>13. Elements(pages') \subseteq Shown'
    BY DEF Shown
<1>14. Fresh'
    BY <1>2, <1>9, <1>10, <1>13 DEF Fresh
<1>15. CASE pc' = "more" /\ cursor' = CursorAfter(id) /\ pages' = pages \o data' /\ chunk' = {}
    <2>1. Elements(pages') = Shown \cup {id} /\ cursor' = id
        BY <1>5, <1>15 DEF Shown, CursorAfter
    <2>2. Blank' /\ Order'
        BY <1>8, <1>15 DEF Blank, Order
    <2>3. CursorLast'
        <3>1. \A y \in Shown \cup {id} : id <= y
            BY <1>3, <1>6, <1>7
        <3>2. cursor' # None /\ cursor' \in Elements(pages')
            BY <1>3, <2>1 DEF None
        <3>3. \A y \in Elements(pages') : cursor' <= y
            BY <2>1, <3>1
        <3> QED BY <3>2, <3>3 DEF CursorLast, None
    <2>4. Complete'
        <3>1. \A x \in stable : x \in Shown \cup {id} \/ x < id
            BY <1>7, <1>10 DEF Ahead
        <3> QED BY <1>2, <1>15, <2>1, <3>1 DEF Complete
    <2>5. Covered'
        BY <1>2, <1>15 DEF Inv, Covered, SnapshotCoversAtBlock
    <2> QED BY <1>11, <1>12, <1>14, <2>2, <2>3, <2>4, <2>5 DEF Inv
<1>16. CASE chunk' = chunk \ {id} /\ UNCHANGED <<pc, cursor, pages>>
    <2>1. Ahead' = (chunk \ {id}) \cup rest
        BY <1>2, <1>16 DEF Ahead
    <2>2. Order'
        <3>1. \A x \in Ahead' : \A y \in Shown' : x < y
            <4>1. \A x \in Ahead' : x < id
                BY <2>1, <1>7
            <4>2. \A x \in Ahead', y \in Shown : x < y
                BY <1>2, <1>9 DEF Inv, Order
            <4> QED BY <4>1, <4>2, <1>9
        <3>2. \A x \in chunk', y \in rest' : y < x
            BY <1>2, <1>16 DEF Inv, Order
        <3>3. Decreasing(pages) /\ Decreasing(pages)' /\ Decreasing(pages \o data)'
            BY <1>8, <1>16 DEF Inv, Order, Decreasing
        <3> QED BY <3>1, <3>2, <3>3 DEF Order
    <2>3. Blank' /\ CursorLast'
        BY <1>2, <1>16 DEF Inv, Blank, CursorLast
    <2>4. Complete'
        <3>1. stable' \subseteq Shown' \cup Ahead'
            BY <1>2, <1>9, <1>10, <2>1 DEF Ahead
        <3>2. Elements(pages)' = Elements(pages)
            BY <1>16
        <3> QED BY <1>2, <1>16, <3>1, <3>2 DEF Inv, Complete
    <2>5. Covered'
        BY <1>2, <1>16 DEF Inv, Covered, SnapshotCoversAtBlock
    <2> QED BY <1>11, <1>12, <1>14, <2>2, <2>3, <2>4, <2>5 DEF Inv
<1> QED BY <1>1, <1>15, <1>16

(* The last page leaves nothing ahead.                                     *)
LEMMA LastPageStep ==
    ASSUME Inv, LastPage
    PROVE  Inv'
<1>1. /\ UNCHANGED <<height, nextID, live, matching, expired, atBlock, maxResults, cursor,
                     rest, chunk, data, totalBytes, snapHeight, stable, newcomers>>
      /\ pc = "fill" /\ pc' = "end" /\ chunk = {} /\ rest = {}
      /\ pages' = pages \o data
    BY DEF LastPage, database, options, page
<1>2. pages' \in Seq(Counter) /\ Elements(pages') = Shown
    BY <1>1, ElementsConcat DEF Inv, TypeOK, Shown
<1>3. Shown' = Shown /\ Ahead' = Ahead /\ Ahead = {}
    BY <1>1, <1>2 DEF Shown, Ahead
<1>4. TypeOK'
    BY <1>1, <1>2 DEF Inv, TypeOK, Control
<1>5. Decreasing(pages')
    BY <1>1 DEF Inv, Order
<1>6. (Blank /\ Order /\ CursorLast)'
    BY <1>1, <1>5 DEF Blank, Order, CursorLast
<1>7. (Known /\ Fresh /\ Complete)'
    BY <1>1, <1>2, <1>3 DEF Inv, Known, Fresh, Complete
<1>8. Covered'
    BY <1>1 DEF Inv, Covered, SnapshotCoversAtBlock
<1> QED BY <1>4, <1>6, <1>7, <1>8 DEF Inv

-----------------------------------------------------------------------------
(* The invariant holds always: of requests that are served while the store *)
(* changes, whatever the client asks for next.                             *)
THEOREM InvAlways == Spec => []Inv
<1>1. Inv /\ [Next]_vars => Inv'
    <2> SUFFICES ASSUME Inv, [Next]_vars PROVE Inv'
        OBVIOUS
    <2>1. CASE Commit
        BY <2>1, CommitStep
    <2>2. CASE FirstPage
        BY <2>2, FirstPageStep
    <2>3. CASE NextPage
        BY <2>3, NextPageStep
    <2>4. CASE Poll \/ Wake \/ TimerFires \/ Timeout \/ QueryFails
        BY <2>4, WaitStep
    <2>5. CASE Evaluate
        BY <2>5, EvaluateStep
    <2>6. CASE FetchChunk
        BY <2>6, FetchChunkStep
    <2>7. CASE AppendRow
        BY <2>7, AppendRowStep
    <2>8. CASE LastPage
        BY <2>8, LastPageStep
    <2>9. CASE UNCHANGED vars
        <3>1. UNCHANGED <<height, nextID, live, matching, pc, expired, atBlock, maxResults,
                          cursor, rest, chunk, data, totalBytes, pages, snapHeight, stable,
                          newcomers>>
            BY <2>9 DEF vars, database, options, page, session
        <3>2. Shown' = Shown /\ Ahead' = Ahead /\ Elements(pages)' = Elements(pages)
            BY <3>1 DEF Shown, Ahead
        <3>3. TypeOK'
            BY <3>1 DEF Inv, TypeOK
        <3>4. (Blank /\ Order /\ CursorLast)'
            BY <3>1, <3>2 DEF Inv, Blank, Order, CursorLast, Decreasing
        <3>5. (Known /\ Fresh /\ Complete /\ Covered)'
            BY <3>1, <3>2 DEF Inv, Known, Fresh, Complete, Covered, SnapshotCoversAtBlock
        <3> QED BY <3>3, <3>4, <3>5 DEF Inv
    <2> QED BY <2>1, <2>2, <2>3, <2>4, <2>5, <2>6, <2>7, <2>8, <2>9 DEF Next, Serve
<1> QED BY InvInit, <1>1, PTL DEF Spec

(* Every variable of a request and of the client keeps its type.           *)
THEOREM TypesAlways == Spec => []TypeOK
<1>1. Inv => TypeOK
    BY DEF Inv
<1> QED BY InvAlways, <1>1, PTL

(* A client sees every entity at most once and newest first, across pages, *)
(* commits between them and failed pages that are asked for again.         *)
THEOREM NewestFirstOnceAlways == Spec => []NewestFirstOnce
<1>1. Inv => NewestFirstOnce
    <2> SUFFICES ASSUME Inv PROVE NewestFirstOnce
        OBVIOUS
    <2>1. Decreasing(AllIds)
        BY DEF Inv, Order, AllIds
    <2> QED BY <2>1 DEF NewestFirstOnce, Decreasing
<1> QED BY InvAlways, <1>1, PTL

(* A client that reaches the last page has every entity that matched its   *)
(* query from the first page on.                                           *)
THEOREM NothingEverMissed == Spec => []NothingMissed
<1>1. Inv => NothingMissed
    BY DEF Inv, Complete, NothingMissed
<1> QED BY InvAlways, <1>1, PTL

(* No entity created after the first page is ever shown.                   *)
THEOREM NoNewcomersAlways == Spec => []NoNewcomers
<1>1. Inv => NoNewcomers
    <2> SUFFICES ASSUME Inv, NEW x \in Elements(AllIds), x \in newcomers PROVE FALSE
        BY DEF NoNewcomers
    <2>1. x \in Elements(pages) \/ (pc = "fill" /\ x \in Shown)
        <3>1. Elements(pages \o data) = Shown
            BY ElementsConcat DEF Inv, TypeOK, Shown
        <3> QED BY <3>1 DEF AllIds
    <2>2. x < x
        BY <2>1 DEF Inv, Fresh
    <2>3. x \in Nat
        BY CommittedStoreAssumption DEF Inv, TypeOK
    <2> QED BY <2>2, <2>3
<1> QED BY InvAlways, <1>1, PTL

(* No page is taken from a snapshot older than the block it was asked for. *)
THEOREM SnapshotsCoverAtBlock == Spec => []SnapshotCoversAtBlock
<1>1. Inv => SnapshotCoversAtBlock
    BY DEF Inv, Covered
<1> QED BY InvAlways, <1>1, PTL
=============================================================================
