---------------------------- MODULE QueryEntities ----------------------------
(***************************************************************************)
(* PebbleStore.QueryEntities and a client that pages through its results   *)
(* while the event follower goes on committing batches                     *)
(* (pebblestore/query_rpc.go).                                             *)
(*                                                                         *)
(* A request waits until the store has processed the block it asks for, or *)
(* times out; evaluates the query on a snapshot; and returns the matching  *)
(* entities newest first, at most a page of them, with a cursor when there *)
(* may be more.  Each page is a request of its own, on a snapshot of its   *)
(* own.  The database is a CommittedStore: `matching` is what evaluateAST   *)
(* would return on it now, and any commit may change it.                   *)
(***************************************************************************)
EXTENDS CommittedStore, Sequences, FiniteSets

CONSTANTS
    ResultsPerPage,         \* page sizes clients ask for
    QueryResultCountLimit,  \* 200 in the code
    ChunkSize,              \* payloads fetched at a time: 10 in the code
    MaxResultBytes,         \* bytes of entity data after which a page ends
    RowBytes,               \* sizes of the encoded entities
    AtBlock                 \* block numbers clients ask for

ASSUME QueryAssumption ==
    /\ ResultsPerPage \subseteq Nat
    /\ QueryResultCountLimit \in Nat \ {0}
    /\ ChunkSize \in Nat \ {0}
    /\ MaxResultBytes \in Nat
    /\ RowBytes \subseteq Nat
    /\ AtBlock \subseteq Nat
    /\ Counter \subseteq Nat \ {0}

VARIABLES
    \* the request being served
    pc,          \* where QueryEntities is, see Control
    expired,     \* the 3 second timeout has fired
    atBlock,     \* requested block
    maxResults,  \* GetResultsPerPage
    cursor,      \* 0: none; else the id the page starts below
    rest,        \* ids the reverse iterator has not returned
    chunk,       \* ids fetched and not yet appended to the result
    data,        \* ids of the entities in res.Data
    totalBytes,
    \* the client's paging session
    pages,       \* ids of the pages received, in order
    snapHeight,  \* history: block number of the request's snapshot
    stable,      \* history: ids that have matched ever since the first page
    newcomers    \* history: ids of entities created since the first page

options == <<atBlock, maxResults, cursor>>
page == <<rest, chunk, data, totalBytes>>
session == <<pages, snapHeight, stable, newcomers>>
vars == <<database, pc, expired, options, page, session>>

(* "new"    no request yet              "poll"   about to read lastBlock   *)
(* "sleep"  in the select               "ready"  parsing, then snapshot    *)
(* "fill"   in fillLoop                 "more"   answered, with a cursor   *)
(* "end"    answered without a cursor   "failed" answered with an error    *)
Control == {"new", "poll", "sleep", "ready", "fill", "more", "end", "failed"}
Serving == {"poll", "sleep", "ready", "fill"}

Elements(s) == {s[i] : i \in DOMAIN s}
None == 0

-----------------------------------------------------------------------------
Init ==
    /\ Open
    /\ pc = "new"
    /\ expired = FALSE
    /\ atBlock = 0 /\ maxResults = 0 /\ cursor = None
    /\ rest = {} /\ chunk = {} /\ data = <<>> /\ totalBytes = 0
    /\ pages = <<>> /\ snapHeight = 0 /\ stable = {} /\ newcomers = {}

(* FollowEvents commits a batch.                                           *)
Commit ==
    /\ StoreCommit
    /\ newcomers' = newcomers \cup (live' \ live)
    /\ stable' = stable \cap matching'
    /\ UNCHANGED <<pc, expired, options, page, pages, snapHeight>>

-----------------------------------------------------------------------------
GetResultsPerPage(n) ==
    IF n > QueryResultCountLimit THEN QueryResultCountLimit ELSE n

Call ==
    /\ pc' = "poll"
    /\ expired' = FALSE
    /\ rest' = {} /\ chunk' = {} /\ data' = <<>> /\ totalBytes' = 0
    /\ UNCHANGED database

(* The client begins a query, perhaps leaving another one unfinished.      *)
FirstPage ==
    /\ pc \notin Serving
    /\ atBlock' \in AtBlock
    /\ \E n \in ResultsPerPage : maxResults' = GetResultsPerPage(n)
    /\ cursor' = None
    /\ pages' = <<>> /\ snapHeight' = 0 /\ stable' = {} /\ newcomers' = {}
    /\ Call

(* The client asks for the page after the one it got, or asks again for a  *)
(* page that failed.                                                       *)
NextPage ==
    /\ pc \in {"more", "failed"}
    /\ UNCHANGED <<options, session>>
    /\ Call

(* Slip: a store one block short is good enough.                           *)
ReachedNearly == height + 1 >= atBlock
Reached == height >= atBlock

(* Slip: a timeout that fires outside the select is not noticed.           *)
PollHeedless ==
    /\ pc = "poll"
    /\ pc' = IF Reached THEN "ready" ELSE "sleep"
    /\ UNCHANGED <<database, expired, options, page, session>>

(* Reads lastBlock.  The select that follows ends at once when the timeout *)
(* has already fired, since its 100 ms timer has only just been started.   *)
Poll ==
    /\ pc = "poll"
    /\ pc' = IF Reached THEN "ready"
             ELSE IF expired THEN "failed" ELSE "sleep"
    /\ UNCHANGED <<database, expired, options, page, session>>

Wake ==
    /\ pc = "sleep"
    /\ pc' = "poll"
    /\ UNCHANGED <<database, expired, options, page, session>>

TimerFires ==
    /\ pc \in {"poll", "sleep"}
    /\ ~expired
    /\ expired' = TRUE
    /\ UNCHANGED <<database, pc, options, page, session>>

Timeout ==
    /\ pc = "sleep"
    /\ expired
    /\ pc' = "failed"
    /\ UNCHANGED <<database, expired, options, page, session>>

(* The query does not parse, PebbleDB fails, or the caller cancels the     *)
(* context; nothing is returned.                                           *)
QueryFails ==
    /\ pc \in Serving
    /\ pc' = "failed"
    /\ UNCHANGED <<database, expired, options, page, session>>

(* Slip: the cursor mask includes the cursor.                              *)
BelowCursorInclusive(ids) == {id \in ids : cursor # None => id <= cursor}
BelowCursor(ids) == {id \in ids : cursor # None => id < cursor}

(* Snapshot, evaluateAST on it, and the cursor mask.                       *)
Evaluate ==
    /\ pc = "ready"
    /\ pc' = "fill"
    /\ rest' = BelowCursor(matching)
    /\ snapHeight' = height
    /\ IF cursor = None
       THEN stable' = matching /\ newcomers' = {}
       ELSE UNCHANGED <<stable, newcomers>>
    /\ UNCHANGED <<database, expired, options, chunk, data, totalBytes, pages>>

-----------------------------------------------------------------------------
Smaller(m, n) == IF m < n THEN m ELSE n

(* nextIDs: the n newest ids of the iterator.                              *)
Newest(ids, n) == {id \in ids : Cardinality({x \in ids : x > id}) < n}

(* One chunk of fillLoop: nextIDs and retrievePayloads.                    *)
FetchChunk ==
    /\ pc = "fill"
    /\ chunk = {}
    /\ rest # {}
    /\ LET ids == Newest(rest, Smaller(maxResults - Len(data), ChunkSize))
       IN  chunk' = ids /\ rest' = rest \ ids
    /\ UNCHANGED <<database, pc, expired, options, data, totalBytes, session>>

PageFull(n, bytes) == bytes > MaxResultBytes \/ n >= maxResults

(* Slip: the cursor is the last id taken from the iterator, whether or not *)
(* its entity is in the page.                                              *)
CursorAfterChunk(id) == IF \E x \in chunk : x < id
                        THEN CHOOSE x \in chunk : \A y \in chunk : x <= y
                        ELSE id
CursorAfter(id) == id

(* Appends one entity, newest first, and ends the page if it is full.      *)
AppendRow ==
    /\ pc = "fill"
    /\ \E id \in chunk, bytes \in RowBytes :
          /\ \A x \in chunk : x <= id
          /\ data' = Append(data, id)
          /\ totalBytes' = totalBytes + bytes
          /\ IF PageFull(Len(data'), totalBytes')
             THEN /\ pc' = "more"
                  /\ cursor' = CursorAfter(id)
                  /\ pages' = pages \o data'
                  /\ chunk' = {}
             ELSE /\ chunk' = chunk \ {id}
                  /\ UNCHANGED <<pc, cursor, pages>>
    /\ UNCHANGED <<database, expired, atBlock, maxResults, rest, snapHeight,
                   stable, newcomers>>

LastPage ==
    /\ pc = "fill"
    /\ chunk = {} /\ rest = {}
    /\ pc' = "end"
    /\ pages' = pages \o data
    /\ UNCHANGED <<database, expired, options, page, snapHeight, stable, newcomers>>

-----------------------------------------------------------------------------
Serve == Poll \/ Wake \/ Timeout \/ Evaluate \/ FetchChunk \/ AppendRow \/ LastPage

Next == Commit \/ FirstPage \/ NextPage \/ TimerFires \/ QueryFails \/ Serve

Spec == Init /\ [][Next]_vars

(* The goroutine of the request runs and its timer fires.  Nothing is      *)
(* asked of the follower or of the client.                                 *)
FairSpec == Spec /\ WF_vars(Serve) /\ WF_vars(TimerFires)

-----------------------------------------------------------------------------
(* Properties                                                              *)

TypeOK ==
    /\ height \in Height /\ nextID \in Counter
    /\ live \subseteq {id \in Counter : id < nextID}
    /\ matching \subseteq live
    /\ pc \in Control
    /\ expired \in BOOLEAN
    /\ atBlock \in Nat /\ maxResults \in Nat /\ cursor \in Nat
    /\ totalBytes \in Nat /\ snapHeight \in Nat
    /\ rest \subseteq Counter /\ chunk \subseteq Counter
    /\ stable \subseteq Counter /\ newcomers \subseteq Counter
    /\ data \in Seq(Counter) /\ pages \in Seq(Counter)

(* The entities the client has and the ones of the page in the making.     *)
AllIds == IF pc = "fill" THEN pages \o data ELSE pages

(* A client that pages through the results sees every entity at most once  *)
(* and newest first, across pages, while the store changes between them    *)
(* and failed pages are asked for again.                                   *)
NewestFirstOnce ==
    \A i, j \in DOMAIN AllIds : i < j => AllIds[i] > AllIds[j]

(* When the last page has no cursor, the client has every entity that has  *)
(* matched the query ever since the first page was evaluated: neither the  *)
(* chunks, the byte limit in the middle of a chunk, nor a commit between   *)
(* two pages makes one go missing.                                         *)
NothingMissed == pc = "end" => stable \subseteq Elements(pages)

(* No page shows an entity that was created after the first page: it would *)
(* have to come under an id below the cursor, and ids are not reused.      *)
NoNewcomers == Elements(AllIds) \cap newcomers = {}

(* The snapshot a page is taken from includes the requested block, though  *)
(* it is taken later than the block number was read.                       *)
SnapshotCoversAtBlock == pc \in {"fill", "more", "end"} => snapHeight >= atBlock

(* Every request is answered, with a page or an error.                     *)
EveryRequestAnswered == pc \in Serving ~> pc \notin Serving
=============================================================================
