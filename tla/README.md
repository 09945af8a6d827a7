# Verification of the Pebble bitmap store

The store follows the block events of the Arkiv chain, keeps the entities they
describe in a PebbleDB database with a bitmap index over their attributes, and
answers paged queries. This directory holds TLA+ models of its components, TLC
configurations that check them on small instances, and TLAPS proofs.

- Model-check: `tlc -config FollowEvents_blocks.cfg MCFollowAndQuery`
- Prove: `tlapm FollowEventsProofs.tla` (likewise the other `...Proofs` modules)

`PROJECT.json` lists runs, mutants (plausible bugs that must break a property),
the source lines of each definition, hazards, findings and theorems.

## The system

| Component | State | Operations | Hard part |
|---|---|---|---|
| Event follower (`follow_events.go`) | the open indexed batch, its bitmap cache, last block read at the batch's start, position in blocks and operations | take a batch, skip stored blocks, create / update / delete / expire / extendBTL / changeOwner, commit, return an error | one commit for everything; updates of a block coalesced; errors and crashes anywhere; blocks delivered again |
| Store lifecycle (`pebblestore.go`) | `nextIDVal` in memory; `lastBlock`, `idCounter`, `entityCount` on disk | open (load the counter, migrate the count), close, read last block and count, allocate ids | memory and disk drift apart when a batch is dropped; several batches open at once; databases from before the count |
| Payload records (`payload_ops.go`) | entity key -> id, id -> record | upsert, get, delete, chunked retrieval; binary record codec | pointer and record must go together; fields found by the lengths before them |
| Bitmap index and cache (`bitmap_ops.go`, `bitmap_cache.go`) | attribute -> set of ids, on disk and in the cache | add, remove, flush (empty bitmaps are deleted) | the cached copy outlives many operations on the same attribute |
| Key encoding (`encoding.go`) | none | build and decode keys, bounds of prefix scans | 16-bit lengths and offsets, carries in prefix bounds |
| Query requests (`query_rpc.go`) | request: snapshot, result iterator, page, cursor; client: pages so far | wait for a block, time out, evaluate, fill a page, render entities | commits between check and snapshot and between pages; page ended by bytes in mid-chunk |
| Query evaluation (`evaluate.go`, `value_queries.go`, `temporal_queries.go`) | none (reads a snapshot) | AST -> set of ids | index scans against what the entities say; negation |
| Query language (`query/`) | none | parse, normalise to disjunctive normal form | pushing negation inwards |
| Push iterator (`pusher/`) | an unbuffered channel | push, iterate, close | a producer blocked on a follower that has returned; a batch taken and not applied |
| Attribute containers (`store/`) | maps | construct, convert | none |
| Command line tools (`cmd/`) | none | load archives, query | a second run delivers old blocks again |

Interactions. A batch iterator (archive reader or push iterator) hands batches
to `FollowEvents`, the one writer. It reads through an indexed batch, caches
bitmaps, and publishes everything in one `Commit(pebble.Sync)`. Queries run
concurrently: each polls `lastBlock` on the database and then reads only its own
PebbleDB snapshot, so they meet the follower at commits and nowhere else. The
models are composed along these seams:

- `PushIterator` - `FollowEvents`: a batch, delivered at most once and in order.
  `FollowEvents` assumes less: its source may repeat batches.
- `FollowEvents` - `QueryEntities`: the abstract `CommittedStore`. `QueryEntities`
  is checked and proved against any `CommittedStore`; `FollowAndQuery` proves that
  the follower's database, seen through any normalised query, is one.
- `QueryLanguage` - `QueryEval` - `PebbleStore`: a parse tree becomes a normalised
  query, which is evaluated on a view. That views have an exact index is what
  `FollowEvents` proves (`SecondaryIndexExact`), and `FollowAndQuery` that answers
  are exact because of it.
- `PebbleStore` - `StoredBytes`: the former keeps every key space as a map of its
  own; the latter shows what lookups and scans of one ordered map of bytes yield.

What makes each component correct:

- follower: readers see whole blocks, once, in order, with the effect of every
  operation; stored blocks are not applied again; it catches up after failures;
- lifecycle: no id is used twice, the count is exact, also after failures;
- records: pointers and records correspond one to one; a record is read as written;
- index: every bitmap holds exactly the ids of the entities with the attribute;
- keys: no two keys coincide; a scan yields the values of its attribute, no others;
- queries: a paging client sees each entity once, newest first, misses none that
  matched throughout and sees none created later; each request ends; a page
  covers the requested block; an entity is shown with what was asked for;
- evaluation and language: the answer is the set of entities of which the query,
  as written, is true;
- push iterator: batches are applied in order and once, and at most one that was
  taken is not; together, a stream of batches each delivered or dropped; a Push returns as long as the follower runs.

## Modules

| Module | What it is |
|---|---|
| `EntityEvents` | operations, records, index keys; `Effect`, what one operation does to a map of entities |
| `PebbleStore` | the key spaces as a view (database, snapshot or indexed batch) and every store operation on a view; what a consistent view is |
| `FollowEvents` | the state machine: open, follow, fail, crash, close |
| `EntityLedger` | the abstract specification `FollowEvents` implements |
| `FollowAnyEvents` | the follower with creates of keys that are in use |
| `IdAllocation` | several batches open at once: ids and count |
| `CommittedStore` | the abstract store a query sees |
| `QueryEntities` | a paging client and its requests, against a `CommittedStore` |
| `QueryEval` | evaluation of normalised queries on a view; what the answer should be |
| `FollowAndQuery` | the follower with queries on its database; the refinement of `CommittedStore` |
| `QueryLanguage` | grammar, negation, normal form; what a query says of an entity |
| `PushIterator` | producers, channel, follower |
| `BatchStream` | the abstract specification `PushIterator` implements |
| `KeyEncoding`, `RecordCodec`, `EntityRendering` | keys and records as bytes, entities as shown; `StoredBytes`: a database made of them |
| `MC...` | constants for TLC |
| `PebbleStoreProofs`, `FollowEventsProofs`, `FollowAndQueryProofs`, `QueryLanguageProofs`, `QueryEntitiesProofs`, `PushIteratorProofs`, `IdAllocationProofs`, `StoredBytesProofs` | lemmas and theorems |

A definition whose comment begins with *Slip* is not part of a model: it is a
plausible bug, used in `PROJECT.json` to check that a property can fail.

### `FollowEvents` and the code

`db` is the database as committed; `pBatch` the view of the indexed batch;
`cache` the string and numeric halves of `bitmapCache` as one map; `nextIDVal`,
`lastBlockFromDB`, `blk`, `lastBlock` are the Go variables; `ops` and `pos` the
operation loop. `replayed` and `peak` are history variables: the entities that
the operations so far give when taken one by one, and the highest block ever
committed. They constrain one thing only: which creates the chain may send.

One action is one operation with all it does: `Create` allocates the id, writes
counter, count, pointer and record and adds the id to every bitmap. `Update`
reads the old record, carries its creation attributes over, and refiles the id;
`SkipUpdate` is the `continue` for all but the last update of a key in the block
(`updatesMap`). `ExtendBTL` and `ChangeOwner` refile one attribute only. `Remove`
is both delete and expire. `OperationFails` is every error that depends on data
(unknown type, missing entity, count underflow); `StorageFails` is PebbleDB
failing, in which case an id may already be used up in memory. Both drop the
batch and leave the store open. `CommitBatch` is last block, flush and commit in
one step: nothing of them is visible before the commit. `Crash` loses all but
`db`, at any point.

Abstractions. An entity's own content and attributes are one opaque `Body` with
the set of index keys it gives rise to. Roaring bitmaps are sets. uint64
arithmetic is modulo `Wrap`; `tx` and `idx` stay below `IndexBase`, so the
fields of `$sequence` do not overlap. `lastBlock` numbers are not wrapped.

Assumptions about the chain, which is not in this repository: the source leaves
no block out that has operations, and a create uses a key that is not in use
(`FreshCreates`; `FollowAnyEvents` does without it). A gap in the numbers, such
as a first block 100 on a new database, is the same as blocks without
operations, which the model has. Operations on entities that do not exist, and
operations of unknown type, are allowed: they end in an error. A batch has at
least one block (the code reads `Blocks[0]` at once), and operations come with
non-nil attribute maps. An error that the iterator itself yields ends
`FollowEvents` between batches and changes no state.

`FollowAnyEvents` adds the one action that starts a block with any creates.
`Create` overwrites the record under the id the key has and never takes the id
out of the bitmaps of what it overwrites: records, pointers and count stay
consistent, the database is still that of the operations taken one by one
(`EntityLedger` does not ask creates to be fresh), and the index misses nothing,
but may hold too much.

`IdAllocation` has only what `nextID` and `incrementEntityCount` touch. `mode`
is a history variable: whether batches have ever overlapped, and whether the
store was reopened after that.

### `QueryEntities`, evaluation and language

A request goes through `poll` (read `lastBlock`), `sleep` (the select), `ready`
(parse, snapshot, evaluate), `fill` (`fillLoop`, a chunk at a time). The query
is left open: `matching` is the answer on the current database and any commit
may change it. A client may ask again for a page that failed, or begin anew.

`QueryEval` names its operators after the Go functions. A term is a comparison
with a name, a literal and a negation flag; an AST is a set of conjunctions, each
a set of terms, as neither order nor repetition changes an answer. `path.Match`
and the byte order of strings are given as relations. `TrueOf` and `Matches` say
of one record whether a query is true of it; `Answer` is the set of such records.

`QueryLanguage` starts from parse trees, since lexing and recognition are
participle's, refuses what the grammar has no place for, and normalises. The Go
methods call each other recursively; here they are functions that are recursive
over `Expression`, the trees over the terms `Term` with up to `MaxNesting`
parentheses within each other. `Term` has every term with every negation and
comparison, as inverting changes both; the grammar (`InGrammar`) says which may be
asked. A function takes one argument, so the reference meaning `Is` is applied to
a claim, an expression with an entity and a truth value. This
meaning has three values: a term on an attribute that the entity
lacks, or has with a value of the other type, is neither true nor false, and a
negation is true when what it negates is false. The code has this meaning: `!=`
and `not in` scan the values that exist. `Panic` is the nil dereference described
under Findings.

### `PushIterator`

The channel is unbuffered: `Push` returns when the follower has *taken* the
batch, before it is applied. An error ends the follower with the batch in hand;
`FollowEvents` called again on the same iterator goes on with the next one. `Push`
does not look at its context and the producer has no other way to learn of the
error, so it waits until somebody follows again. `BatchStream` is all this without
the channel: a batch leaves its producer's stream when it is committed or fails,
so the position of the stream is behind `pushed` while the batch is in hand.

### Bytes

Bytes are base 64 instead of 256, lengths 1 byte instead of 2, numbers and entity
keys 2 instead of 8 and 32, JSON lengths 2 instead of 4; all arithmetic on lengths
wraps at its width. `prefixUpperBound`, key order, the decoders' slice bounds
(`Panic` when out of range) and the record's fields are spelt out; encoding/json
is external, a table from attribute maps to texts of which only those of valid
UTF-8 come back. `ScanExact` and `DecodeReverses` are equivalences: they state at
exactly which lengths the encoding stops working (`Fits`, `Survives`).

## Runs

| Run | States | What it shows | Bounds and why |
|---|---|---|---|
| `follow_blocks` | 153 k | consistency of records, index, count and ids; ids and creation attributes across commits; stored blocks skipped; answers exact; refinement of `CommittedStore` | 2 entities, 2 owners, 2 bodies sharing one attribute, BTL 0 and 1 (an extension by 0 refiles under the same key), 3 blocks in batches of 1-2, 1 operation per block, 1 failure: an entity can be created, changed and removed, a key re-created, a batch repeated and a failed one retried. 20 queries: every operator, on attributes that change, are shared, or do not exist |
| `follow_coalescing` | 228 k | the inductive invariants at every operation; refinement of `EntityLedger` | 1 entity, blocks of up to 3 operations (update - other - update, remove - create - update), 2 blocks; failures are left to the other runs |
| `follow_liveness` | 10 k | every block is committed in the end | 3 blocks, 2 failures; no symmetry |
| `follow_recreate` | 167 k | with creates of existing keys and numbers that wrap: nothing missing from the index, exact count, refinement of `EntityLedger` | as `follow_blocks`, BTL 0 and 3, `Wrap` 4: block 1 with BTL 3 expires at 0 |
| `follow_rewind` | - | violation: see Findings | 3 blocks, no failure |
| `ids` | 30 k | ids unique, count exact, up to where overlapping batches break them | 3 batches at once, 4 ids, 2 restarts: reuse needs two batches and one restart |
| `query_paging` | 340 k | pages are newest first, complete, without duplicates and newcomers; snapshot covers the block; each request ends | 4 ids, 3 commits, chunk 2, pages of 1 and 3 and beyond the limit, entities that fill a page alone or not: a page ends by count, by bytes at and inside a chunk, or by exhaustion; a block that may come and one that never does |
| `query_zero` | - | violation: see Findings | page sizes 0 and 1 |
| `push_handover` | 2.7 k | order, loss of at most the batch in hand, completeness on return, who waits; refinement of `BatchStream` | 2 producers, 3 batches each, 2 failures: a follower that fails is called again and fails again |
| `language_meaning` | 70 k | normalising and evaluating keep the meaning; the result is a normal form | every term, plain and under one or two negations; pairs of pairs of 4 terms, negated or not at each level (`MaxNesting` 2); one entity for every combination of 2 owners, 3 types, 3 versions. Deeper nesting is left to the proof |
| `language_notin` | - | violation: see Findings | one query |
| `bytes` | 22 k | keys, scans, the count's scan, records and what is shown of them | names of up to 2 of 3 bytes (0, a key-space prefix, the highest byte, whose scan bound carries) and names, values and content types at the limit of their lengths and one beyond; 2 bitmaps or entities at a time: the properties relate at most two |

`CHECK_DEADLOCK FALSE` is in three configurations: both of `QueryLanguage`, where
an answered query is done, and `push_handover`, where everything is delivered.
In `follow_blocks` only the keys are symmetric, because queries name an owner.

### Fairness

`FollowEvents!FairSpec`: weak fairness of the follower's own steps (one
goroutine, no lock or channel inside a batch), weak fairness of opening a closed
store (an operator restarts it), and strong fairness of the source delivering a
batch with a new block (it is asked again and again, and may repeat old batches
in between, but does not do so for ever). Failures and `Close` are never
required. Weak fairness on whole `Follow` is enough as one of its actions is
enabled in every state inside a batch. A block whose operation cannot be applied
fails every time it comes; `CatchesUp` therefore holds with the failures bounded
by `MaxFailures` and with a source that can deliver another content.

`QueryEntities!FairSpec`: the request's goroutine runs and its timer fires.
Nothing is asked of the follower or the client.

`PushIterator!FairSpec`: the producers' goroutines and the follower's run. Nobody
has to call `FollowEvents` again after an error, so `PushReturns` and
`FollowerEnds` allow for a follower that has stopped.

## Proofs

### Follower (`PebbleStoreProofs`, `FollowEventsProofs`)

For every set of keys, owners and bodies, every `Wrap`, `IndexBase`, number of
blocks, batch size and number of failures, from `NumbersAssumption`,
`AttributesAssumption` (user attributes do not bear the system's names: such
attributes are overwritten), `BlockContentsAssumption` and `BoundsAssumption`:

- `Spec => []Consistent` and from it types, `PayloadsConsistent`,
  `SecondaryIndexExact`, `EntityCountExact`, `IdsNotReallocated`,
  `ProcessedBlocksSkipped`;
- `Spec => IdsNeverReused`, `Spec => CreationAttributesFixed`;
- `Spec => ImplementsLedger`, from the same theorem about `AnySpec` below;
- if `PositionsAscend` (the creates of a block come in the order of their
  positions) and `SequencesFit` (no `$sequence` wraps): `Spec => []SequencesAscend`
  and from it `IdOrderIsSequenceOrder`, on which newest-first pages rest.

The inductive invariant `Consistent` (also checked by TLC). The properties speak
of the database, which changes only at a commit: what the commit writes must be
consistent already in memory. Hence the invariant holds the same facts of the
batch, with the index read *through the cache* (`BatchExact`); the ids of the
batch's new entities lie above the database's counter, its stored bitmaps are
those of the database (`Extends`); and the creates to come are fresh. What makes
coalescing sound is `BatchFollowsReplay`: the batch's entities equal those of
the operations taken one by one, except that an entity with a skipped update
whose successor is still to come may differ in what an update overwrites - never
in whether it exists or in what it was created with. Every operation keeps this
(`AgreeStep`), and when the block is done no update is pending.

Argument. `PebbleStoreProofs`: records, `Effect`, `AgreeStep`, `FreshCreatesStep`,
that refiling the one attribute that changed is refiling all (`OneKeyChanges`),
and that upsert and delete with refiling keep `BatchExact` and `Extends` and
change the entities as `Put` and `Del` do. `BatchExact` is made of `RecordsExact`
(pointers, records, count), `CacheComplete` (no entity is missing from a bitmap)
and its converse; the parts have lemmas of their own, for the follower below.
`FollowEventsProofs`: one lemma per action, the commit (`CommitFacts`) and the
theorems.

`IdOrderIsSequenceOrder` is not inductive: a create gets the largest id, so its
sequence must exceed all others, which needs to be known before it happens.
`SequencesAscend` says it of everything still to come: in a block, every entity
of the batch lies below the sequence of each create ahead and below the next
block's first; between blocks and between batches, below the next block's first.
Updates keep the sequence of what they replace, so only creates add one. The two
hypotheses are about the chain; `MCFollowAndQuery` evaluates them for TLC.

### Follower with any creates (`FollowEventsProofs`)

From the assumptions of the follower, without `FreshCreates`:
`AnySpec => []AnyConsistent` and from it `IndexComplete`, `PayloadsConsistent`,
`EntityCountExact`, `ProcessedBlocksSkipped`; `AnySpec => IdsNeverReused`; and
`AnySpec => ImplementsLedger`. The invariant is that of the follower with
`CacheComplete` in place of equality, and with `Adds` in place of `Extends`, as a
create may give an id another creator and sequence. The replay stays: a create
makes the same entity of what the batch has and of what the operations one by one
have, whether or not an update was skipped before (`AgreeStep` does not need
fresh creates). Every operation is taken anew: filing an id adds it, refiling
takes it out of bitmaps that its new record does not belong to, and deletion
removes an id from the bitmaps of the record it has, so what remains is never too
small. `LedgerStep` is the step of the ledger that each step of the follower is.

### Follower and queries (`FollowAndQueryProofs`)

For every set of normalised queries, and also from `IndexKeyAssumption` and
`QueriesAssumption`: `AnswersExact` and `ImplementsCommittedStore`. With an exact
index the values a scan finds are those some record has, so each kind of term
selects the records it is true of; intersections and unions follow
(`EvaluationIsAnswer` in `PebbleStoreProofs`). That commits add blocks and never
reuse ids comes from the follower's theorems.

### Query language (`QueryLanguageProofs`)

For every set of terms, queries and entities and any nesting of parentheses:

- `QueryMeaning`: on every view with an exact index, evaluating the normal form
  of an expression selects the entities of which the expression is true;
- `Spec => []AnswersMeanTheQuery` and `Spec => []NormalForm`.

Assumptions: `TermAssumption` (how terms are built), `ParsedAssumption` (queries
are expressions; identifiers do not begin with `$`), `OrderAssumption` (strings
and numbers are ordered, so that the opposite of `<` is `>=`),
`IndexKeyAssumption`, and `ViewAssumption`, that the index is exact, which is what
the follower's theorems prove (`ConsistentReadable`). The two about meaning have
hypotheses besides, at the places where normalising an inclusion in `$key`,
`$owner` or `$creator` drops something: that such inclusions are not negated
(`NoKeyExcluded`, `InclusionsPlain`; Finding 3 is the converse), and that no user
gives a number one of these names (`KeysAreStrings`): the code keeps an
inclusion's strings only, so one of numbers selects nothing. `MCQueryLanguage`
evaluates both for the run. `NormalForm` needs neither.

Argument. Opening a negated parenthesis inverts what is in it, and that puts new
parentheses around each conjunction: the expression to go on with is not a part
of the one before, and may be as deep. So the proof counts a rank: twice the
depth, less one if the expression has the shape that inversion makes. What
stands for a parenthesis has a lower rank than the expression around it
(`OpenedIsSimpler`), whence `Normalize` and `Is` exist (`RecursionExists`: a
recursive definition is a CHOOSE, which is of no use until something satisfies
it) and properties can be proved rank by rank (`RankInduction`); sets of
expressions take the place of an operator to be inducted on. The steps are that
inverting an expression exchanges true and false (`ExpressionInverted`), where
three values matter because an entity without the attribute satisfies neither a
term nor its negation; that one conjunction of each factor, combined, is true
when all factors are; and that lowering the case commutes with comparison. They
meet in `MeaningKept` and, for the form, `NormalFormOf`.

### Paging (`QueryEntitiesProofs`)

For all page sizes, limits, chunk sizes, row sizes, ids and block numbers, from
`CommittedStoreAssumption` and `QueryAssumption`: `TypeOK`, `NewestFirstOnce`,
`NothingMissed`, `NoNewcomers`, `SnapshotCoversAtBlock`. The inductive invariant:
what the request still has to show lies below everything shown (`Order`); the
cursor is the last id shown (`CursorLast`); what was shown or is about to be lies
below the id counter, which only grows (`Known`), so that newcomers stay above
(`Fresh`); and every id that has matched throughout is shown, or ahead, or below
the cursor (`Complete`). Page limits do not occur in it: where a page ends does
not matter as long as the cursor is the last id *appended*.

### Push iterator (`PushIteratorProofs`)

For any number of producers, batches and failures, from `PushAssumption`:
`TypeOK`, `AllButOneSettled`, `InOrderOnce`, `CompleteOnReturn`,
`ImplementsBatchStream`. The invariant adds that the batch in hand is the last one
taken from its producer (`HandIsLast`) and neither applied nor failed
(`SettledTaken`); so `Commit` delivers and `Fail` drops the next batch of its
stream, and a closed channel means that no stream has one left.

### Ids of overlapping batches (`IdAllocationProofs`)

For any set of batches and any bounds, from `AllocationAssumption`: `IdsUnique`,
`CountExact`. Until a restart after overlapping batches, the counter in memory is
above every id there is; while batches do not overlap, so are the counter in the
database, of what is in the database, and the one the open batch will write, of
what will be. Only that second part survives a restart.

### Bytes (`StoredBytesProofs`)

For every base above 33 (the largest prefix byte), every width of lengths and
numbers, all attributes, ids and records, from `EncodingAssumption`,
`CodecAssumption` (what is read of encoding/json: texts that come back determine
the attributes) and `StoredBytesAssumption` (numbers and ids have 64 bits, keys
of entities have one length):

- `AlwaysLaidOut`: the disk holds the counters, the stored bitmaps, and for each
  entity a pointer with its id and its record, under keys that never coincide;
- `LookupExact` and `CountExact`, if `NamesFit`;
- `ScanExact`, if `NamesFit` and `ValuesFit`: a scan yields the values of its
  attribute if all of them have offsets that fit, and else fails;
- `DecodeReverses`, if `NamesFit` and `TextsFit`;
- `ShowsWhatIsAsked`, if also `RecordsWhole` (a record has the system's
  attributes under their types) and `IncludesKnown`.

The hypotheses are what the code relies on and does not check: names and values
shorter than 65536 bytes, JSON texts shorter than 4 GiB, attributes as the event
follower writes them. A name whose length wraps can make two attributes share a
key, so without `NamesFit` nothing here holds. `MCStoredBytes` evaluates them
for the run.

The inductive invariant is `LaidOut`; TLC finds it true in all states of the
run. The work is in what it implies. Powers and big-endian numbers
are recursive functions over the positions of a string, and what holds of every
position is proved from the set of positions where it fails, which has no least
element (`LeastNatural`, `RangeInduction`, `IterationExists`): that is induction
over numbers, without an operator as a parameter. From there: numbers are read
back (`RoundTrip`) and compare as their first different byte (`FirstByteDecides`);
keys determine what they are the key of (`NamesDelimited`, `KeysDiffer`) and their
first byte the key space (`KeySpaces`).

A scan is the hard part. `prefixUpperBound` increments the last byte that is not
the highest one and leaves the bytes behind it, which have carried to 0, in place.
The bound is therefore longer than it need be, and a key that is *shorter* than
the prefix and larger at the first differing byte lies between the bounds without
having the prefix (`ScanFindsElse`). No such key is ever stored, because that
byte is in the length of the name, and a key with a larger length is longer
(`ScanOfName`): the scan is exact thanks to the length in front of the name, not
thanks to its bound.

### Only model-checked

`CatchesUp`, `EveryRequestAnswered`, `PushReturns`, `FollowerEnds`: liveness under
fairness is out of the prover's reach. Everything else that a passing run checks,
safety invariants, action properties and refinements, is a theorem.

## Findings

1. `follow_events.go:348` writes the last block number of a batch even if all
   its blocks were skipped. A source that starts over (`cmd/load-from-tar` run
   twice) moves the number back, and later batches are applied a second time.
   Run `follow_rewind`.
2. `query_rpc.go:224`: a page size of 0 makes the fill loop fetch empty chunks
   for ever once an entity matches. Run `query_zero`.
3. `normalize.go:428` rebuilds an inclusion on `$key`, `$owner` or `$creator`
   without its negation: `$owner not in (...)` selects those owners' entities.
   Run `language_notin`. `language_meaning` therefore asks such inclusions
   un-negated only.

Observations that the models contain, stated there as the exact limit of a
property rather than as a failing run:

- A number for an address, `$owner = 5`, is accepted by the grammar and
  dereferences a nil string (`normalize.go:400`): action `Panic`.
- An inclusion of numbers in a key or an address, `$owner in (5)`, is accepted,
  loses its numbers when it is normalised (`normalize.go:428`) and selects nothing;
  negated, it loses its negation as well: `KeysAreStrings`, `InclusionsPlain`.
- `$createdAtBlock > 1000`, an example of the repository's `README.md:77`, is not
  in the grammar (`language.go:31`, `:112`): action `Refuse`.
- A string attribute whose name and value with the key's header reach 65536 bytes
  is written and looked up correctly, but a scan of that attribute panics on its
  key, because the decoder's offsets are 16 bits wide (`encoding.go:99`): `Fits`
  in `ScanExact`.
- Content types of 65536 bytes and more lose the high bits of their length
  (`payload_ops.go:226`) and attributes that are not UTF-8 come back changed
  (`payload_ops.go:206`): `Survives` in `DecodeReverses`.
- With two calls of `FollowEvents` at once, the id counter on disk is the one of
  the batch that committed last (`pebblestore.go:235`), so a restart may hand out
  ids in use, and the entity count misses creates: `mode` in `IdsUnique` and
  `CountExact`.
- `BlockNumber` in a response is always 0 (`query_rpc.go:144`).

## Not modelled

Metrics, logging, flag parsing and printed output; the archive iterator (a
library); PebbleDB, roaring, participle and `path.Match` themselves; the hex and
JSON text of answers. Batches without blocks and operations with nil attribute
maps end the process with a panic; the models take their absence for granted.

## Plan

Done: all components of the table; every safety property proved. Left:
that the source `FollowEvents` assumes, which may repeat batches and leaves no
block out, is what a `PushIterator` and a restarted archive reader deliver;
`BatchStream` is what to start from.
