# A formal model of RustafariDB

TLA+ modules that model RustafariDB (the Rust workspace under `src/crates/`),
the configurations that check them with TLC on small instances, and proofs that
TLAPS checks for every value of the constants. Line references are to `src/`.

## 1. The system

| Part | State | Operations | Hard behaviour |
|---|---|---|---|
| **Catalog** (`rustafari-core/src/catalog.rs`) | namespaces, tables by name, tables by id, two counters | create, look up, list, drop, snapshot, reload | a second CREATE TABLE takes a name over; snapshots are in the order of a HashMap; identifiers after a reload |
| **Session** (`rustafari-executor/src/lib.rs`) | the catalog, the row store, the columnar store, the indexes, the columnar buffer, each under its own lock | one statement at a time per caller, any number of callers | a statement is many critical sections; a failing INSERT; DROP TABLE against everything else |
| **Row store** (`rustafari-storage/src/table_store.rs`) | rows by (table, row id), one counter | insert, get, scan, update, delete, drop | ranges over the pair of identifiers |
| **Columnar store** (`rustafari-storage/src/columnar.rs`) | chunks per table | insert a chunk, read, drop; sums over slices | rows in flight between buffer and chunk; the arithmetic of sums |
| **B-tree index** (`rustafari-index/src/btree.rs`) | row ids by encoded key | insert, get, range, delete | NULL keys; order of encoded keys; a range that is empty |
| **SQL front end** (`rustafari-sql`) | none | SQL text to a plan | which side of a comparison is the column |
| **Server** (`rustafari-server/src/main.rs`) | `rustafari-data/catalog.json` | start, statement and save, exit | crash between truncate and write; two processes, one file |
| **Collections** (`rustafari-document`) | none of their own: a shared TableStore | insert_one, find, delete_many; the filter language | delete_many finds first and deletes later |
| **Inverted index** (`rustafari-index/src/inverted.rs`) | row ids by term, terms by row id, two locks | insert, delete, search | the locks are taken one after the other |
| **Vector index** (`rustafari-index/src/vector.rs`) | a list of rows with their vectors | insert, k-NN search | sorted, then cut; ties |
| **Write-ahead log** (`rustafari-storage/src/wal.rs`) | the file, the BufWriter's buffer | open, append | a refused write or a crash in the middle of a frame |
| **Arrow conversion** (`rustafari-executor/src/columnar.rs`) | none | a chunk to a RecordBatch | the first value decides the type |
| **Pages**, **transactions**, **lake**, **bench** | see `PROJECT.json` | | not called by the rest |

How they interact: `rustafari-server` holds one `SessionState` behind an `Arc`,
gives each line of input to `SqlExecutor::execute`, which plans it and calls
`execute_plan`; after a statement that succeeded it writes the whole catalog to
`catalog.json`, and loads it when it starts. Only the catalog is persisted: rows,
chunks and indexes live in memory. The log, the vector index and the conversion to Arrow are
libraries the rest does not call yet. The fields of `SessionState` are `Arc<RwLock<..>>`
and `execute_plan` takes `&SessionState`: the code is written for callers on
several threads (the `serve` command's comment at `main.rs:86` announces one), and
each statement locks one structure after the other, never two at once.

What makes each part correct is listed under `hazards` in `PROJECT.json`, each at
the line where it bites and with the properties that guard it.

## 2. The modules

| Module | Kind | Uses | Models |
|---|---|---|---|
| `Catalog` | operators | | `catalog.rs` |
| `Engine` | state machine | `Catalog` | one process: threads, statements, critical sections |
| `Database` | abstract specification | | what a session promises one caller: tables are sets of rows, statements are single steps |
| `Solo` | refinement | `Engine`, `Database` | the mapping from `Engine` to `Database`, and the invariant of one caller |
| `CatalogFile` | state machine | `Catalog` | several processes and the file they share |
| `Values` | operators | | comparisons, keys and sums |
| `OneTable` | state machine | `Values` | how INSERTs fill a table's stores, and what is read back through the index and from a chunk |
| `Where` | operators | `OneTable` | the predicates made of WHERE, and the two ways to find the rows they describe |
| `Plan` | operators | `Where` | a SELECT to the nodes of a plan |
| `Query` | state machine | `Plan` | what the plans answer, one statement at a time |
| `InvertedIndex` | state machine | | the full-text index under concurrent callers |
| `VectorIndex` | state machine | | the vector index |
| `Wal` | state machine | | the log, its buffer, the disk and the process |
| `Collection` | state machine | | document collections on a shared row store |
| `DocFilter` | operators | `Values` | the filter language |
| `MC*` | instances for TLC | the above | |
| `*Proofs` | theorems | the above | see section 5 |

`Engine` and `OneTable`, with `Where` and `Query`, divide `execute_plan` between them. `Engine`
has its steps and their interleavings and knows of a row only its identifiers and the value of
its id column; the others have the contents of rows and take a statement in one step.

### Catalog

`CreateTable`, `DropTable`, `GetTable`, `Snapshots`, `LoadSnapshot` and so on are the
methods of the same names. Maps are functions; a schema is an opaque value. A
snapshot is two lists, written in the order of a HashMap, so `Snapshots(cat)` is the set of
all orders of its namespaces and of its tables; `LoadSnapshot` inserts the entries of two lists
one after the other, whatever they are (`MapOf`: the last one of a key counts).
`CatalogOK` says what holds of every catalog the methods make: types, names
that resolve, maps that agree, no identifier in use at or above the counters. `EntriesOK` is
what is left of it in a catalog loaded from lists that no `to_snapshot` has made.

### Engine

A thread's statement is a sequence of critical sections; each is an action, and
threads interleave between them.

| Statement | Actions, in order | Code |
|---|---|---|
| CREATE TABLE | `CreateEntry`, `RegisterIndex` if there is an id column | `lib.rs:322-338` |
| DROP TABLE | `BeginDrop` (lookup), `DropRows`, `DropChunks`, `DropIndex`, `DropEntry` | `lib.rs:339-349` |
| INSERT | `BeginInsert` (lookup), then for each row `StoreRow`, `GetIndex`, `IndexRow` or `RefuseKey`, and `PushRow`, or `PushRowAndTake` and `PublishFull` | `lib.rs:303-321`, `80-107` |
| SELECT with aggregates | `BeginAggregate`, `FlushBuffer`, `PublishFlushed`, `ReadChunks`, and without chunks `ScanAgain`, `Scan` | `lib.rs:232-247`, `49-77` |
| SELECT .. WHERE id = v | `BeginIdSelect`, `FindIndex`, `ReadIndex`, `FetchRow`*, or `ScanAgain`, `Scan` | `lib.rs:154-201` |
| SELECT | `BeginScan`, `Scan` | `lib.rs:146-153` |

State: `catalog`, `next_row_id`, `data`, `index_store`, `buffer`, `chunks` are the
shared fields of the code, all tables together. `index` holds the entries of all
BTreeIndex objects, also those DROP TABLE unlinked, which a thread may still hold
through its Arc. `pc`, `target`, `meta`, `values`, `row`, `pushed`, `taken`, `sought`,
`row_ids`, `got` are each thread's local variables. `committed`, `expected` and
`cleared` are history: the rows of INSERTs that returned Ok, those of them a read
must return, and the tables whose rows a DROP TABLE has removed. A row is
`[table, id, key]`: of its values the model keeps the one of the id column, which may
be `NULL` (refused by the index) or `MISSING` (a row shorter than its schema).

Two abstractions: `TableStore::insert`'s counter and its locked insert are one step
(the identifier is used nowhere in between), and the further lookups a Project, an
OrderBy or a GroupBy makes when its input has been computed (`lib.rs:208`, `254`,
`283`) are left out, as is DESCRIBE: they read the catalog once more and change
nothing.

### Database and Solo

`Database` is what a caller who is alone with a session may think it is: `contents` has the
rows of each table whose INSERT returned Ok, `leftover` those an INSERT stored before it was
refused, and `Create`, `Drop`, `Insert`, `InsertRefused`, `Select` and `Aggregate` take one
step each. It has no identifiers of tables, no index, no buffer and no chunks. The one thing
it cannot leave out is what a refused INSERT leaves: a SELECT finds those rows, an aggregate
counts any part of them (on the path over chunks those that were pushed, on the other all).

`Solo` is the refinement mapping, `Statements == INSTANCE Database WITH ...`. A name stands
for a table when the catalog has it and no DROP TABLE is past its first step (`Visible`);
`contents` are the committed rows under the table's identifier, without it; `leftover` are the
stored rows that are neither committed nor of the INSERT that is running; `next` is the row
counter at the start of the running INSERT. A statement takes effect at one of its steps:

| Statement | takes effect with |
|---|---|
| CREATE TABLE | `CreateEntry`, though its index is registered one step later |
| DROP TABLE | `DropRows`, though its chunks, its index and its name go later |
| INSERT | the step that pushes its last row, or `RefuseKey` |
| SELECT | the step that has its reply: `FetchDone`, `Scan` or `ReadChunks` |

All other steps are stutters. `Atomic == Statements!Spec` is the property.

### CatalogFile

Each process is `down`, `ready`, about to save, or writing. `Launch` loads the file,
`Execute` runs a statement that succeeds, `ExecuteFails` one that does not (or a line of the
shell that is no statement), `Truncate` is `File::create`, `Write` is the rest of `save_catalog`; `SaveRefused` and `WriteFails`
are its errors, `Crash` can come at any point. `file` is the snapshot in the file,
`Absent`, or `Torn`: anything that does not parse. `saved`, `overlapped` and `wounded` are history
of the time when no two processes were up at once.

`to_writer_pretty` writes a `File` token by token, without a buffer, at its own process's offset
into the file. As long as no one else has had the file open since it was truncated (`alone`) that
shows in nothing: the file does not parse until the last token is written. Otherwise the bytes
of two snapshots are in it, and `WriteSome` says what may be read between two tokens, or remain
when a process ends: text that does not parse, or one that does (`Garbled`). A text that parses is
some list of namespaces and some list of tables, and of these the model assumes nothing
(`Mixtures`): two names with one identifier, tables without a namespace, one identifier twice. A
process that starts while another writes may read old bytes and new ones as well. How often a
mixture parses (`MaxMixtures`), how long its lists are (`MixedLength`) and how large their
identifiers (`MaxMixedId`) are bounds; identifiers of 2^64 - 1, above which no counter goes, are
left out.

### Values, OneTable, Where, Plan and Query

`Values` has the values the executor tells apart (integers up to `MaxInt`, which stands
for `i64::MAX`; floats in halves; strings of one or two letters; NULL), `compare` and its
incomparable pairs, the byte order of index keys, and both ways of computing an
aggregate: over rows (`aggregate_over_rows`) and over chunks with saturating slices
(`aggregate_over_chunks`, `ColumnChunk`). Integers in keys are below 2^61, where the
cast to an unsigned key keeps their order; the planner refuses negative literals
(`plan.rs:146`), so there are none.

`OneTable` keeps the rows of one table, its index, buffer and chunks. `Insert` is the
translation of an INSERT (columns and literals, `InsertToPlan`), the row store, the index and
`Push`, which is `push_columnar_row`; `Flush` is `flush_columnar_buffer`. `LookUp` is a lookup
or a range of the index with the rows behind the identifiers, `Slices` the columns of chunks,
`RecordBatch` what `chunk_to_record_batch` makes of a chunk. The order in which the index
returns a range is that of the map: by key, and of one key by identifier (`EntryBefore`).

`Where` is `expr_to_filter` (`ExprToFilter`), which makes a predicate of WHERE or refuses it,
`eval_predicate` (`EvalPredicate`), and `predicate_to_id_lookup` (`IdLookup`), which has the
executor ask the index and not evaluate the predicate at all; `Filter` has the three ways of
finding rows (by id, by a range of ids, by a scan). Expressions have expressions inside:
`Conditions` is a set of them with all that are inside of them, and `Depth` says how deep each is,
at most `MaxDepth`, the recursion limit of the SQL parser. `Satisfies` is the reference: what SQL
says of a row and a WHERE.

`Plan` is `query_to_plan`: the predicate of WHERE, the select list to a Project, an Aggregate or a
GroupBy, ORDER BY, LIMIT and OFFSET. A plan is the sequence of its nodes, innermost first.
`Query` adds SELECTs and the reply of the last statement, and `Execute` applies the nodes of a plan
one after the other as the recursion of `execute_plan` does. Its actions are `InsertRow`, `Select` and
`Refuse`, a text the planner rejects. `InsertRow` takes `OneTable`'s step `Insert`, `Select` the
step `Flush` if it aggregates and otherwise none, `Refuse` none, so `Query` is `OneTable` with a
history and what is proved of `TableSpec` holds of it (`SessionFillsTable`). `OrderBy` is the
stable sort with the code's comparator: a row comes before another if the comparator says so, or if
it says neither and the row came before. `Listed` makes a list of a set in such an order, wherever
the code sorts or has a sorted map; `Those` is every `filter` and `filter_map`. `SqlAnswers` and
`SqlAggregate` are the reference: what SQL says of the rows, from the text of the query alone,
without plan, index or chunks: the columns come in the order of the select list, and a row has
NULL in the columns it is too short for. The code leaves such values out of its replies, so
`SelectsMatch` and `GroupsMatch` are about rows that have the columns they are asked for (`Gives`,
`HasAll`); section 3 shows what happens without. `SelectsFit`, `GroupsFit` and `AggregatesFit` say which statements
that reference is about, beyond what `ConditionsFit` and `ColumnsTyped` say.

### InvertedIndex

An insert takes the index's lock once for each occurrence of a term (`PushTerm`) and then
that of `doc_terms` (`RecordTerms`); a delete takes the terms (`TakeTerms`) and then purges
the lists under one lock (`PurgeTerms`). A posting list is the number of times each row is
in it, since nothing depends on its order; a text is what `tokenize` makes of it. No caller
of the index exists in the workspace, so the model states what it needs of one: with
`Exclusive`, calls on one row exclude each other and a row is deleted before it is inserted
again. Calls on different rows interleave freely.

### VectorIndex

One list under one lock, so a call is a step: `InsertVector`, and `Nearest` (the method `search`)
as an operator on the list. Coordinates are integers and distances are compared by their squares,
which order as their roots do. `SortByDistance` is the contract of `sort_by`, a stable sort.
`MCSearch` composes the two search indexes side by side.

### Wal

`append` is two `write_all` and a flush on a `BufWriter<File>`; what a BufWriter does is in the
model, from its contract, since what `append` promises depends on it. A record is a length and
some pieces, the units that reach the file as a whole; the buffer holds `Capacity` units. The
length is `bytes.len() as u32`: of a record of `LengthSpace` pieces (4 GiB) or more it says the
rest of the division (`Says`).
`BeginAppend` is the call; `TakeRest` is a write_all there is room for; `DrainBuffer` and
`PassRest` are single writes of the system, of the buffer or of a record too large for it, each
taking some of the units or all, and once the BufWriter has begun to write its buffer out it goes
on until that is empty (`draining`); `WriteError` is a write the system refuses, after which append
returns the error and the buffer keeps what it had; `ReturnOk` is the Ok. `Close` and `Closed`
are the drop of the writer, `Crash` the end of the process at any point, and `Open` appends to
what is there. `records` and `acked` are history, as is `torn`: some frame has lost its end.
Nothing in the workspace reads a log; `Recoverable` is the reader its frames are made for.

### Collection and DocFilter

`Collection` has `insert_one`, `find` and `delete_many` of any number of threads on tables
that share a TableStore, and the DROP TABLE of a SQL session that shares it too.
`delete_many` is `FindToDelete`, then `DeleteRow` for each identifier found, in order, then
`ReturnCount`. `claims`, `dropped` and `doomed` are history.

`DocFilter` is the language of the filters, `filter_from_json` followed by `matches_filter`. A
filter in JSON is a sequence of entries whose order means nothing (serde_json keeps keys
sorted). Filters have filters inside; `Jsons` is a set of filters with all that are inside of
them, and `Nesting` says how deep each goes, at most `MaxNesting`, the recursion limit of the JSON
parser. `Matching` is the recursion of `matches_filter`, a function that gives for each of
`Jsons` the documents it matches, one `ConditionMatches` per condition. `Meant` is the reference:
what the filter says, entry by entry, without the parser's intermediate form; numbers compare in
it as numbers, an integer with a float too, as in MongoDB, where `cmp_match` finds them different.

## 3. What the runs check

| Run | Instance | Shows |
|---|---|---|
| `shell` | 1 thread, 2 names, 2 schemas, tables up to identifier 2, 3 rows, ids 1, 2, NULL and missing, chunks of 2, new or reloaded catalog | `TypeOK`, `ReadsSeeCommitted`, `ReadsSound`, `IndexComplete`, `DropLeavesNothing`, `DropsItsOwnTable`, `Atomic` |
| `drop` | 2 threads, 2 tables of one name, 2 rows | `CommittedRowsKept`, `NoPhantomRows`, `IndexSound` |
| `flush` | 2 threads, 1 table, 3 rows, chunks of 2, fair | `ColumnarExactlyOnce`, `BufferBelowLimit`, `StatementsReturn`, `TakenRowsPublished`, `ReadsMissOnlyInFlight` |
| `sessions` | 2 processes, 2 names, 2 tables; one mixture of two snapshots that parses, of up to 2 namespaces and 2 tables | `TypeOK`, `ReloadKeepsCatalog` |
| `typed` | 3 rows by INSERTs of 6 kinds, with columns named or not, short, with NULL, refused; chunks of 2, with and without index, some thirty SELECTs, WHEREs of up to three levels | `TypeOK`, `CopiesExact`, `WhereMatches`, `InsertsMatch`, `BatchesMatch`, `SelectsMatch`, `AggregatesMatch`, `GroupsMatch` |
| `search` | 2 threads, 3 rows, 2 terms, texts of up to 2 terms; 2 entries of 2 vectors, and one of another dimension | `TypeOK`, `CountInvariant`, `NothingStale`, `NothingLost`, `SearchRanks`, `NearestFound` |
| `log` | 3 records of 1, 3 or 4 pieces, a buffer of 3 units, lengths that say up to 3, fair | `TypeOK`, `AckedStays`, `IntactIsRecoverable`, `AppendReturns` |
| `delete` | 2 threads, 2 adjacent tables, 3 rows of an integer, a float and a string, some of them NULL; 2 filters to delete by, a few hundred to match | `TypeOK`, `CountedOnce`, `NoneLeft`, `OnlyMatchingDeleted`, `FindMeansFilter` |

The inductive invariants of section 5 were checked on the same instances before they were proved;
the runs keep what follows from them.

Why the bounds are enough for the cases to happen: three rows with chunks of two are a
chunk and a rest, so a push that fills the buffer, an aggregate that flushes a part of it
and both at once all occur. Two tables of one name give a shadowed table and a DROP that
finds another table than it looked up. Two threads give every pair of critical sections
next to each other. Rows of two lists, or two adjacent tables, show whether an operation
reaches beyond its own. A record of 1 piece fits the log's buffer with its length, one of 3 pieces is
as large as the buffer and goes past it, one of 4 has a length that says 0, and three records are one before, one during and one
after a failure. `shell` is where reads are exact: with one thread every read
returns exactly the committed rows. With two it need not: `inflight` shows one
that misses rows, and `ReadsMissOnlyInFlight` of `flush` says that there is no other way to miss
one, but for a DROP TABLE or a name that leads to another table by the time of the scan.
All bounds on counters (`MaxTables`, `MaxRows`) are guards of actions and are named as
bounds where they are declared.

Runs that end in a violation, each a disagreement between the code and what the
repository says of it (`findings` in `PROJECT.json` quotes the lines):

| Run | Property | What happens |
|---|---|---|
| `atomic` | `InsertIsAtomic` | an INSERT refused at a NULL id leaves its row in the row store |
| `inflight` | `ReadsSeeCommitted`, 2 threads | an aggregate runs between another thread's take and its `insert_chunk` and misses committed rows |
| `crash` | `SavedOutlivesCrash` | a crash after `File::create` and before the write loses the saved catalog |
| `where` | `AggregatesMatch` | `SELECT COUNT(*) .. WHERE` counts every row of the table once it has a chunk, and the flush before an aggregate makes one |

Fairness: `FairSpec` of `Engine` is weak fairness of `Step(t)` for each thread. No critical
section waits for another statement and no lock is held between them, so a thread
that has begun is always able to go on; weak fairness says that the operating system
lets it. Beginning a statement is not fair: nobody has to send one. `FairSpec` of `Wal` is
weak fairness of `Working`, what the thread inside `append` does next: every write of the
system ends, with some bytes written or with an error. That it never ends in an endless
sequence of short writes needs no more, since each takes at least one unit. Opening, appending,
closing and crashing are not fair.

### Preconditions of the passing runs, and what happens without them

The passing runs of `Query`, `InvertedIndex`, `Collection` and `Wal` leave out inputs, or state
conditions, without which the code departs from its reference. Each was seen to violate the property named; the
change to the configuration that shows it is in the first two columns.

| Configuration | Change | Violated | Because |
|---|---|---|---|
| `MCQuery_where` | `Inserts <- TwoTypes`, `Queries <- SumOfTwoTypes` | `AggregatesMatch` | a column's type is not enforced; over chunks, SUM of a column that has a float leaves its integers out (`lib.rs:567`) |
| | `Inserts <- AtMax`, `Queries <- MinAtMax` | `AggregatesMatch` | MIN starts from `i64::MAX` and takes an unchanged start for "no value" (`lib.rs:624`) |
| | `Queries <- OtherThanOne`, check `SelectsMatch` | `SelectsMatch` | `v <> 1` keeps the rows whose v is NULL (`lib.rs:412`) |
| | `Queries <- LiteralOnTheLeft`, `SelectsMatch` | `SelectsMatch` | `2 > id` is planned as `id > 2` (`plan.rs:199`) |
| | `Queries <- OrderOfProjection`, `SelectsMatch` | `SelectsMatch` | ORDER BY applies the table's column positions to projected rows (`lib.rs:283`) |
| | `Queries <- AliasedColumn`, `SelectsMatch` | `SelectsMatch` | `id AS x` is left out of the projection (`plan.rs:278`) |
| | `Queries <- EmptyRange`, `SelectsMatch` | `SelectsMatch` | `id >= 2 AND id <= 1` makes `BTreeMap::range` panic (`btree.rs:87`) |
| | `Inserts <- TooLarge`, `InsertsMatch` | `InsertsMatch` | an integer literal that does not fit an i64 is stored as 0 (`plan.rs:129`) |
| | `Inserts <- OtherColumns`, `InsertsMatch` | `InsertsMatch` | the columns an INSERT names are ignored (`lib.rs:303`) |
| `MCQuery_typed` | drop `has(1) =>` from `BatchesMatch` | `BatchesMatch` | a NULL in the first row makes its column an Arrow array of NULLs (`columnar.rs:66` of the executor) |
| | `Inserts <- TwoTypes` | `WhereMatches` | an integer and a float do not compare: `v > 1` misses a row whose v is 2.5 (`lib.rs:448`) |
| | drop the condition on `Gives` from `SelectsMatch` | `SelectsMatch` | a row too short for a column has no value in its place, and the next ones move up: after `INSERT INTO t (id) VALUES (2)`, `SELECT v, id` answers (2) (`lib.rs:214`); `SELECT *` gives the short row |
| | drop the condition on `HasAll` from `GroupsMatch` | `GroupsMatch` | the same in the key of a group: rows (2) and (2, NULL) are two groups of id, v (`lib.rs:262`) |
| `MCQuery_where` | `Queries <- AggregateFirst`, `GroupsMatch` | `GroupsMatch` | `SELECT COUNT(*), v .. GROUP BY v` answers with v first (`lib.rs:268`) |
| `MCCatalogFile_sessions` | drop `mixtures = 0 =>` from `TypeOK` | `TypeOK` | two processes that save at once can leave a file that parses and is not well formed: two names with one identifier, or a table without a namespace (`main.rs:55-56`) |
| | check `DroppedStaysDropped` | `DroppedStaysDropped` | after CREATE, CREATE and DROP of one name the first table is still in `tables_by_id`, and a restart brings it back (`catalog.rs:144`) |
| `Wal_log` | check `Recoverable` | `Recoverable` | a record the disk refuses leaves its length behind, or a crash half a record: what is appended after it is whole, but no reader of lengths gets there (`wal.rs:55`) |
| | drop `Representable` from `IntactIsRecoverable` | `IntactIsRecoverable` | the length of a record of 4 GiB or more is cut to 32 bits (`wal.rs:53`), and no reader of lengths gets past it |
| `MCSearch_search` | drop the condition that no text repeats a term from `SearchRanks` | `SearchRanks` | `inverted.rs:70` says that results are ordered by the number of matching terms, and the code counts their occurrences (`inverted.rs:81`): in a search for (lion, zebra), texts (lion, lion) and (lion, zebra) come in any order |
| | `Exclusive = FALSE` | `NothingStale` | a second insert of a row forgets the terms of the first, which stay in the lists |
| | `Exclusive = FALSE`, only `NothingLost` | `NothingLost` | a delete that has taken a row's terms purges the lists after the row was inserted again |
| `MCCollection_delete` | add `<<FieldOps("age", {OpIs("$gt", IntValue(1)), OpIs("$lt", IntValue(3))})>>` to `Samples`, drop `SamplesAreFit` | `FindMeansFilter` | of two operators on one field the parser keeps one (`filter.rs:75`), which `SamplesAreFit` excludes, though `lib.rs:4` of the crate calls the language compatible with MongoDB's |
| | add `Comparing("rate", IntValue(1))` to `Samples` and its depth, drop `NumbersOfOneType` from `SamplesAreFit` | `FindMeansFilter` | an integer and a float are neither equal nor in order (`filter.rs:189`), where MongoDB compares them as numbers |

(`MCQuery_where` uses `Inserts <- Typed` unless said otherwise. `MCQuery` assumes `StatementsFit`,
the conditions the theorems of section 5 state, of the statements it is given; a change that is
against one of them is seen once that ASSUME is dropped.) Two texts differ from
the code without a property to show it: `btree.rs:78` says the range is `[start, end)` and
`btree.rs:84` includes the end, which is what WHERE needs; `inverted.rs:69` speaks of all terms
(AND) or any (OR), and the repository's `README.md:88` of phrases too, where `search` has only the
search for any term, which is the one `SearchRanks` describes. Also outside the reference are documents
that lack a field of the filter: no comparison matches them, `$ne` and `$nin` included.

## 4. Faults

Every property is broken by at least one plausible fault of the code, an operator
marked "Fault for the runs" just before the definition it would replace; `mutants` in
`PROJECT.json` pairs them with runs and properties.

## 5. What is proved

TLAPS proves the following for every number of threads, tables, rows, keys, terms and
documents, every chunk size, and every value of the bounds. The theorems assume what the
modules' ASSUMEs say of the constants, no more: that sentinels such as `NULL` and `NONE` are
not ordinary values, that sets have the right elements, that the catalogs a session starts
with satisfy `CatalogOK` (`LoadSnapshotOK` proves it of all that `load_catalog` returns), and,
for what is said of one caller, that there is one.

**CatalogProofs.** `CreateTable` and `DropTable` keep `CatalogOK`, and `CreateTable` gives
an identifier no table had. These are the lemmas `Engine`'s type correctness rests on.

**EngineProofs.** `TypeCorrect` is type correctness, with the catalog's well-formedness.
`StorageCorrect` proves `StorageInvariant`, from which `ExactlyOnce`, `CommittedKept`,
`NoPhantom` and `IndexesSound` follow. None of the four is inductive alone:

 - a row an INSERT is about to push must be on neither side of the columnar store and in
   no other thread's hands, or the push would double it: `HeldRowIsNew`, which needs
   `ColumnarRowsAreOld` (identifiers below the counter) for the row just numbered;
 - rows taken from the buffer must belong to the thread's table and only exist while it
   publishes, or DROP TABLE could clear the wrong ones: `TakenRowsAreOwned`,
   `ChunksAreOfOneTable`;
 - a row is committed only when the INSERT returns, so what is kept of it must hold from
   its push on: `PushedRowsKept`;
 - DROP TABLE removes chunks only after rows: `ChunksGoAfterRows`, without which a
   removed chunk would break `CommittedRowsKept`.

Each action of `Next` has a step of its own in `StorageNext`, and `QuietStep` serves those
that touch none of the stores. `BuffersBelowLimit` adds that the buffer of a table is finite
and has fewer rows than a chunk, by the cardinality theorems of the library.

The last part is `ReadsAreSound`, for any number of threads: what a read has is of the table it
looked up, has the key it asked for, and is or was stored. The index hands out identifiers and
the rows are fetched later, so the invariant (`ReadInvariant`) says that an identifier stands
for one row wherever it occurs: in the row store, in an index, in a thread's hands
(`RowIdsUnique`). `MissedRowsAreInFlight` is its counterpart, what a read over chunks or a scan may
miss: a row committed before the read began is in the reply, or in the hands of another thread
that took it from the buffer, or its table is gone or another has its name (`ExpectedFlushed`: a
flush moves all rows a read expects from the buffer to the chunks or to this thread's hands).

Of **one caller**, the second half of EngineProofs: it assumes `Alone`, that `Threads` has one element, and nothing
else of the constants. `SoloInvariant` has seven parts: identifiers in use are below the
catalog's counter (`TablesUsed`), what a statement looked up is still what the catalog has
(`MetaCurrent`), indexes belong to tables with an id column (`IndexesHaveTables`), all but the
row on its way are indexed (`RowsIndexed`), of a dropped table there is only what the DROP has
not come to (`ClearedGone`), the rows of the running INSERT are the first of its batch, numbered
one after the other (`RunningRows`), and a read has come as far as its step says
(`ReadsOnTrack`). From it follow `IndexIsComplete`, `ReadsAreComplete`, `DropIsComplete` and
`DropsOwnTable`. `StatementsAreAtomic` is the refinement: the initial states map to initial
states, each of the steps named in section 2 maps to its statement's step (`CreateIsAtomic`,
`DropIsAtomic`, `InsertAtOnce`, `RefusalIsAtomic`, `SelectAtOnce`, `AggregateAtOnce`,
`ReplyIsDone`), and every other step leaves the mapped variables as they are
(`OthersAreSilent`).

**CatalogFileProofs.** For any number of processes: `LoadSnapshotOK`, a catalog written and
read again, in whatever order the HashMap gave its entries, satisfies `CatalogOK` and has every
namespace and table it had (`MapOfEntries`: a list of the entries of a map, in any order, makes the
map); `CatalogsAreOK`, so every catalog in any process is well formed, whatever crashed, failed or
overlapped, until a mixture of two snapshots parses, and of a catalog loaded from any lists at
all it still has `EntriesOK` (`LoadedEntries`), which statements keep (`CreateTableEntries`,
`DropTableEntries` of CatalogProofs); `ReloadKeeps`, processes that do not overlap and are not
cut short find what they left: a mixture needs an overlap, and `alone` holds of every writer while
there has been none. The counters after a reload are maxima of finite sets of
identifiers; that a set of numbers below a bound has a maximum is `MaxOfBounded`, from the
library's theorem that well-founded sets have minima, and that a list has one `MaxOfList`.

**SearchProofs.** From `Exclusive`: while a call works on a row, what the lists have
of it is exactly what an insert has pushed so far (`HalfInserted`), or at most what a
delete has taken (`HalfDeleted`); with that `NothingStale` and `NothingLost` are inductive
(`IndexCorrect`, `Fresh`, `Complete`). Counting instead of asking whether (`HalfCounted`,
`CountsExact`) gives `CountsCorrect`: a row is in a list as often as its text has the term. A search
counts entries of lists; `EntriesAreMatches` is a bijection between them and the pairs of places of
the query and the text with the same term, of which there are as many as matching terms if
neither repeats one (`OccurrencesMatch`), and `SearchCorrect` follows. Of the
vector index, `NearestCorrect`: entries can be listed by distance and insertion (`OrderedList`), in
any such list an entry is at its rank (`PlaceIsRank`), and cutting it keeps the ranks up to
`top_k`. That a distance is a number (`DistanceType`) needs that the sum over the coordinates, a
recursive function, exists; its proof takes the smallest length for which it would not
(`SumsExist`), as all inductions here do.

**OneTableProofs.** For every schema, set of INSERTs and chunk size: `CopiesCorrect`, that index
and chunks are exact copies of the row store. Chunks and buffer have the rows as a list of
lists; `CopiesExact` says that there is a map from its places to the rows that is onto those not
refused, keeps the order and the contents, and the proof gives that map: a push adds one place
after all others (`PushAddsPlace`), a flush renames none (`FlushKeepsPlaces`: the buffer is
numbered as the chunk it becomes). `WrittenIsStored` needs that INSERTs name columns in the order
of the schema (`ColumnsInOrder`) and that integers fit (`LiteralsFit`), `BatchesCorrect` that a
column has values of one type (`ColumnsTyped`).

`WhereCorrect` is about every WHERE, nested to any depth, and every row that INSERTs can have
stored. Of the expressions whose predicate would disagree with them, one is the least deep, so its
parts agree; but then so does it, whether it is a comparison (`CompareAgrees`), an AND or an OR
(`WhereAgrees`). That the three recursions over expressions and predicates have a result at all is
shown in the same way (`FiltersExist`, `TruthExists`; a predicate is as deep as the least deep
expression it is made of, `RankIsLeast`). A lookup does not evaluate the predicate it stands for.
What it returns follows from `CopiesCorrect`, the order of keys (`KeysInOrder`) and the order in
which a range lists them: the rows with ids in the range, once each and by id (`LookUpFinds`);
and these are the rows the predicate holds of (`LookUpStands`). The hypothesis is `ConditionsFit`: a
comparison has its column on the left unless it is an equality, its literal is not NULL and of the
type of the column's values, `<>` is not asked of NULL, and no range ends before it begins. The
table of section 3 shows what happens without each of these; `StatementsFit` has TLC evaluate
all hypotheses, also those of QueryProofs, on the statements of the run `typed`. `SessionFillsTable` carries all of this over
from the table to the session with SELECTs.

**QueryProofs.** What SELECTs answer, for all of them and after any statements: `SelectsCorrect`,
`GroupsCorrect` and `AggregatesCorrect`. The reply is a value, so it would be enough to show each
right when it is given; as an invariant it says more, and `Replied` is what makes it one: the reply
is what the plan gives in the present state, too, since a SELECT leaves the rows as they are and an
aggregate has emptied the buffer before it reads (`RepliesStand`). From there each proof follows the
plan from the inside out. The nodes made of WHERE list the rows it describes, each once
(`FilterNodesList`, from `WhereCorrect`); a node above has the rest of the plan as its input
(`ExecuteNode`). Then

 - the projection makes of each row the output of the SELECT (`RowsProjected`), ORDER BY keeps the
   rows and puts them in an order of SQL (`RowsSorted`), and LIMIT cuts (`RowsLimited`). The
   comparator is an order by several keys, each in its own direction, and strict
   (`PrecedesStrictly`); made stable it is a strict order of places (`StableOrder`), and a finite
   set with a strict order is listed in exactly one way (`OrderedList`);
 - the groups are the keys of the rows, listed by their text (`KeysListed`), and those of the rows
   that have a key are listed again (`PartListed`); an aggregate of listed rows does not depend on
   their order (`OverListing`, `AggregateRowsIs`);
 - an aggregate over chunks adds up what each slice gives. `RowsInChunks` says that the rows are the
   chunks one after the other and then the buffer; it is inductive for statements whose ids are not
   NULL, as a refused INSERT stores a row and pushes none. The sum of the sums of the parts is then
   that of the rows (`SumOfParts`), also where it saturates, once in a slice or over the slices
   (`CappedSums`), and the extremes are those of the unions (`OverChunksIs`).

Sums are recursive functions: that they exist is shown once (`FoldExists`), and a sum is whatever
has the right first value and the right steps (`FoldUnique`). The hypotheses leave out the
departures of section 3, as the properties leave out rows that are too short: ORDER BY sorts whole rows by columns that always have a value, select lists
are plain columns or a star, with GROUP BY the grouped columns and then aggregates, an aggregate other than COUNT is of numbers, a SELECT of aggregates
has no WHERE, averages do not saturate, and no minimum is asked of a column that has `i64::MAX`.

**CollectionProofs.** `CollectionInvariant` says that the identifiers a `delete_many` has
still to delete name rows that match its filter (`FoundRowsMatch`; identifiers are never
given twice, which `TypeCorrect` has) and include what is left of the rows that matched at
the start (`DoomedCovered`). From it: `CountsAddUp`, `AllDeleted`, and the action property
`NothingElseDeleted`. None of these depends on what a filter matches; that is `FindsWhatIsMeant`: of
all filters, nested to any depth, and all documents, `find` takes what the JSON describes. An entry
for a field is compared as it says (`FieldCorrect`, operator by operator in `OperatorMeans`), and of
the filters that would be wrong one is nested least deeply, so all inside of it are right
(`MatchingIsMeant`). That the two recursions have a result at all is shown the same way
(`VerdictsExist`). The hypotheses are `OneOperatorEach`, since the parser keeps one operator of a
field, `FieldsPresent`, since no comparison matches a missing field, and `NumbersOfOneType`, since
an integer and a float never compare; among numbers of one type being the same number is being
the same value (`SameIsEqual`). `SamplesAreFit` has TLC evaluate them on the filters of the run.

**WalProofs.** For records of any sizes, those of 4 GiB and more included, and a buffer of any size: `TypeCorrect`, and
`AckedIsDurable`, that a record whose append returned Ok stays in the file in one piece. The
file itself says nothing of a record on its way, so the invariant is about the file, the buffer
and what append has still to hand over, one after the other (`Stream`): while append runs that
ends with the frame of its record (`FrameOnItsWay`), since a step of it only moves units from
one part to the part before (`StreamStays`). On return the last two parts are empty, so the
frame is in the file; and the file only grows (`FileGrows`, `WholeStays`). `IntactCanBeRead` is about readers: while no
frame has lost its end and every length fits its u32 (`Representable`), the file is whole frames one after the other and perhaps the beginning
of one (`IntactFramed`, `LengthWhole`), so whoever reads a length and then that much comes to
every acknowledged record.

**Only model-checked**: liveness (`StatementsReturn`, `TakenRowsPublished`, `AppendReturns`),
which is out of the prover's reach. Every invariant and action property of the passing runs is
stated by a theorem.

## 6. What is not modelled

 - The **parser** (sqlparser), the shell's line editing, and of the planner: **joins** and
   **DISTINCT**, which it ignores; statements after the first of a text, which `sql_to_plan`
   ignores, as it does IF EXISTS and all but the first name of a DROP; the translation of CREATE
   and DROP, which is one to one but for types it does not know, which become text. Nothing
   enforces a column's type. Columns of Booleans, dates, bytes, arrays and vectors.
 - **Pages**: a buffer nothing uses. **Transactions**: types without an operation. **lake**:
   calls of the parquet library and a placeholder. **bench**: a load generator.
 - `TableStore::update` and `BTreeIndex::delete` have no caller; DESCRIBE, SHOW TABLES and SHOW
   DATABASES read the catalog and change nothing.
 - DROP TABLE leaves the table's entry in `columnar_buffer`, a leak that `Engine` has and
   nothing can observe, since `IdsBelowCounters` gives no identifier twice in a session.
 - Comparisons the code calls equal because their values cannot be compared (`lib.rs:443`): as
   the order of a sort they are not transitive, and what `sort_by` does then is not specified.
 - What rounding and NaN do to sums, averages and distances.

## 7. Plan

Done, in this order: `Catalog`, `Engine`, `CatalogFile` and their runs; type correctness and
`StorageInvariant`; `Values`, `Where`, `Plan`, `Query`; `InvertedIndex`, `Collection`, `DocFilter` and
their proofs; `Database` and `Solo` with the refinement and its proof; the proofs of
`CatalogFile`, of reads and of the log; `Wal`, `VectorIndex`, INSERT and Arrow; the proofs of
`OneTable`, of searches, of readers of the log, of filters and of WHERE; the proofs of what
SELECT, GROUP BY and the aggregates answer. What could follow:

1. When the program opens a log, `Engine` with `Wal` below it, and recovery from it.
2. `CatalogFile` below `Engine`: rows do not outlive the process, so today it would show that
   a restarted session has empty tables without indexes, which `Engine` starts from.
3. Transactions and pages, when they have operations that something uses.
