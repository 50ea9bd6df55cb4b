# Vectoria in TLA+

A verification development for [vectoria](https://github.com/gleicon/vectoria), a product search
engine in Rust: hybrid search (BM25 and vectors), ranking signals, admin overrides, a multi-tenant
HTTP server, a command line and a WebAssembly build. Source paths below are relative to the
repository. `mod.rs` alone means `vectoria-core/src/search/mod.rs`.

The development says what is true of the program when calls overlap, fail half way or are cut off by
a restart. There is hardly a lock in the program that spans two stores; almost every interesting
question is therefore of the form "which relations between two stores survive every order of the
single writes".

## 1. The system: an inventory

| Component | State | Operations | Hard behaviour | What makes it correct |
|---|---|---|---|---|
| Catalogue of one `SearchEngine` (`mod.rs`, `storage/`, `vector/`) | product table, vector index, full-text index (in the storage); suggestions, spelling and gazetteer (in memory); model of the embedding provider | `index`, `delete`, `reindex_all` | writes to the stores one await after the other without a lock; failures in between; dropped handlers; restarts, with another model too; pages listed earlier | the stores agree about a product once a call has run undisturbed; no text of a product never stored; a deleted product stays deleted; the model stamp is true; a reindex skips nothing and ends when it can |
| In-memory BM25 index (`search/bm25_index.rs`) | list of documents, cached engine, generation | `upsert`, `remove`, `search`, `suggest` | the engine is built without the lock from a copy | every search answers for one moment |
| Admin overrides (`mod.rs`) and query cache (`search/query_cache.rs`) | three tables of overrides, a map of responses with expiry | create, delete, import of overrides; `get`, `put`, `clear`; the three reads of `apply_overrides` | read, then mutate and clear, then put; duplicates made by concurrent pins; failures before the clear; full cache | cached responses show the overrides of now; one pin per query and product; the cache is bounded |
| Override ranking (`apply_overrides`) | the ranked list | suppress, pin, sponsor | each edit shifts the ones before | every product once; the others keep their order; positions |
| Tenant registry (`vectoria-server/src/tenants.rs`) | `by_key`, `by_name`, each with a lock, and a JSON file | `create`, `delete`, `rotate_key`, `save`, `load` | file written outside the locks, truncated first; undo in a second critical section; restart; fallback store | maps inverse to each other; the file has the tenants; no deadlock |
| Index registry (`index_registry.rs`, `routes/indexes.rs`, `routes/tenants.rs`) | map of engines, one directory per index | `create`, `delete`, `delete_by_prefix`, `load_persisted` | check and insert under different locks; directory removed after the name; engines outlive their name; restart from the names of directories | map and directories keep what calls told; limit; no index without its tenant |
| Events and signals (`aggregation/mod.rs`, `storage/`) | events, counters per query, signals, user vectors, relations | `put_event`, the aggregation loop, `put_relation`, `get_product_signals` | read and write of a counter in two sections; periodic job against requests; stored signals hide newer events; keys found by prefix; reads that fail are skipped | nothing lost, nothing counted twice, signals catch up |
| Search pipeline (`mod.rs`, `search/scoring.rs`) | query cache | parse, two retrievals, correction, rewriting, expansion, a second retrieval, scores, overrides, page; `similar`, `related_products` | a dozen awaits, each of which may fail or find another catalogue; the pool depends on the page; later results replace earlier ones | filters hold on every path; pages of one query partition one ranking; nothing found is lost again |
| Query understanding (`query_parser.rs`, `gazetteer.rs`, `spell.rs`, `phonetics.rs`) | values and words seen, append-only | `parse`, `add_product`, `extract_filters`, `add_text`, `correct`, `normalize` | patterns inside one another, at the ends of a query and next to letters outside ASCII | exactly the numbers go; a field is set when one of its values stands in the query |
| Embedding cache (`embedding/cache.rs`) | map from text to vector | `embed`, `embed_batch` | two tasks embed one text at once, to the same result | the vector of the text |
| Providers, rewriter, reranker, clustering | none | remote or numerical | | |
| Server shell (`main.rs`, `config.rs`, `auth.rs`, `rate_limit.rs`, `routes/`) | wiring | requests to the components above; spawns the aggregation loop and background reindexes | spawned jobs outlive their request | |
| Command line (`vectoria-cli`) | none | import, reindex with `--wait`, bench | polling for the end of a job it cannot see | `--wait` ends when the reindex has |
| WebAssembly (`vectoria-wasm`) | an engine of its own | index, delete, search | none: state is read and written after the last await of a call | as the catalogue |

How they interact. A request reaches one engine through the index registry and the tenant registry.
`index`, `delete` and `reindex_all` write the storage, the vector index and the in-memory indexes of
that engine. `search` reads all of them, the counters and signals of the storage and the override
tables, and fills the query cache; override mutations clear it. Events are written by spawned tasks;
the aggregation loop reads events and products and writes signals, user vectors and relations. A
tenant's delete calls the index registry. On start, `main` loads the tenant registry and the index
registry, which spawns a reindex for every named index.

`PROJECT.json` lists each component with what is modelled of it, and every hazard of the code at its
line with the properties that would notice it going wrong.

## 2. The modules

| Module | Role |
|---|---|
| `Catalog` | the stores of one engine and the calls on them |
| `MCCatalog` | `Catalog` with the symmetry of its tasks |
| `CatalogProofs` | theorems about `Catalog`: types, the stores of one product, and what a reindex carries: the model stamp, deletes, paging |
| `TextIndex` | abstract: a set of documents, searches that see one moment of it |
| `Bm25Index` | the in-memory index; implements `TextIndex` |
| `Bm25IndexProofs` | theorems about `Bm25Index`, the implementation among them |
| `Overrides` | override tables, mutations, searches, query cache |
| `MCOverrides` | `Overrides` with its symmetry, and what may happen together |
| `OverridesProofs` | theorems about `Overrides`: the cache's bound, pins, cached responses |
| `QueryParser` | operators: prices, urgency, and the numbers cut out of a query |
| `Lexicon` | operators: gazetteer, phonetic form, correction (extends `QueryParser`) |
| `Ranking` | operators: scores, filters, orders |
| `OverrideRanking` | what `apply_overrides` does to the list: the actions of the last phase of a search |
| `Search` | a search from the request to the response; composes `Lexicon`, `Ranking`, `OverrideRanking` |
| `MCSearch` | the catalogues and calls `Search` is checked on |
| `SearchProofs` | theorems about `OverrideRanking` and `Search`: the edited list, and the filters of an answer |
| `SearchAnswersProofs` | theorems about `Search`: what a search finds, the one list that pages are cut from, the numbers cut out of a query and the filters the gazetteer sets |
| `TenantStore` | tenant registry: maps, locks, file, undo, restart |
| `MCTenantStore` | `TenantStore` with its symmetry |
| `TenantStoreProofs` | theorems about `TenantStore`: the two maps, the file |
| `IndexRegistry` | map of indexes, their directories, and the tenants they belong to |
| `MCIndexRegistry` | `IndexRegistry` with its symmetry |
| `IndexRegistryProofs` | theorems about `IndexRegistry`: the limit, tenants, what calls have told |
| `Aggregation` | events, and the signals, profiles and relations derived from them |
| `MCAggregation` | `Aggregation` with the clicks of its users |
| `AggregationProofs` | theorems about `Aggregation`: what a cycle owes, in each of its parts |

### Catalog

A document (`Docs`) stands for the text and metadata of a product; a vector is the pair of the
document it was made from and the model that made it, or `Client` for a vector that came with the
product. `store`, `vectors`, `text`, `autocomplete` and `lexicon` are the stores. A task is in at most
one call, `op[t]`, whose `step` counts through the writes of `Order(kind)`: this sequence is the order
of the awaits in `index()` (mod.rs:149-168) and `delete()` (mod.rs:176-179). Each write is an action;
the in-memory structures, updated without an await in between, are one. `scan[t]` is the loop of
`reindex_all()` (mod.rs:680-732): it lists a page, embeds each product and calls `index()` through the
same actions.

`Abandon` ends a call between two writes: an error, or a handler dropped by the server when its client
goes away. A write that a dropped handler has left on the blocking pool still lands; that call counts
as running until it has. `Restart` empties what is in memory and may change the model; with
`RebuildOnStart` (a named index) it starts a reindex.

History variables say what the stores are compared with: `clean` and `warm` (the latest call on the
product overlapped no other and returned Ok; in this process), `persisted`, `gone` (a delete has begun
to take effect), `moved` (written by others since the page was listed), `owed` (in the table all the
time and still to be visited).

Abstracted: the content of products, the EdgeStore engine below the storage traits (external; a put is
atomic and durable when it returns, as `storage/edgestore.rs` relies on), relations and signals of a
product, flushing and compaction at the end of a reindex (no store changes its content). The text
index survives a restart in the model: the storage rebuilds it from its own log, and
`flush_text_index` only makes that faster (storage/mod.rs:84-86).

### TextIndex and Bm25Index

`TextIndex` is what callers expect: `Upsert`, `Remove`, and a `Search` that answers from one state of
the documents. `Bm25Index` has the list, the engine as the texts it was built from, and searches of
four steps: look, copy, build, install or rebuild. An engine answers with positions, which are looked
up in the list of the moment (bm25_index.rs:79). A text is the set of its words; a hit is the document
with the text the engine matched, so a stale engine or a position that has come to belong to another
product shows as a wrong hit. The refinement maps `docs` to the set of the list's entries and is the
property `ImplementsTextIndex`. Scores and the limit are abstracted.

### Overrides

`tables` are the three override tables, `cache` the responses with their remaining life, `search[s]` a
search from its miss to its put, `op[a]` a mutation: a set of rows to drop, a set of rows to put, then
the clear. `create_pin` lists first and drops what it found (mod.rs:742-752); `import_overrides` does
the same and then puts pins before suppressions. `SkipTable` is `if let Ok(..)` failing, `Fail` the `?`
of a write. A response is the set of overrides it was made with. `torn` marks a response that a write
overtook or that is missing a table.

Abstracted: sponsored windows and prefix patterns. An import is of one query and product, with any number
of pins and a suppression; one of several queries or products does to each what several such imports do
at once, and one without pins is as creating its other overrides one by one.

### Search, with QueryParser, Lexicon, Ranking and OverrideRanking

`phase` is where the current call stands, an action per await of `search()`:

    lookup -> parse -> vector, text -> reformulate -> expand -> retext -> clicks
           -> score (one row at a time) -> suppress -> pin -> sponsor -> respond -> next

`similar()`, `related_products()` and the tail of `recommend()` take the phase `list` instead.
`work` are the locals of `search()`. A behaviour follows one *case*: a catalogue, the calls made on it
one after the other (they share the cache and the tables), what external parts answer (rewriter,
spelling dictionary, counters per query), and `churn`: a product that comes or goes in one store after
the other, in the order of `index()` or `delete()`, between any two steps. With `faulty`, every await
may fail: those behind `?` end the call, those behind `unwrap_or_default` find nothing.

`QueryParser` and `Lexicon` are the string functions. A text is a sequence of symbols: a digit, a mark,
a space, or a run of letters. That is as fine as the rules can see, except for what they know of bytes:
`StartOpen` and `EndOpen` are the runs that begin or end in a letter outside ASCII, next to which the
boundary tests of `query_parser.rs` and `gazetteer.rs` see no letter. Recursion over a query is a
recursive function or a fold. `Ranking` computes scores in whole numbers; compression similarity
(`ncd_similarity`) is the share of terms in common. Orders that the code leaves to a hash map or an
index are any order (`SortedByScore`); `(score DESC, id ASC)` is `Sorted`.

`OverrideRanking` has the edits of `apply_overrides`: the suppressions at once, each pin, each slot. A
history variable remembers where the products of the current phase were put, and whether any of them
moved down.

Abstracted: the two retrievals return the best `k` by a score that is a number of common terms or a
given similarity; the text index and the vectors themselves are external. Aggregations, clusters,
explanations and snippets are computed from the hits and change nothing. Expiry of the cache is the
choice between a hit and a miss. That an override table or a slot's product cannot be read is left to
`Overrides` (`SkipTable`): the list goes on as if the table were empty, which is one of the tables here.

### TenantStore

`by_key` and `by_name` with a lock each; `op[t]` goes through the locks, the change, the copy that
`save()` takes, the truncation, the write and, if one of these fails, the undo. The file is its rows,
whether it can be parsed, and its length: two writers that truncate and then write over one another
leave the longer one's tail behind the shorter one. `Restart` loads the file, or falls back to the
store that never saves (main.rs:156-159), whose `save()` reports success all the same; calls on it do not
count as saved (`quiet`).

Abstracted: what `TenantInfo` holds besides name and key; names of one length; a write of the whole
text as one step. `Taken` stands for the check under the locks; the check that the route makes before
without any lock (routes/tenants.rs:46) can only refuse earlier.

### IndexRegistry

`engines` are the keys of the map, `disk[p]` the directory at a path: none, empty, or with data. A key
is a pair of owner and name; `PathOf` gives the path, so that an admin's index named "t" has the
directory above those of all tenants. `create()` is four steps (check under the read lock, make the
directory, open the engine, insert under the write lock), `delete()` two (out of the map, then the
directory), a tenant's deletion the store, the list of its keys, and a `delete()` for each. A handler
that has resolved an engine keeps it when its name is gone: `Use` then writes to files that are gone or
to those of a successor, which the storage library leaves open. `Restart` loads the directories it
finds, in any order and as long as there is room, which matters when there is none; of the tenants it
finds any part (`TenantsFound`), since their file may be behind or may not parse.

The history variable `answered` is what the calls on an index have told when they did not overlap, or
"swept" when the deletion of the admin's index "t" has taken the directory of a tenant's index along;
`loose` are the tenants whose deletion another call overlapped or a restart cut off, or that a restart
has lost.

Abstracted: the settings of an engine, its memory-only variant, and static tenants of the configuration.
The tenant store is its set of names here; `TenantStore` has the rest.

### Aggregation

`events` are the clicks and purchases, `known` the product table; `signals[p]` is the set of events
counted, `profile[u]` the set of products averaged, `relation[x]` the score of an ordered pair, capped
as `saturating_add` caps it. Events and users are found by prefixes of their keys: `Recent(u)` is the
scan for `{user}\0`, `Active` are the users `list_user_ids()` reads off the keys, up to the first NUL,
and `EventsOf(p)` is the scan for `{product}/`. User ids are sequences of bytes, since no handler
refuses any; which product ids begin with which others and a slash is the constant `Nested`.
`task[Loop]` is `run_aggregation_loop`, the `Requests` force cycles (`POST /admin/aggregate`) and call
`recommend()`. Each read of the storage and each write is a step of its own, so a value may be old when
it is stored. An error ends a cycle where it is (`Abandon`), a dropped handler too. Two kinds of failure
end nothing: a `get_product()` that fails is skipped as a product that is gone is, and the mean is
stored without it (`ReadFails`, aggregation/mod.rs:71 and mod.rs:547), and a user vector that cannot be
stored is passed over (`ProfileFails`).

The parts of a cycle read events and products only and write disjoint rows, so they cannot disturb one
another. `Init` therefore chooses the part a behaviour follows (`watched`); what comes before that part
is time in which everything else may happen, and an error in it is an error before its first step. This
makes the state space a sum where it would be a product.

The history fields of a call remember whether it has been alone since it began, the events and scores it
began with and the products that have been there since, and what its failed reads and writes have left
out of which profile (`missed`).

Abstracted: one page of products (paging under change is checked in `Catalog`), one event per user and
product, which has a user of at most 256 bytes (others are not in the index by user), all products of one
brand and with a vector, the limits of 50 and 30 recent products, the expiry of events after 90 days, the
counters per query.

## 3. The runs

Each `.cfg` names its bounds. All runs check for deadlock; a search that has answered all its calls
stutters (`Finished`).

| Run | Instance | Checks | Shows |
|---|---|---|---|
| `catalog` | one product, two documents (one with its own vector), two models, two tasks, failures, one restart | `TypeOK`, `CleanAgreement`, `NoPhantomText`, `NoResurrection`, `ModelStampTrue` | see below |
| `catalog_reindex` | two products, pages of one, two tasks, no failure | `ReindexSkipsNothing`, `ReindexTerminates` | paging is sound while the table changes |
| `catalog_migrate` | one task, two models, one restart | `ReindexMigrates` (violated) | a reindex after a model change migrates nothing |
| `bm25` | three ids, one word, two threads, four writes | `TypeOK`, `EngineCurrent`, `ImplementsTextIndex` | the generation check is right |
| `overrides` | one query and product, three pages of it, a cache limited to one entry, two admins, one search, three ids, failures | `CachedViewCurrent`, `PinSettled`, `CacheBounded` | what the clear at the end guarantees, which call leaves exactly one pin, and that a limit of 0 or 1 is not kept |
| `search` | queries on a bare catalogue, five products with pages, faults, lists and churn, overrides on three hits | `FiltersHold`, `PagesPartition`, `MatchesKept`, `GazetteerAgrees`, `NoiseRemoved`, `EachProductOnce`, `OrganicOrder`, `PromotionsLand` | what a response owes its request, on every path to it |
| `search_forms` | hybrid searches, a pool of four on five products | `MatchesKeptInEverySpelling` (violated) | expansion loses what a query found in its normal form |
| `search_empty` | queries of up to three numbers and a word | `QueryLeft` (violated) | a query that is a number is searched for as an empty text |
| `tenants` | two names, two requests, three keys, failures, one restart | `MapsAgree`, `QuietCallIsDurable`, `SomeCallGoesOn` | locks, undo, durability |
| `registry` | one tenant, the names "t" and another, two requests, a limit of three engines, failures, one restart that may lose the tenant | `ServedAsAnswered`, `NoOrphans`, `LimitHolds` | what map, directories and tenants keep of one another |
| `registry_t` | one request, no failure, one restart | `IndexesSurvive` (violated) | an index named "t" is not loaded again |
| `aggregation` | two products, one nested under the other by its id, three users (one whose id begins with the first one's, one whose id goes on after it with a NUL), the loop and one request, one relation per brand, scores up to two | `TypeOK`, `QuietCycleCounts`, `QuietCycleProfiles`, `QuietCycleRelates`, `QuietCycleBrands`, `QuietCycleMirrors`, `ProfilesAreOwn`, `SignalsCatchUp`, `ProfilesCatchUp` | what a cycle owes, and that overlaps are repaired |

Why the bounds are enough. Nothing in `Catalog` relates two products except the pages of a reindex, so
the safety run has one product and the paging run two, with pages of one: a page that ends with the
table, an empty last page, a table that grows behind and before the cursor, and a listed product that
goes all happen. Two tasks are enough for any race of two writes; a third would only be one of the two
again, since an ended call leaves nothing but the stores behind. In `Bm25Index` three ids let an entry
disappear before, between and after others while an engine is being built, and four writes let it happen
twice. In `Overrides` the properties speak of one query and product at a time; two admins make the
duplicate pins, two ids are a first pin and its replacement, and with three two pins that overlapped or
were imported at once can meet another. The constraint `OneAtATime` of its run bounds what happens
together: the cache fills with three keys before there is an override, the responses of one key are
followed through two overrides, and the third comes only where nothing is searched for or cached.
`TenantStore` needs two names for files of different lengths and three keys for a rotation next to a
create. In `Aggregation` the second user is what a scan without the separator would mix with the first,
the third what the scan with it does mix, which also gives the first a history of both products and so a
pair; one request next to the loop gives every overlap of two calls, and with a score of two a lost or a
repeated count is seen. In `IndexRegistry` two requests are every pair of calls on one index or on
nested directories, and a limit of three is reached by the default index and two more.

`Search` is deterministic but for faults, ties and churn, so its instance is a set of cases, each chosen
for a stage: all queries of one to three of ten numbers and a word, in any order (what is part of
another number, starts or ends inside one, or ends the query); all of one to four symbols on five brands
(a brand that begins with another one, one in two spellings, one with a space before it, one that is too
short without the space after it); two pages and the first one again, with limits, filters and modes;
searches that find little, with spelling, rewriting, expansion and faults; the lists; a product that
comes and one that goes; all pairs of pins and of slots on three hits, a product that is none and one
that is gone. Five products are enough for a pool that is too small, for three candidates to expand from
and two that are not, and for pages that are full, short and empty.

Named bounds: `Limit` (engines), `MaxLimit`, `MaxOffset`, `MaxPool`, `TopN` (1000 and more in the code),
`MaxRestarts`, `MaxWrites`, `MaxIds`, `MaxKeys`, `MaxEach`, `MaxScore`; `TTL` counts ticks.

### What the properties say

* `CleanAgreement`: once a call on a product has run alone and returned Ok, vectors, table, text and
  suggestions agree about it, whatever raced or failed before. The negative side is the design of the
  program: two overlapping calls may leave the stores apart for good, until such a call.
* `NoPhantomText`: the claim of the comment at mod.rs:146-148.
* `NoResurrection`: the claim of the comment at mod.rs:173-175, with its limit: a reindex that listed
  the product before the delete does bring it back, which the property leaves out by name (`moved`).
* `ModelStampTrue`: `model_id` names the model of the stored vector. It holds because `index()`
  refuses other models' products, the same check that makes a reindex useless after a model change.
* `ReindexSkipsNothing`, `ReindexTerminates`: paging by key. A reindex ends unless products are stored
  ahead of its cursor for ever (`StoredAhead`). The run has two ids, so that this cannot go on there for
  long; in the code ids are strings without bound, and clients that keep storing larger ones do keep the
  loop of mod.rs:686-732 going, which the property leaves open by name.
* `CachedViewCurrent`: a cached response shows the overrides of now unless one of four named things
  happened. One of them is a search that has read the tables before a mutation and puts its response
  after the mutation's clear: that response is served until its TTL, which is less than the comment at
  query_cache.rs:39-40 says.
* `PinSettled`: an undisturbed `create_pin`, or an import of one pin, leaves exactly one pin for its query
  and product, whatever duplicates there were. An import of two pins of one query and product leaves two:
  it evicts those in the table, not those of its own list (mod.rs:854-867).
* `EachProductOnce`, `OrganicOrder`: overrides neither lose nor double a product and leave the order of
  the rest alone. `PromotionsLand`: with distinct positions and no product moved down, what has been
  placed stays. Without that condition it does not: with pins of product 1 at 2 and product 2 at 3, the
  hits 1, 2, 3 become 1, 3, 2, although the comment at mod.rs:933-934 has all target positions correct.
* `MapsAgree`: `by_key` and `by_name` are inverse, except for a name where the undo of a failed call
  met another call. `QuietCallIsDurable`: after an undisturbed successful call the file has the
  tenants; two that overlap may save in one order and write in the other, and leave a file without a
  tenant although both returned Ok, and a store that came up empty after a failed load writes nothing and
  returns Ok. `SomeCallGoesOn`: never do all calls wait for each other's locks.
* `ServedAsAnswered`: after calls on an index that met no other call on it, map and directory are what
  they told: a deleted index is gone with its files, a new one starts empty, a kept one keeps its data,
  over restarts too. When the admin's index "t" is deleted, which overlaps no call on any other, the tenants'
  indexes lose their directories and stay in the map: they are served without files until a restart, which
  has lost them (index_registry.rs:203-209). The property says so ("swept"). Left out by name are the index
  "t" itself (below) and an index of which a stale engine wrote the files. `NoOrphans`: no index is served
  without its tenant, except while the deletion is under way, when a create of that tenant met it, a
  directory could not be removed, a restart came in between, or a restart came up without the tenant
  (main.rs:156-159), whose directories it loads all the same. Nobody but the admin can delete such indexes.
  `LimitHolds`: `n` requests at once can take the registry to
  at most `n - 1` engines over the limit.
* `FiltersHold`: every product of a response that no slot has brought in passes the filters asked for,
  and those the parser finds in the query where the request has none, in all modes, for cached answers
  and while products change.
* `PagesPartition`: consecutive pages are cut from one ranking, ties and cached answers included. The
  property speaks of calls for which nothing else moves (`Steady`), and leaves out:
  - calls that fail, a catalogue that changes, and two products that are equally similar to the query;
  - pools smaller than the catalogue, and calls with different pools: the pool grows with the offset
    (mod.rs:205-207), so that the second page may be cut from another ranking than the first, and the key
    of the cache lacks it;
  - pins, or slots, of one position, which come in the order of the storage's map;
  - requests that were reranked or rewritten, by parts outside the program;
  - queries in words alone (`bm25`) that were expanded: their candidates are text matches, and those of one
    score stand in the order of a hash map when it decides the terms (mod.rs:628-634), before the sort at
    mod.rs:337-340. Hybrid queries that were expanded are not left out: their terms come from the
    candidates of the vector index.
* `MatchesKept`: what the text index finds for a query is still ranked after correction, expansion and
  the second search; `MatchesKeptInEverySpelling` is the same for queries that are not in normal form.
* `GazetteerAgrees`: the filters a query is given are those the comment at gazetteer.rs:106-112
  describes, for values with no mark at either end (of "(RED)" the code asks more than whole words).
  `NoiseRemoved`: of a query of numbers and at least one word exactly the numbers go. `QueryLeft`: something
  is left to search by.
* `QuietCycleCounts`, `QuietCycleProfiles`, `QuietCycleRelates`, `QuietCycleBrands`: what a cycle has
  done when it ends without having met another call: every event from before it began is counted and
  averaged, for the products that were there all the time, and every pair is counted once per listed id with
  both products (once per brand). A profile may lack products whose read failed: the cycle skips them and
  ends as if it were complete. Two overlapping cycles may lose counts, which only the next ones make
  up for. `QuietCycleMirrors`: both directions of a pair get the same count.
* `ProfilesAreOwn`: no vector is made of products of another user, but for users whose ids go on after its
  own with a NUL. Ids are not checked (routes/events.rs:13-17), so there may be such: their events are found
  under the shorter id too, `list_user_ids()` lists the shorter one in their place, and no cycle computes a
  profile under the longer one.
* `SignalsCatchUp`, `ProfilesCatchUp`: old values stored late are repaired by a later cycle. This holds
  where the loop runs, which is the default index (main.rs:139). A named index has no loop: its
  signals are computed from the events on every search until somebody forces a cycle there, and from
  then on stay as they were at the latest forced cycle. `ProfilesCatchUp` speaks of reads that no longer
  fail: forced cycles whose reads fail for ever may store an incomplete profile after each that the loop has
  stored. Profiles of users whose products are all gone
  keep their last vector (`NoProfile`), which is why `ProfilesCatchUp` speaks of products that stay.

### Disagreements with the repository's own words

Four runs end in a counterexample, and `PROJECT.json` quotes the sentence each refutes: `catalog_migrate`,
`registry_t`, `search_forms`, and `search_empty` (a query that is only a number becomes empty, although
query_parser.rs:149-151 says it never does). The exceptions named in `CachedViewCurrent`,
`PromotionsLand` and `QuietCallIsDurable` are disagreements of the same kind, described above.

What modelling has shown besides, and no property is about:

* the relations of a deleted product stay (`DeleteProduct`): nothing calls `delete_product_relations()`,
  although storage/mod.rs:146 says that they are removed on product delete;
* a landline without a space as the very end of a query stays, because the check of the minimum length
  (query_parser.rs:396) counts one character more than the shortest format of its own list (an exception
  in `NoiseRemoved`);
* "chocolate 70" is a search for at most 70, since "ate " is found inside words; "1.500,00" is 1.5;
* a word of urgency filters by `in_stock = true` and so drops products that do not say, which scoring
  takes to be available;
* the gazetteer keeps the first spelling of a value, and a filter compares exactly: products with
  another spelling are not found; a brand that begins with another one is ambiguous and sets no filter;
* the rewriter runs when fewer than the limit were found, not half of it (mod.rs:294-297);
* `total` counts the candidates, up to twice the pool, and not the matches of the query;
* the key of the cache has neither the pool nor `cluster`.

### Fairness

`ReindexTerminates`, `SignalsCatchUp` and `ProfilesCatchUp` assume some. For the first, `FairSpec` has
weak fairness of `Work(t)`, the steps a task takes of itself once a request has started it. The code
runs on a Tokio multi-threaded runtime, which polls every ready task, and every await in `index`,
`delete` and `reindex_all` is for a blocking-pool job or an embedding that returns. `BeginIndex` and
`BeginDelete` are not fair, and clients need not stop, as long as they do not store new products ahead
of the reindex for ever, which is a condition of the property.

For the other two, weak fairness of `Work(Loop)`: the interval of `run_aggregation_loop` ticks for the
life of the process, every await of a cycle is for a blocking-pool job, and an error is logged and the
next tick awaited. Both properties have a premise, that the loop's own cycles fail finitely often: a
storage that fails for ever derives nothing. Requests may start, stop half way or fail at any time and
for ever, except that for `ProfilesCatchUp` reads of products that are skipped must come to an end.

## 4. The proofs

`tlapm` checks every proof to the last leaf, for every value of the constants that satisfies the named
assumption of the module; TLC evaluates these on each run. They say that numbers are numbers, that an
absent value is not one of the values (`None`, `Client`, `Default`, `Admin`), that sets the code keeps
in memory are finite where something is counted, in `SearchAssumption` that the calls of a case are
about products and positions there are, in `DataAssumption` that a catalogue and its clicks are finite,
that the gazetteer has learnt from products of the catalogue, that texts and brands are sequences, that
requests have the fields of a request, and that what is scored are numbers, and in `LexiconAssumption`
that lowercase makes no word of a space, which is true of `to_lowercase()`, and in `DigitAssumption`
that no run of letters with a letter beyond ASCII at an end is a digit.

An invariant the runs check is seldom inductive. What was added to each, and why:

* `CatalogProofs`. `TypeCorrect` is inductive as it stands. `TextIsPersisted` needs what is in flight:
  a call that has got past the table has its document among the persisted ones, so a later text or
  memory write adds nothing new; the order of the writes is used here and only here.
  `QuietCallRepairs` needs the progress of the call: as long as a call is alone on its product, each
  store it has passed holds what the call carries, and no other call writes the product. Being alone
  is a property of pairs of calls (two calls on a product are neither of them alone), which is the
  core of the invariant. The `warm` part is the same argument, with the restart taking it back.
* `CatalogProofs`, on reindexing. `StampsAreTrue` (`StampInv`): the record of a call in progress is
  stamped truly as well; where a reindex passes a stored record on, the check of its model in `index()`
  is what keeps the stamp true. `DeletedStaysDeleted` (`GoneInv`): whatever a reindex has on its page or
  in its call has not been deleted since it was listed, unless somebody else wrote it; the mark `gone`
  is set in the step that removes the row and taken back in the step that writes it. `ReindexIsComplete`
  (`PagingInv`): a product that is owed is in the table and either on the page or after the cursor, and
  when the page is the last one, on the page. A page that is not full has everything after the cursor,
  and what a full page leaves out comes after all it has: two facts about sets of numbers, by the least
  number of a set.
* `Bm25IndexProofs`. The invariant says of a search between copy and install: if its generation is the
  index's, its copy is the list. Since every write counts up and drops the engine, the cached engine
  is always the list's (`CachedEngineIsCurrent`). `AnswersAreAtomic` shows each step to be a step of
  `TextIndex` or a stutter: `Put` and `Drop` act on the list as set insertion and removal because ids
  are distinct, and an answer of a current engine is the set of matching documents.
* `OverridesProofs`. `CacheStaysBounded` is inductive: an eviction precedes every put. `PinsAreSettled`
  (`PinInv`) follows rows into the mutations that will still drop or put them: ids are used once, a
  mutation holds rows of its own slot, two mutations on a slot are neither of them alone, and one that
  is alone has listed all the pins that are there. `CachedViewsAreCurrent` (`CurrentInv`) needs the reads
  of a search under way: as long as nothing tore them, each table it has read still is what it read.
* `TenantStoreProofs`. `MapsStayInverse` (`AgreeInv`): each key ever used belongs to one name, in the maps,
  in the file, and in what calls hold to write or to put back; a new key is in no map before its call
  inserts it; a call alone on its name finds, when it undoes, what it left; and each list that is or may
  become the file has one key for a name, so that a restart loads inverse maps. `QuietCallsAreDurable`
  (`QuietInv`): a call that overlaps no other holds the list of the maps from its copy to its write.
* `IndexRegistryProofs`. `LimitIsKept` is inductive; the work is in cardinalities.
  `TenantsTakeTheirIndexesAlong` (`OrphanInv`): an index served without its tenant is on the list of
  that tenant's deletion or will be, because the list is read after the tenant has gone; and a directory
  nobody serves is one that a call is busy with. `RegistryServesAsAnswered` (`ServedInv`): from the
  first effect of a call to its end nothing is told of the index it is about, what lay under its
  directory is swept with it, and a call that is alone meets there what it has itself made. Most of the
  module is the geometry of paths: which indexes lie under which, the index "t" above all tenants
  included.
* `SearchProofs`. The lemmas say of `MoveTo` where each element comes from (`Source`), that sources rise
  and that none but the moved product is lost or doubled. From them `ListHasEachOnce` (`ListInv`: the
  ranked list is a list of the scored products, each once, the reranked one too), `OthersKeepTheirOrder`
  and `PlacedProductsStay` (`LandInv`: whatever is placed stands at a smaller position than anything still
  to be applied, hence above the place to which a product rises). `PagesPassTheFilters`: every scored
  product has passed the filters of the call, these ask for all that the request and the parser ask for,
  a page has nothing that the list has not, and an entry of the cache is under the key of the request it
  passed for.
* `SearchAnswersProofs`. `MatchesAreKept` (`KeptInv`): a product that must be found is among the results of
  the first search, then among the candidates, then still to be scored or scored. The step to the
  candidates is the difficult one, for the second search asks another query: an expansion has all words
  the query had (`TermsGrow`), so what matched still matches, and there is room for it in the pool; a
  correction happens only where nothing was found, so that nothing is lost by it. That the words stay is a
  fact about `Tokens`, `Join` and the fold of the expansion, each for any text: a fold is proved step by
  step from the equation that defines it (`FoldExists`), by the least prefix where the claim would fail
  (`UpTo`). The rest is that stores and churn stay within the catalogue (`StoresInv`) and that what was in
  both stores when the call began can go but not come back (`stable`).
* `SearchAnswersProofs`, on pages. `PagesPartitionTheRanking` says what the one list is before it says that
  each call comes to it: from the request without its offset (`Subject`), the catalogue and the
  tables, the definitions `TheQuery`, `TheMatches`, `TheScore`, `TheRanking` and so on determine the candidates,
  their scores and their order. `RunOf` follows a call from step to step: a pool that holds the catalogue
  leaves one choice of candidates, unequal similarities one order of them, and so one list of terms to expand
  a query with (`ExpandsOneWay`), and the second sort one order of
  equal scores (`OneOrder`: two orders of a set by one relation are the same). The clicks of each product are
  looked up once, so that what is scored and what is left to score are the whole (`Scored`). The pins and
  slots are a walk from one list to the next (`LeadsTo`), which positions of their own leave no choice, so
  that it has one end (`OneEnd`). Then an entry of the cache is a page of the list of its own request, and
  the key has all of the request that the list depends on but the pool, which `Steady` asks to be equal; this
  is where `Cacheable` is used. `PagesFollow` and `PagesAdd` are the arithmetic.
* `SearchAnswersProofs`, on numbers. `NoiseIsRemoved` reads the query in two ways at once, as `Kept` scans it
  and as `Tokens` reads it, and shows them to agree wherever no word is being read (`Break`): what the scan
  has kept so far has just the words not cut so far, and is the whole beginning of the query or shorter
  than it (`LeftOf`). Between two such places lies a space or a word. A plain word has no number in it
  (`NothingInside`); a word that is a number ends where the one found in it ends (`WordEnd`: the ten shapes,
  by their length and the places of their marks, `FormAt`), and nothing starts inside the one exception
  (`NothingInShort`).
* `SearchAnswersProofs`, on the gazetteer. `GazetteerSetsWhatIsNamed` needs that two ways to read a query agree:
  the byte test at both ends of an occurrence, and the text as its words and the marks between them
  (`Pieces`, followed from symbol to symbol by `Cutting`). What stands between two gaps of a text has, read
  by itself, the pieces it has there (`PiecesBetween`), and a text can be told from its pieces (`SamePieces`);
  so a value without marks at its ends passes the test exactly where its pieces stand in those of the query
  (`MatchIsPieces`). Of what was learnt, in whatever order the products came, every entry is of a product
  and every value has one entry (`LearningIs`, `AllLearnt`): the spelling kept may differ with the order,
  the lowercase form does not. Hence the values named and the entries found are in one-to-one relation
  (`NamedAre`), "exactly one" means the same of both (`ExtractAgrees`), and a call keeps the filters
  it was given until the texts are searched (`HeardInv`).
* `AggregationProofs`. One invariant, `AggInv`, for all seven theorems. A cycle that is alone has a
  `Progress`, said of the rows it still has to visit: an event is to be counted, held, stored, or left
  out by a read that failed; a pair's score is what it was, plus what the users done with add to it,
  plus what the call holds to write (`Due`). The bounds of `CyclesRelate` follow user by user from this
  sum; a stored profile is made of its own user's products, or of those whose ids go on with a NUL,
  because the walk is over what the scan by prefix finds (`ScanIs`, `UserOfIs`).

Only model-checked: all liveness (`ReindexTerminates`, `SignalsCatchUp`, `ProfilesCatchUp`), and
`SomeCallGoesOn`, which is said with `ENABLED`. Both are out of the prover's reach.

## 5. The plan

Done: all modules above, and a theorem for every safety property of the passing runs but `SomeCallGoesOn`.

## 6. Not modelled

* The embedding cache: whatever order two tasks take, each returns the vector of its text, so no order
  could be wrong.
* Providers, rewriter and reranker beyond "any answer or a failure": remote, without state.
* Clustering, compression and the values of scores: floating point, and nothing depends on more than
  their order.
* Aggregations, explanations and snippets of a response: computed from the hits it already has.
* Configuration, routing, the rate limiter, the builder and the synchronous wrappers: wiring.
* The command line: requests in a row, and a loop that compares two counts of the server which a reindex
  does not change (so `--wait` tells nothing about it).
* The WebAssembly engine: its calls read and write their state after the last await, in one turn of the
  event loop, and it keeps nothing.
* Windows of sponsored slots: a clock; the tables of `Search` hold the active slots.
* The counters per query are read in `Search` and written in one transaction; events expire after 90 days.
* The EdgeStore library below the storage traits, external throughout.
