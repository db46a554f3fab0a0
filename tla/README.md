# Verification of CodeCorner in TLA+

CodeCorner is a C++ code base of four libraries and one application: `common` (logging, files,
SQLite, utilities), `net` (sockets), `algorithm` (containers) and **WebSpy**, a web crawler that is
built on them with libevent, TBB and SQLite. This directory holds TLA+ specifications of its parts
that have state worth checking, the TLC configurations that check them, and proofs for TLAPS.
Paths below are relative to the repository root.

## 1. The system

| Part | State it keeps | Operations | Concurrency and failure |
|---|---|---|---|
| **Crawler** `App/webspy/src`: `web_voyager.*`, `basic_manager.*`, `task/*`, `memory_creator.hpp`, `structure.*` | the url table (SQLite, one STATUS per url), the pool of `HTTPClient_t`, the vectors that carry raw client pointers between threads, the issue and finish counters | collect urls, create and start a request, the HTTP callback, get page, digest page, recover | TBB tokens, the libevent thread, crash and restart; answers, redirects, time-outs |
| **DNS manager** `App/webspy/src/dns_manager.*` | a table of names, the batch, the counter of pending lookups | add names, fetch a batch, look up, callback, write back | evdns callbacks inside or after the call, failing statements, crash |
| **Logger** `src/common/src/log_.*`, `file_log.*`, `buffer_.h` | a bounded pool of buffers, the saving list, one buffer per `LogStream` | `operator<<`, flush, next buffer, save buffers, stop | any number of logging threads, one writer, a mutex and a condition variable |
| **Search trees** `src/algorithm/src/bsearch_tree.*`, `rb_tree.*` | nodes with child and parent links, frequencies, heights, colours | add, delete, remove, find | sequential |
| **SQLite wrapper** `src/common/src/sqlite_.*` and its users | connection, `m_hasTransaction`, the open transaction | open, close, begin, commit, statements | shared by threads; SQLITE_BUSY; failed commits; crash |
| **Sockets**, addresses `src/net/src` | a handle; an address | connect with time-out, recv, send, listen, multicast groups | partial I/O, EINTR, time-outs |
| **Heaps, sorted array, hash map, url trie** `src/algorithm/src` | arrays, chains, nodes | add, find, delete, sort, select, shift, cycle | sequential |
| Singleton, files and aio, file pool, utilities, platform layer, HTTP constants, entry point | - | - | wrappers of the operating system |
| Third-party code (`3rdParty`, `sqlite3.c`, `stdString.h`) | - | - | not this project's |

How they interact. `main()` starts `CWebVoyager`. Its table is read and written through
`CBasicManager` (`doSql`) and `CSqlLiteDB`. Urls go through four filters, collect -> download ->
get page -> digest. They look like two pipelines in `task.h`, but both classes get their instance
from `ISingleton<CPipeline>`, so there is **one** `tbb::pipeline` with `MAX_TOKEN_COUNT` (20)
tokens. The download filter takes an `HTTPClient_t` from `CMemCreator`, hands it to libevent as the
raw context pointer of `HttpRequestCB`, and goes on writing to it. The callback runs on the spider
thread; it queues pages in `m_HCRecords`, follows redirects itself, or frees the client. The get
page filter waits for pages, the digest filter adds the links it finds to the table. Every part
logs through `LogStream`. `CDNSManager` is a second user of `CBasicManager`, with its own database
and thread.

What is hard: the same raw pointer is used by four threads; a client is recycled through three
lists while some of them may still write to it; a SELECT and its UPDATE are two statements with
other writers between; the process may die with rows in any state; a bounded pool with a condition
variable; a counter that ends an event loop; relinking a tree in place. The full list, each entry
at its line and with the properties that watch it, is under `hazards` in `PROJECT.json`.

## 2. Modules

| Module | What it is |
|---|---|
| `Voyager` | the crawler: table, pool, tokens, callback, crash and restart, as one state machine |
| `VoyagerProofs` | proved of `Voyager`: ownership, accounting and the PROCESSING discipline; on top of these, what the requests are about (claims on rows, counters, links) |
| `Lists`, `ListTheorems` | the vectors of pointers as sets without repetition, and the lemmas on them, and on sums over finite sets, that all proof modules but `UrlStoreProofs` share |
| `LogChannel` | what the logger promises: per thread, a FIFO channel of pieces of text |
| `LogBuffers` | the logger as it is; implements `LogChannel` |
| `LogProofs` | the invariants of `LogBuffers` and its refinement of `LogChannel`, proved |
| `DnsManager`, `DnsProofs` | the DNS manager, and what is proved about it |
| `SqliteDb` | a SQLite connection as `CSqlLiteDB` drives it: the file, the open transaction, `m_hasTransaction`, refusals |
| `UrlStore` | the threads of the crawler on that connection: `addRecords`, `updateRecord`, `getNextRecords`, `doSql`; extends `SqliteDb` |
| `UrlStoreProofs` | the transactions, the rows and the links of `UrlStore`, proved |
| `Multiset` | what the headers of the tree, the hash map and the trie promise: a multiset with results |
| `SearchTree` | `CBSTree`; it implements `Multiset` |
| `TreeProofs` | that it does, with its links, counters and heights, proved |
| `RedBlackTree` | `CRBTree`: `SearchTree` with the other `adjust()` |
| `HashMap`, `UrlTrie` | `CHashMap`, `CUrlTrieTree`; both implement `Multiset` |
| `Heap` | `CHeap` and `CTopNHeap` |
| `SortArray` | `CSortArray` of `algorithm` |
| `Containers` | one container at a time: instances of the five modules above |
| `ContainersProofs` | proved of `Containers`, from `TreeProofs` and, for the hash map and the trie, from scratch |
| `ArrayProofs` | proved of `Containers`, about `Heap` and `SortArray` |
| `TcpSocket` | `open`, `connect`, `close` of `CSocketTcp` |
| `MCVoyager`, `MCLogBuffers`, `MCDnsManager`, `MCUrlStore`, `MCContainers`, `MCRedBlackTree`, `MCTcpSocket` | the instances for TLC: constants and symmetry |

Operators whose names end in `Bug` are faulty variants of a definition. No specification uses
them; each shows that a property notices a plausible mistake (`mutants` in `PROJECT.json`).

### Voyager

*State.* `row` is the STATUS column (`NoRow` for a name without a row). `hc` are the clients; `memPool`,
`shadow` and `freed` are `CMemCreator::m_memPool`, its `m_shadowMemPool` and the deleter's vector.
`selected` holds what a SELECT returned before its UPDATE, `urls` the collector's remaining records,
`tok` the filter, record and client of each token, `flight` the clients libevent holds, `loop` the client
whose redirect the spider thread is following, `pages` and `pending` the two page vectors,
`issue` and `finish` the counters of `getPendingRequest()`.

*Steps.* One action per stretch of code between two points where another thread can come in:
`CollectSelect`, `CollectMark`, `CollectTake` (collect filter); `LoadCreate`, `LoadStart`, `LoadMark`,
`LoadUpdate` (`createHttpRequset`, `evhttp_make_request`, the write of `status` after it, and
`updateRecord`); `PageArrives`, `RequestFails`, `RedirectBegins`, `RedirectFollows`, `RedirectEnds`, `RedirectDies`
(the callback; the new client is issued in `RedirectFollows`, the old one finished only in `RedirectEnds`); `GetPages`, `TakePage`, `DigestProcess`, `DigestRelease`; `Crash` and `Restart` (with `recover()`).
`Create` is `CMemCreator::create` with `cleanup`, whose iterator skips entries, so it may miss
finished clients; `FreedAfter` is what the deleter does when the last `shared_ptr` dies.
`startRequest` with a client whose `uri` was reset dereferences null: the process dies (`Die`).
For a url without a host (`NoHost`) `createHttpRequset` returns early and loses the client: it is neither live nor
done, and its row stays PROCESSING. `NoClientLeaks` and `ProcessingInHand` say so.

*Abstractions.* A url is its row and its ID. A page is the set of links `Links[u]`. `uri` stands for
`uri`, `conn` and `request`, which are set and cleared together. Statements succeed. libevent can
allocate, so the early returns that only an allocation failure reaches are left out. The counters are incremented inside
`L4C_LOG_INFO`, so they count only while the log level is INFO or lower, as the
shipped `webspy_log4cplus.properties` sets it. POST requests, `stop()`/`join()` and `updateRecords()` (never called) are left out.
The push of the deleter into its unguarded vector is one step.

### LogBuffers

*State.* `free`, `saving`, `count` are `s_bufferList`, `s_savingList`, `s_buferCount`; `buf` the contents of the
buffers (owner, parts, length); `pc`, `back`, `cur`, `next` the place, the return place, `m_curBuffer` and the next
part of each thread; `wpc`, `batch`, `done`, `final` the writer in `threadFunc` and `saveBuffers`; `file` the texts written.
`late` remembers which threads were not done when `stop()` was called.

*Steps.* One per critical section of `s_listMutex`, one per access to a thread's own buffer:
`Begin` (constructor), `Take` (pool, heap or wait), `Spurious` (a condition variable may wake without
reason), `Full`, `Flush`, `Grab` (the pool once more, after the flush), `Log`, `Finish`; `Open`, `Loop`, `Swap`,
`Write`, `Return`, `Notify` (after the unlock, one or all as `setBuffers` decides); `Stop`.

*Abstractions.* Every thread logs the parts `1 .. Len(SizeOf)`; a text is the set of parts in it. A part that is
appended asks for its size and two bytes (`Slack`); one that is printed into the buffer (`Direct`: numbers, pointers,
`endl`) asks for `MIN_AVAILABLE_SIZE` and takes its size, so it may leave a buffer that had room for it. A double that prints
longer than that is left out. The writer polls every 10 ms; here it loops.

### DnsManager

*State.* `table` (STATUS per name) with `age` (the names that have a row, by CREATE_TIME), `new` = `m_newRecords`,
`pending`/`status` = `m_pendingRecords`, `count` = `s_pendingLookupCount`, `asked` the lookups evdns still
owes, `exit` a requested loop exit. `dropped` remembers the names a crash or a failed statement
dropped.

*Steps.* `AddWebName`, `Start`, and the thread: `Fetch`, `Lookup` (one record; a name of `Sync` is answered
before `evdns_getaddrinfo` returns), `Asked`, `Answer`, `Dispatched`, `Update` (ends at the first failing
step), `Add` (goes on after one), `Crash`. A batch is the oldest positions of `age` whose row is UNCHECK, in order.
`Refused` is the UNIQUE(NAME) of the table. Once an INSERT has been refused, the `sqlite3_reset` with which `addRecords`
begins the next name returns that error again, and the name is passed over without being tried: `dns_manager.h` says
that `addRecords` adds "all the new web name", and a name that follows a known one is dropped. `Add` does what the
code does, and `dropped` names the loss. The initial table is whatever an earlier run may have left.

*Abstractions.* Addresses are left out. A name is always answered in the same way, at once or from
the loop. `addWebName` is called before `start()`, as in the commented use in `main.cpp`. There is no
action for `recover()`: this manager does not call it.

### SearchTree

A node is named by its key and the heap of nodes is one record, which the helpers transform as the statements of
the code do. A loop along the links is the set of nodes it meets (`Reached`): the search for a key, the walk of
`removeValue` to the most right node of a subtree, the way up of `adjust()`, which ends where a height stays. The
pointer surgery of `removeValue` (including the cycle it makes and cuts when the replacement is the left child
itself) is kept: `Relinked` and `Freed` are the assignments before and after the replacement leaves its parent.
`AddValueBy` takes what the virtual `adjust()` makes of the tree with the new node; `SearchTree` gives it
`CBSTree::adjust`, `RedBlackTree` that of `CRBTree` with its rotations. `clear()` leaves `m_root` dangling and is
taken as the end of the object.

### SqliteDb and UrlStore

*State.* `db` holds what is committed, what the connection sees, whether SQLite has a transaction open and
what `m_hasTransaction` believes; `mutex` is `m_dbMutex`, `pc`, `page`, `todo` the place and work of each thread,
`selected`, `handed`, `out`, `over` the way of a url out of the table - read, handed out, requested, its client done - as
records: a url with the ID its row had when it was read; `says` is the status `updateRecord` reads from the client. A new row gets the highest ID plus one, so after a rollback an ID is given again, and a record read before
writes to another row; `rolled` remembers that this has become possible. The other variables are histories: what was handed out
(`issued`), what `addRecords` said it had added (`added`), the names among them whose insert was refused (`missed`, from
`short` of the call at work), the pages whose links were refused, the marks that were undone.

*Steps.* One per statement: another thread of the process uses the connection between any two, and another
process may lock the file (`SQLITE_BUSY`) or SQLite may give the transaction up (disk full, I/O error). `doSql` repeats
a refused statement while it keeps the mutex; `addRecords` does not repeat an insert. `commit()` forgets the
transaction whether it succeeded or not. A loader (`Load`) sends a request and calls `updateRecord` only afterwards
(`LateLock`), through a raw pointer to a client that may be done, reset and used for another url by then (`UsedFor`), so that
it may say UNCHECK and stand for that other url's row (`ClientSays`). The other workers digest: the links, then the
status. The collector leaves its loop when the pipeline is stopped (`Quit`). A crash loses what is not committed; a restart runs `recover()`.

*Abstractions.* Requests that fail are left out: they write a status that is neither UNCHECK nor FINISHED. What a client may
say is not followed through its life but over-approximated: once it is done, a late reader may find it anywhere.

`Voyager` takes each statement for one step that succeeds; `UrlStore` is the same table with those steps taken
apart, and shows what is left of that assumption.

### HashMap, UrlTrie, Heap, SortArray, Containers

`HashMap` keeps the buckets, the links of the chains and a count per node. `UrlTrie` names a node by the
characters on the way to it and keeps `nodeChar` and `freq`. In `Heap` the helpers (`Sift`, `Partition`, `MedianLeft`)
transform the array as the loops of the code do, and a selection is one step per level of its
recursion, because its pivot is random. `SortArray` moves nodes in the order of the loops, on memory whose
initial contents are arbitrary; the place behind the array, which `shift` may read, is part of it. A node is its key
(the data beside it moves along). The objects do not interact, so `Containers` picks one at the start; the others
stay as they were born.

Preconditions: `1 <= k <= m_nodesCount` for the selections, `0 <= m_nodesCount + n <= SIZE` for `shift`, non-empty urls of
ASCII characters (the trie indexes its children with a signed `char`), and of the calls a `CTopNHeap` inherits only `sortHeap`
(`addNode`, `createMaxHeap` and the selections would take its order away); the code checks none of them. `m_urlCount` of the trie goes wrong after `clear()`, which keeps it, and after `delUrl`
of a url that only begins another one; `tidy` remembers both and `CountsAgree` is about the other histories.

### TcpSocket

The handle's connection and its pending SO_ERROR belong to the operating system and change at any time while
the caller is in `::connect`, `select` or `isConnect`; each of these is a step. `::connect` of a non-blocking handle may
also succeed or fail at once.

## 3. Runs

| Run | Question | Instance and bounds |
|---|---|---|
| `Voyager_safety` | ownership, table discipline, counters, pool | 4 urls (one that does not parse, one without a host), 4 clients, 3 tokens, batches of 2, all answers, 1 crash |
| `Voyager_live` | every url requested, every request ends | the same, no redirects, no crash |
| `Voyager_stall` | the same with too few tokens | 1 token: **violated** |
| `Voyager_final` | is the row of a finished request final? | as safety: **violated** |
| `Voyager_reuse` | can clients be reused? | 3 clients, 2 tokens, no crash: **violated** |
| `LogBuffers` | buffers, wakeups, texts, stop; does everything reach the file; is it the channel? | 2 threads; an entry of a text and an `endl` that just finds its room, then one of a text no buffer takes, a text, and an `endl` that no longer finds its room beside it; 4 buffer objects, open may fail, stop at any time |
| `DnsManager_batch` | batches, rows, progress | 3 names, one answered at once, batches of 2, 2 calls of addWebName, 1 crash, failing statements |
| `DnsManager_saved` | is every finished lookup saved? | 2 names, one answered at once: **violated** |
| `UrlStore` | is what was said to be added durable; is a url handed out once; do retries end? | 3 urls in a chain, a loader, a digester and the collector, batches of 2, 1 fault (a statement SQLite fails, a client that says UNCHECK, `stop()`, a crash or the close at the end), another process that locks |
| `Containers` | are tree, hash map and trie multisets; are heaps and array in order and complete? | keys 1..4 twice, 3 in one bucket; 3 urls on one way and one beside; heap of 5, array of 4, 3 values, each shown 3 times |
| `RedBlackTree` | the black height of `CRBTree` | keys 1..4: **violated** |
| `TcpSocket_connect` | does 0 from `connect` mean connected? | time-outs 0, -1, 1; two calls: **violated** |

What the passing runs show.

- `OneOwner`: a live client is in one place only, although its pointer passes four threads; `NoClientLeaks`:
  no client drops out of circulation, save those given to a url without a host. `ProcessingInHand`: a row is PROCESSING only while somebody works on
  it, with crashes and `recover()`. `OneRequestPerRow`: the gap between SELECT and UPDATE lets no url be
  fetched twice. `PendingIsLive`: the unsigned difference of the counters is the number of live requests, so it
  never wraps. `LiveWithinTokens`: live requests never outnumber the busy tokens, but for one while a redirect has issued its new
  request and not finished the old one; this is why the spider thread, which waits for a client inside a redirect,
  does not wait for itself (100 clients, 20 tokens), as long as not too many clients are lost to urls without a host.
  `FinishedHasLinks`: a FINISHED row's links are in the table, whenever the process dies.
- `OneHolder`: a buffer has one holder and the count is exact; `NoLostWakeup`: nobody waits while buffers
  are free; `NothingLost`: every text that fits a buffer is in the file, on its way or in its thread's buffer, once
  and in order; `ShortEntriesWhole`: an entry whose operators all find the room they ask for is never cut
  (one that would end within `MIN_AVAILABLE_SIZE` of the buffer's end may be, by its `endl`); `SavedAfterStop`: what was logged before
  `stop()` is in the file when the writer ends. `ImplementsChannel`: every step is a step of `LogChannel`.
- `LoopEndsWithLast`: the event loop ends with the last answer of its batch and never before or after.
  `ProcessingInHand`, `ReadyStays`, `EveryNameReady`, `NewNamesAdded`: rows are given back, stay READY, and are
  reached, except behind a batch that consists of names answered at once.
- `TransactionHasOwner`: `m_hasTransaction` is set just while a thread is inside `addRecords`, so no other writer that
  takes the mutex joins its transaction; a transaction without the flag comes from a refused commit, and stays open.
  `AddedIsDurable`: what `addRecords` says it has added is in the file and stays there, but for names whose insert was
  refused, which it logs and reports as added, until a later call adds them. `FinishedLinksDurable`: a url
  that is FINISHED in the file has its links there, unless an insert was refused or SQLite gave the transaction up.
  `IssuedOnce`: a url is handed out once between two starts, unless its mark was refused or rolled back, or the late
  `updateRecord` of `loadPage` wrote the UNCHECK of a reset client to its row. `RetryEnds`:
  whoever waits for `m_dbMutex` or repeats a statement gets on, once the other process keeps off the file.
- `ImplementsBag`, `CountsAgree`, `LinksAgree`, `HeightsExact`: `removeValue` keeps the order, the parent links and
  the counters in every tree of up to four nodes, heights are exact until the first removal (nothing lowers them after
  it), the trie's counters until `clear()` or the deletion of a mere prefix, chains and prefixes do not disturb each other. `Ordered`, `Holds`: every order a call of `CHeap`, `CTopNHeap` and `CSortArray`
  promises, with nothing lost; a `CTopNHeap` is a min heap of the largest keys even after `sortHeap`. `Moves`: `cycle` and
  `shift` by any number.

What the violated runs show (details under `findings` in `PROJECT.json`).

- `Voyager_stall`: a download that brings no page keeps its token in the get page filter for ever; after as
  many of them as there are tokens the crawler stops.
- `Voyager_final`: the request is finished by the callback before `startRequest` and `loadPage` write
  DOWNLOADING over its final status.
- `Voyager_reuse`: a client that `create()` hands out for the second time is not in the shadow pool any more,
  so it is reset before it is started.
- `DnsManager_saved`: a batch of names that are answered at once is never written back.
- `RedBlackTree`: `CRBTree::adjust` on ascending keys makes a chain of black nodes.
- `TcpSocket_connect`: a timed `connect` returns 0 when the time is up; after a refusal too, because `isConnect` reads
  SO_ERROR twice and the first reading clears it.

**Bounds and why they are enough.** Two tokens can race for a row, a client or a page; the third
leaves one in each of the filters that matter. Four clients against three tokens keep the code's
relation (more clients than tokens) and still empty the pool, so that `cleanup` and reuse happen.
One url does not parse, one has no host, one is a page that links to two others, one links back. One crash shows
every state a restart can find; the second would start from rows the first already produced. For
the logger, the pool starts with fewer buffers than it may have and may have hardly more than there are threads, so
that the heap, the limit and the waiting are all reached. For `ShortEntriesWhole` it matters that
the `endl` of the first entry has exactly the room it asks for and that of the second one less. In `UrlStore` one fault
can hit any statement, or let a late `updateRecord` read UNCHECK from any client, refusals are not bounded (the properties read what is in the file, so they judge what a second
fault would find), and a loader, a digester and the collector meet
on every statement; a chain of three urls is handed out in three selections, so a url can come back between them. In `DnsManager`, three names and batches of two give full, partial and mixed batches. Four keys contain each case of `removeValue` (replacement is the child itself or deeper, with
and without a left child, with and without a right subtree of the removed node, root or not), and the bucket of
three each place in a chain. A heap of five has nodes with two, one and no children; an array of four is rotated by
every number up to one more than its size, both ways.
Bounds in guards: `MaxCrash`, `MaxNew`, `MaxFault`, `MaxFreq`, `MaxHeight`, `MaxDrift`, `MaxGiven`, `MaxCalls`; `clear()` of
the trie happens once.

**Deadlock.** It is checked except in the Voyager runs, where the crawler stops when there are no urls
left, and in `LogBuffers`, where the threads finish and the writer ends.

**Fairness.** Weak fairness of each thread's steps: threads are scheduled, filters run, and libevent answers
or times out each request after 30 s (`evhttp_connection_set_timeout`). A crash, a restart, `stop()` and
`addWebName` are not fair. In `LogBuffers` a waiting thread runs only when it is notified; spurious wakeups
are possible and never relied on. In `DnsManager` success of a lookup is strongly fair: a name that is asked
again and again resolves in the end. A name that never does keeps the batch non-empty and the new
names out, which is listed as a hazard. In `UrlStore` every thread runs, and getting `m_dbMutex` is strongly fair: a
mutex that is free again and again is obtained in the end. That another process keeps off the file is a premise of
`RetryEnds`, not an assumption.

## 4. Proofs

Eight modules hold proofs, one of them (`ListTheorems`) only the lemmas that the others share. The others are each about one specification, for every value of its constants that the named assumption
of the module admits: any number of threads, tokens, urls, buffers and crashes. The properties are not inductive; what
makes them so is the code's unspoken reliance, and is stated as named conjuncts. Each strengthening was an invariant
of a run's instance before it was proved.

| Theorem | States | Of |
|---|---|---|
| `VoyagerProofs`: `TypeCorrect`, `OwnersAreUnique`, `ClientsAccountedFor`, `NoOrphanRow` | `TypeOK`, `OneOwner`, `NoClientLeaks`, `ProcessingInHand` | `Voyager` |
| `VoyagerProofs`: `OneRequest`, `PendingExact`, `LiveBounded`, `LinksFirst` | `OneRequestPerRow`, `PendingIsLive`, `LiveWithinTokens`, `FinishedHasLinks` | `Voyager` |
| `LogProofs`: `TypeCorrect`, `HeldOnce`, `NoWakeupLost`, `AllAccountedFor`, `EntriesWhole`, `SavedWhenStopped` | `TypeOK`, `OneHolder`, `NoLostWakeup`, `NothingLost`, `ShortEntriesWhole`, `SavedAfterStop` | `LogBuffers` |
| `LogProofs`: `Refinement` | `ImplementsChannel` | `LogBuffers` to `LogChannel` |
| `UrlStoreProofs`: `TypeCorrect`, `TransactionsOwned`, `AddedStays`, `FinishedHasLinks`, `NothingIssuedTwice` | `TypeOK`, `TransactionHasOwner`, `AddedIsDurable`, `FinishedLinksDurable`, `IssuedOnce` | `UrlStore` |
| `DnsProofs`: `TypeCorrect`, `LoopEnds`, `RowsGivenBack`, `ReadyForEver` | `TypeOK`, `LoopEndsWithLast`, `ProcessingInHand`, `ReadyStays` | `DnsManager` |
| `ContainersProofs`: `LinksCorrect`, `HeightsCorrect`, `CountsCorrect` | `LinksAgree`, `HeightsExact`, `CountsAgree` | `Containers` |
| `ContainersProofs`: `BagsImplemented` | `ImplementsBag` | `SearchTree`, `HashMap`, `UrlTrie` to `Multiset` |
| `ArrayProofs`: `OrderedCorrect`, `HoldsCorrect`, `MovesCorrect` | `Ordered`, `Holds`, `Moves` | `Containers` |

The theorem of the inductive invariant is called `Safety` in the modules about threads, `RequestSafety` for the second half
of `VoyagerProofs`, `TreeCorrect` in `TreeProofs` and `ArraysInvariant` in `ArrayProofs`.
The proofs have one lemma per action, and below it one step per conjunct that the action can disturb.

**VoyagerProofs**, under `VoyagerAssumption`. `IInv` is the conjunction of

- `TokInv`: what a token carries in each filter; `SelectInv`: nothing is selected while records remain.
- `PoolInv`: the deleter's vector and the shadow pool are disjoint, and only a client of the shadow pool has a
  `uri`. `LiveInv`: a live client has its `uri`, is not done and is not in `m_memPool`. Together they make `create()`
  unable to hand out a live client.
- `VirginInv`: a client that was never handed out is known to no token, so a token that still writes through its raw
  pointer cannot hit it. `StartInv`: a client about to be started belongs to one token, unless it was reset.
- `StatusInv`: what is about to be written to the table is never PROCESSING. This is the step that makes
  `ProcessingInHand` survive the late `updateRecord` of `loadPage`.
- `HandInv`: `ProcessingInHand` in its inductive form, which says which client still stands for the row.

Its second half is about the requests, on top of `IInv`. `RInv` is the conjunction of

- `ClaimInv`: a row has at most one claim - the collector's, a token's that is to create its request, or a client's - and
  a row with a claim is never UNCHECK, so the SELECT passes it. A client's claim lasts beyond its request: a
  token that has still to write the row of `m_hc` holds it (`Tied`), and when that client was reset meanwhile,
  the UNCHECK it writes goes to a row that nobody else has. `OneRequestPerRow` says this of live requests only.
- `DownInv`: a process that is down holds nothing, so `recover()` meets no claim.
- `LinksInv`: wherever FINISHED may come from, the digest filter or a token or a redirect that copies its client's
  status, the links of that row are in the table. Rows are never deleted.
- `CountInv`: the counters differ by the number of live requests, and these are no more than the tokens past
  `evhttp_make_request` (`Past`), plus one for a redirect that was followed and whose old request has not ended
  (`Overlap`), which is what `LiveWithinTokens` needs to be inductive over redirects.

**LogProofs**, under `LogAssumption`. `IInv` is the conjunction of

- `HoldInv`: `TypeOK`, `OneHolder`, and where a thread (`ThreadInv`) and the writer (`WriterInv`) have a buffer. `OneHolder` is
  about one long list; `ApartIsOneHolder` takes it apart into the pool, the saving list, the writer's list and the
  threads' buffers, which is the form the steps are proved in.
- `WakeInv`: `NoLostWakeup` also while the writer has returned buffers and has not notified yet: who waits is covered by
  awake threads plus the buffers to be announced.
- `NothingLost` and `ShortEntriesWhole`, with `EntryInv` on what of an entry is in a buffer at which point.
- `StopInv`: who was done before `stop()` stays done, and what arrives after the last swap comes from the others.

`Refinement` maps the saving list, the writer's list and what is handed over to the queue of `LogChannel`: each step is a
hand-over, a write, or no step of the channel; the invariant supplies that what is appended is whole and in order.

**UrlStoreProofs**, under `StoreAssumption` (and that of `SqliteDb`). `IInv`: `DbInv` (only a transaction that has written makes
the connection's view differ from the file, and it takes no row away), `PlaceInv` (who can be where), `RecordInv` (the
ID of every record that is carried, by a thread or by a client, is its row's, as long as nothing was rolled back),
`InsertedInv` (the open `addRecords` has dealt with what is not left and not refused) and `LinksInv` (the links of a page are in
the view before its client is done - `over` - and before any thread's `says` is FINISHED for it, with the exceptions
`FinishedLinksDurable` names), `IssuedInv` (a url handed out and not in `undone` is not UNCHECK in the view, and an unmarked
selection has not read it).

**DnsProofs**, under `DnsAssumption`. `IInv`: `RowsInv` (the batch's rows are PROCESSING, `age` lists the rows) and
`LoopInv` (in each place of `threadFunc`, how many answers are to come, and that an exit requested before there is a
loop comes from a batch that needs none). Half of the module is about the batch: the oldest rows, at most `Batch` of
them, in order and without repetition.

**TreeProofs**, under `KeysOK` (finitely many keys, which are integers). What a loop meets is the least set that is closed
under its steps (`ReachedIsLeast`), so nothing is proved by going along a path: facts about paths are facts about closed
sets, and a last or lowest node is had from a counterexample with nothing of the kind below it (`Lowest`). `TInv` is
the conjunction of

- `TreeOK`: the links are a `Forest` - the parent links are the child links turned round (`Linked`), and all keys in the
  left subtree of a node are smaller, all in the right one larger (`InOrder`). That no path returns to its start needs no
  conjunct: a node below itself would be smaller or larger than itself. The forest includes the keys that are not in
  the tree; they have no links and no frequency, and the root has no parent.
- the counters, in terms of the frequencies of all keys, and `HeightsOK`, which relates the heights of a node to those of
  its children as long as nothing was removed.

The surgery is taken apart into single links: what cutting (`CutLeft`, `CutRight`) or making (`PutLeft`, `PutRight`) one
link does to the forest and to every subtree. `removeValue` is then the cuts that free the removed node's subtrees
(`SplitNode`), the joining of the two (`MergeRight`, `MergeLeft`, `MergeDeep`: the replacement is missing, the left child
or deeper), and the link from above (`Replaced`); `RemovedIs` shows that the assignments of the code, in their order
and with the link that is made and cut again, come to the same. For `addValue`, `SearchIs` shows that the search keeps
the key on its side of all nodes it passes, so that it ends where the key belongs, and `AddedHeights` that raising the
heights on the way up, and stopping where the other side is higher, is exact. `HeightIs` identifies these heights with
the recursive `Height` of the property.

**ContainersProofs**, under the assumptions of `Containers` on the keys and urls. Of the tree it takes the theorems
of `TreeProofs`, as an instance with the variables of `Containers`, and shows that this instance and the one `Containers` is
made of speak of the same formulas. The hash map and the trie it proves itself:

- `HInv`, of the hash map. A chain is the least set that holds its first node and, with each node, the next one; that
  removing or prepending a node changes exactly that set is shown from its closure, without induction along the chain.
  The invariant: no two nodes of a chain have the same successor, nothing leads back to the first one (`Single`; together
  they exclude cycles), the nodes of a chain belong in its bucket, and a key has a count exactly when the search finds it.
- `TrieInv`, of the trie: above a node are all nodes of its way, and a node without its own `nodeChar` has `freq` 0 - so
  when `addNode` gives a deleted node on the way its character back, it brings no old count to life.

The counters of all three are sums over a finite set (`MapThenSumSet`). `ListTheorems` shows by least counterexample that
the function which computes them exists, and what one changed value, one more element and elements that are 0 do to the sum.

**ArrayProofs**, under `HeapAssumption` (a heap has room for a node, the keys are finitely many integers) and
`ArrayAssumption` (the values are integers). Every helper of `Heap` and `SortArray` is a loop written as a function on a
range of numbers; `UpExists` and `DownExists` show that such a function exists, `Upward` and `Downward` that what each
round keeps holds at the end. So every helper gets a lemma that says what it returns, for all arrays:

- `SiftIs`: while a node sinks from `i` (`Sinking`), every other node from `i` on is before its children, and the parent of
  the sinking one is before the sinking one's children. `CreateHeapIs`, `SortDownIs` and `RootFirst` follow.
- `PartitionIs`, `MedianIs`, `SepAtPivot`: what is looked at is split round the pivot, and the pivot's place divides the whole
  array. `SepStays`: rearranging a range leaves the divisions at its ends.
- `Rearranged` says that nodes only change places within a range: values from that range, each as often as before. It is
  shown from a map of the places that is its own inverse (`PairsCount`), never by counting.
- `FitsInstead`, `FitsStill`, `FitsMore`: of a `CTopNHeap`, how often each key is kept, `Kept`, depends on how many greater keys
  were shown, `Above`. A key that takes the root's place, one that is passed over, and one that fills a gap each lead from
  what was kept to what is to be kept; that the root is a least node (`RootIsLeast`) is what makes the first two right.
- `RotatedIs`, `ShiftRightIs`, `ShiftLeftIs`, `InsertedSorts`: where the three reversals of `cycle`, the two loops of `shift`
  and a round of `sort` put each node. C++'s remainder (`RemIs`) is related to the mathematical one by the uniqueness of
  quotient and remainder (`RemainderIs`).

`HeapInv` strengthens `Ordered` and `Holds` by the types and by three facts: no call's order is claimed during a
selection, a `CTopNHeap` never selects and is never a max heap, and it has been given what it holds until it is full (`Fits`).
`ArrayInv` is `Ordered` and `Holds` of the array with its types; what lies behind its last node is arbitrary.

**Only model-checked.** Liveness under fairness (`EveryUrlRequested`, `EveryRequestEnds`, `EverythingSaved` of the logger,
`EveryNameReady`, `NewNamesAdded`, `RetryEnds`), which needs ENABLED. The violated
properties need no proof. Induction on natural numbers is possible where it can be put as a least counterexample
(`LeastExists` in `ListTheorems`); `SizeBefore`, a recursive function of `LogBuffers`, is dealt with in that way.

## 5. Not modelled

- `recv`, `send` and the other socket calls: one system call each, or loops whose outcome the header does not state.
- `CSortArray` of `common/src/sort_array.hxx`: no file includes it.
- The file pool and aio: `CHFile::m_filePool` is never set, and `CFilePool::stop` is defined without being declared, so
  this part neither runs nor builds. `CHFile` itself is a layer over the operating system; `write_w` is one step of
  `LogBuffers`.
- Singletons (atomic, never destroyed by this code), conversions, the Lua stack, the platform layer.
- Reference counts of `HTTPClient_t` (two hazards without a property name the places).
- Third-party code, which is most of the lines under `src/`: the SQLite amalgamation, gtest, `stdString.h`.

The reasons are in the `components` of `PROJECT.json`.

## 6. Plan

Done: `Voyager` with its runs, `VoyagerProofs`; `LogChannel`, `LogBuffers`, `LogProofs`; `DnsManager`, `DnsProofs`;
`SqliteDb`, `UrlStore`, `UrlStoreProofs`; `Multiset`, the containers, `TreeProofs`, `ContainersProofs`, `ArrayProofs`; `TcpSocket`.
Every invariant and every action property that the passing runs check is a theorem. Left, the most important first:

1. That `UrlStore`, with no refusal and no rollback, implements the table steps of `Voyager`.
2. A reference-counted pool (`memory_creator.hpp`) for the assertion in `cleanup()` and the unguarded deleter.
3. `recv` and `send` of the sockets over parts, errors and EINTR.
