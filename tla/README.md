# TadaAsk in TLA+

TLA+ models of the parts of TadaAsk where order matters, TLC configurations
that check them on small instances, and TLAPS proofs of the properties that
carry the most.  Paths are relative to the repository (`src/` in
`PROJECT.json`); `app/` stands for `backend/app/`.

## 1. The system

TadaAsk answers questions from documents: an administrator uploads files or
names web pages, the backend cuts them into chunks and indexes them for full
text (SQLite FTS5) and vector (Chroma) retrieval, and visitors chat with a
model that is given what was retrieved.  The backend is one FastAPI process
with one asyncio event loop.  CPU work and Chroma calls run in threads, SQLite
is in WAL mode with one writer at a time and `busy_timeout = 5000`.

| Component | State | Operations | Talks to | What is hard |
|---|---|---|---|---|
| RAG job manager `app/services/jobs/rag_job_manager.py` | jobs, active job per group, per job a bounded event cache, a sequence counter and subscriber queues | start_job, run, emit, subscribe, shutdown | endpoints, indexing and crawl runners | full queues, handover cache → queue, cancellation, shutdown |
| Job stream endpoint `app/api/admin/endpoints/source_sse.py` | none | stream with Last-Event-ID | job manager | reconnection |
| Item indexing `app/services/indexing/` | item status, document content, chunk rows, vectors, SQLite's write lock | ingest, resume, pause checkpoint, error handler | job manager, Chroma, SQLite | two stores without a transaction, a lock held across awaits, pauses, crashes |
| Item and source requests `app/api/admin/endpoints/source.py`, `app/services/sources/` | sources, items, files | upload, pause, resume, delete, rename, update | all of the above | check-then-act across awaits, half-done deletions |
| Web crawl sync `app/services/sources/web_crawl.py` | items, contents, change hashes | crawl, materialise, prune | crawler, job manager | stale snapshots, items busy or deleted meanwhile |
| Chat `app/services/chat/`, `app/crud/chat_message.py` | messages by sequence number, summaries, running generations | send, stream, cancel, revert, delete, compact | search, providers | numbers under concurrency, loads around a compaction, cancel against the last chunk |
| Visitor limits `app/core/rate_limit.py`, `app/api/visitor/endpoints/chat.py` | request windows, open streams | check, acquire, release, clean up | visitor endpoints | leases of cancelled requests, window edges |
| Search `app/services/search/`, `app/crud/rag_search.py` | none | scope, query, fuse, rerank, confidence | Chroma, FTS | scope that is stale when used |
| Model profiles and providers `app/services/model_profiles.py`, `app/providers/` | profile records | CRUD, adapters | chat | mostly data and network I/O |
| Console chat store `frontend/src/console/stores/global-chat.ts` | messages shown, stream states, pages | send, stream, cancel, load, restart, delete | the API | optimistic messages, late pages, late answers |
| Widget `frontend/src/widget/composables/use-widget-chat.ts` | messages shown, phase, epoch | send, stream, cancel, new chat | visitor endpoints | streams left behind, cancel calls that fail |
| Console source runtime `frontend/src/console/composables/sources/`, `stores/source.ts` | items and jobs shown, open streams, last event ids, bars, panels, timers | load, connect, follow, refresh, index, pause, resume, upload, delete, leave | the API | streams ended, aborted and reopened; answers out of order |

What makes each component correct:

- **Jobs**: one active job per source; the group map names exactly the active
  job; every started job ends; shutdown leaves nothing running.
- **Streams**: events come in order, once; a reader is told the end only with
  the last event in hand; a full queue must cost no more than it must.
- **Items**: a completed item is whole in both stores; status changes follow
  the documented machine; an event reported is a status stored; a busy item is
  let go again; a busy item is not deleted.
- **Crawl**: the copy that is kept is the one its etag stands for; a completed
  page is found by the text stored for it; busy items are left alone; no page
  is lost between the workers and the main loop, and every sync ends.
- **Chat**: sequence numbers have no gap and no duplicate; nothing is missing
  from what a turn is answered from; prompts fit; what was told is stored.
- **Console and widget**: what is shown ends as what is stored; the composer
  always comes free; an abandoned stream does not touch its successor.
- **Console's source page**: no stream outlives the page it belongs to; when
  nothing is under way the rows show what is stored, and no bar or panel stays.
- **Limits**: open streams are counted exactly; no window admits more than its
  limit.
- **Search**: what is returned belongs to the scope of the project, best first.

`PROJECT.json` lists every component with its status, and under `hazards` the
places in the code these properties are for.

## 2. Modules

| Module | Models |
|---|---|
| `RAGJobs` | the job manager, the streams on it and a client that reconnects |
| `JobFeed` | what those streams promise: the abstract specification `RAGJobs` implements |
| `ItemIndexing` | the items of one source: workers, write lock, both stores, pause, resume, delete, crash |
| `ItemLifecycle` | the documented status machine of an item: the abstract specification `ItemIndexing` implements |
| `WebCrawlSync` | the sync of a web source, with the indexing job and the deletions it meets |
| `ChatSession` | the turns of one chat session: history, compaction, generations, revert, delete |
| `ConsoleChat` | one console tab on top of `ChatSession` |
| `RateLimit` | the visitors' limiter: windows, cleanup, stream counters |
| `HybridSearch` | one retrieval over an index that changes |
| `VisitorChat` | the visitors' endpoint on top of `RateLimit` and `HybridSearch` |
| `WidgetChat` | the widget on top of `VisitorChat` |
| `SourceRuntime` | the console's page of a source: its store, its streams and its requests, against the endpoints |
| `RAGJobsProofs` | type correctness and the invariants of the job manager and its streams, the refinement of `JobFeed` |
| `ItemIndexingProofs` | type correctness of `ItemIndexing`, what statuses, chunk rows and vectors say of each other, the refinement of `ItemLifecycle` |
| `WebCrawlSyncProofs` | the copy of a site under syncs, indexing and deletions; the count of its pages |
| `ChatSessionProofs` | the message table, the context and the prompt of the turns, and their streams |
| `ConsoleChatProofs` | the console's screen against the session it shows |
| `VisitorChatProofs` | the stream leases and the request windows of the limiter; sorting, sums and what a search returns |
| `WidgetChatProofs` | the widget's screen and composer, and the leases and searches under the widget |
| `SourceRuntimeProofs` | the streams, the panel, the rows and the bars of that page |
| `MCRAGJobs`, `MCItemIndexing`, `MCWebCrawlSync`, `MCChatSession`, `MCConsoleChat`, `MCVisitorChat`, `MCSourceRuntime` | instances for TLC |

### RAGJobs

The event loop makes the code between two suspension points one step.  No holder
of the manager's `asyncio.Lock` awaits while it has it, so taking the lock never
suspends either.  Hence one action each for `start_job` (`StartJob`,
`ReuseJob`), the first step of a task (`TaskStarts`), `_emit` (`RunnerYields`),
the end of `_run_job` with `_clear_active_group` and `_notify_job_finished`
(`RunnerReturns`, `RunnerCancelled`, `RunnerRaises`), the registration in
`subscribe` (`Subscribe`), and every `yield` or `return` of that generator
(`YieldCached`, `ReturnAfterCache`, `YieldQueued`, `ReturnOnSignal`).
`TaskNeverStarts` is asyncio's way with a task cancelled before its first step:
no line of the coroutine runs, so the job keeps the status QUEUED.

An event is its sequence number.  `job.events` always holds the newest numbers,
so the deque is the pair `oldest`, `nextSeq`.  A subscriber's queue is named by
its client; the finish signal `None` is 0.  The client is the console's:
`lastId` is `lastEventIdByJobUid`, `Disconnect` an aborted or broken stream,
`Reload` a page reload.  `subscribers` may still be missing a client whose
stream is open: that is a subscriber `_emit` has dropped.

Abstracted: job types, times, error texts, the payload of events.  A client has
one stream at a time; several tabs are several clients.

### ItemIndexing

One action per stretch of a worker between two awaits that change or read shared
state; `pc` says where a worker is, and `AfterCheckpoint` which of those places
are pause checkpoints.  What is stored is kept by batch: `rows` is what SQLite
has committed, `draft` what the worker's open transaction sees, `vectors` what
Chroma has.  `lock` is SQLite's write lock; only a worker between its DELETE of
the old chunk rows and its commit keeps it over several steps, so every other
transaction is one step that needs the lock free.  `LockTimesOut` and
`WorkerDies` are waits that exceed `busy_timeout`, which needs another worker
that is slow; `LockTimeouts = FALSE` takes waits as always short enough, except
that a worker waiting for its own lock (`CheckpointRaises`) times out in any
case.  A pause and a delete request are two and three steps, because the status
is read with the request and written later.  `Crash` is a killed process, and a
shutdown that cancels the workers: both roll back and start again with no job.
That one job at a time runs on a source is what `RAGJobs` shows
(`OneActiveJobPerGroup`).

Abstracted: chunk contents, embeddings, sections; the items are files (an item of
a crawled page comes with its content, which `UseContent` covers).  Row ids are
not reused here; in `HybridSearch` they are.

### WebCrawlSync

A sync from the request to its last event: the load of the known etags,
discovery, one fetch worker per URL (`FetchNotModified`, `FetchPage`,
`FetchFails`), the queue between the workers and the main loop, one short
transaction per page (`CreateItem`, `NotModified`, `SkipBusy`, `SameText`,
`NewText`), and the cleanup, which reads the items once (`PagesEnd`) and deletes
them one by one (`Prune`, `PruneVectors`).  Around it run what shares its rows:
indexing jobs of the source, which the job manager keeps apart from the sync
(`job`), pauses, and the requests that delete an item, delete the source or change
its configuration, each split where it awaits.  A page is its version; the text
is what the parser makes of the version, and two versions may have one text.
Only the etag validator is modelled: last-modified goes the same way.  Waits for
the write lock are taken as short enough; `ItemIndexing` has the lock.

### ChatSession and ConsoleChat

`ChatSession` has one action per step of `stream_rag_chat`: the session is found
or made, the question and the empty answer stored, the generation registered,
the history loaded, compacted where the budget says so and loaded again, the
knowledge retrieved, the prompt built, chunks streamed, the answer stored.
`append_message` reads the greatest sequence number before SQLite begins the
write transaction, so the read (`seqRead`) and the insert are two steps, and
turns that overlap meet in the unique constraint.  Texts are lengths, answers
numbers of chunks.  A turn may be cancelled, its client may go away at any
yield, a provider call may fail, the session may be reverted or deleted under
it, and the process may restart.

`ConsoleChat` puts one tab of the console on top: the optimistic messages and
their replacement at `generation_start`, the consumer of each stream, which lags
up to `MaxLag` events behind, the refresh after a stream, pages that load,
restarts from a message, deletion, cancel requests and lost connections.  The
server's steps are `ChatSession`'s own.

### RateLimit, HybridSearch, VisitorChat and WidgetChat

`RateLimit` has the limiter's methods, each one step because none suspends
inside its lock.  `charged` remembers what the pruned queues forget.

`HybridSearch` is one retrieval: the scope of completed, visible items, the
queries of a round answered in any order, the second round of an adaptive or a
full search, fusion, the fetch of the chunks, reranking, confidence.  Between its
steps the index changes: re-indexing and deletion in the order `ItemIndexing` has
them, with row ids that SQLite may give to another item.  What a query finds
relevant is a given order of contents.

`VisitorChat` is the endpoint: the dependencies FastAPI resolves in order, each
an action that may refuse (`Arrive`, `TakeLease`, `LoadProject`, `CheckWidget`,
`PreparePlugin`), the stream, and the lease's `finally` (`Release`) whichever way
the request ends.  `WidgetChat` is the client of some of those requests: the
messages it shows, its phase, the epoch, named by the request sent in it, the
loop of `sendMessage` with its catch and finally clauses, `cancelGeneration`,
`startNewChat`, and cancel calls that are served, refused or lost.

### SourceRuntime

An action is what the browser runs between two awaits: the arrival of an event,
an answer or a timer, or a click.  `stream` holds the calls of
`consumeJobStream`, several of a job where `disconnectSourceJobs` and `connectJob`
have followed each other; `controllers`, `jobSource` and `lastId` are its maps;
`load` holds the calls of `loadWorkspace` and the reload after an upload.  A
request leaves the page (`AskStart`, `AskPause`, `AskDrop`, `AskOther`), is served
or refused (`Serve...`, `Refuse`, with the checks of the dependencies in
`Accepted`), and its answer arrives (`Answer...`) or is lost (`RequestFails`).
There is one at a time, as `isMutating` disables the buttons.  A reload is two
reads, the source with its items and the active jobs, each served in one step and
shown in another, so that answers overtake each other.  `Visit` is the change of
the route; `Unmount` clears the page or does not, because its hook reads the route
when it may already be the next one.

On the server's side a job is what it tells: one event for the claim and one for
the end of an item, a last one for itself.  A stream may skip events and never
goes back, and ends with the last event in hand; this much `JobFeed` promises.
What the endpoints do to both stores is in `ItemIndexing` and `WebCrawlSync`.
`stored` tells a deleted row (`gone`) from one that is not there yet (`absent`).
A job may be under way when the page is mounted, started by another tab.

Two ghosts carry the exceptions of the properties.  `unsure` has the items that
changed with nobody following, after a disconnection or a failed call, or that an
answer showed with a status that was no longer the stored one; an answer that
shows the stored one takes them out.  `missed` has the items of which the events
were lost, whose job was another one, or whose bar was there without a row when
the page was left.

Abstracted: titles and files, the status of the source, sync progress, messages
and counters, the selection; the list of items is complete (the page asks for
100).  Updating a source and downloads change nothing of what is modelled.

## 3. Runs

| Run | Configuration | Question | Outcome |
|---|---|---|---|
| `jobs` | 2 jobs, 1 source, 1 client, queue of 2, cache of 2, up to 3 events and SYNC_FAILED | all invariants, refinement and liveness of jobs and streams | holds |
| `streams_end` | the same with 1 job | does every connected client see its stream end? | violated |
| `indexing` | 2 items, 2 batches, 2 slots, 1 crash, lock timeouts, no deletion | are completed items whole, no vectors orphaned, reports true? | holds |
| `lifecycle` | 2 items (1 deletable), 1 batch, no crash, no lock timeouts | is the documented machine implemented, do items and jobs settle? | holds |
| `pause_self_lock` | 1 item, 1 batch | does a pause request met at a checkpoint pause the item? | violated |
| `delete_race` | 2 items (1 deletable) | is a busy item never deleted? | violated |
| `delete_half_done` | the same with lock timeouts | is an item whose deletion failed still whole? | violated |
| `crawl` | 2 pages in scope and 1 outside, 1 page that changes once, 1 without etag, URL lists of one, two and repeated URLs | is the copy true to its etag, the index true to the copy, are busy items kept, pages counted, does every sync end? | holds |
| `chat_turns` | 1 answered turn, 2 more that may overlap, one with knowledge, a budget that forces a compaction, 2 disturbances | is the timeline whole, the context complete, the prompt within its limit, the answer kept as told? | holds |
| `console_chat` | the same turns without knowledge, 1 disturbance, events one behind | does the screen end as what is stored, and the composer come free? | holds |
| `visitor_chat` | 5 requests of 2 ips and 2 projects, 3 items of 2 sources, 3 ticks, 2 changes of the index | do windows, leases, scope and order hold, does the widget settle? | holds |
| `source_page` | 2 files and 1 crawled page, 2 jobs, one of them perhaps under way, 1 request of any kind or 2 visits, 1 failure | is a stream left behind by its page; when nothing is under way, do rows, bars and panel show what is stored? | holds |

The runs do not repeat what is proved of the types: `TypeOK` of `RAGJobs`,
`ItemIndexing` and `ChatSession` and `RuntimeTypeOK` of `SourceRuntime` are theorems
of section 4, and `EndedStreamSawLastEvent` is a theorem that `KeepsPromise` covers in
the runs.

**Bounds.**  `MaxEvents`, `MaxCrashes` and `Deletable` are the bounds of the
models.  A queue and a cache of two are the smallest that hold an event beside
the signal and can overflow; four events (three and SYNC_FAILED) overrun both,
and the cache once more while a client is away.  Two jobs of one group are the
least that can exclude each other, follow each other and be finished in the
wrong order; jobs outside a group come as `NoGroup`.  Clients share nothing but
the job, so one client meets every order of its own stream.  Two items are the
least that fight for the write lock; two batches have a checkpoint with the lock
held and rows of one batch to leave behind.  One outstanding pause request at a
time is a bound too: a second one would write the same value.

A page that changes once gives every order of two fetches and the change; one
key outside the scope is a redirect or a link the rules refuse; `<<a, b, a>>`
repeats a URL.  Requests name one item (`Targets`), because the others would do
the same.  Two new turns are the least that overlap; the sizes of the chat run
(20 of input, 6 for the system prompt, questions of 6 and 4) put a session of a
few messages above the threshold, so that a summary is written and loaded again.
`MaxRequests` counts cancels, reverts, deletions,
disconnections and restarts together: two of them are each pair in each order.

`visitor_chat` begins in one of several places (`MCStarts`), because its parts
disturb each other little and multiply: three requests under the limiter with a
still index; the widget's two requests alone, with a new chat between them; the
one retrieving request alone, over an index whose third item is being indexed
again, or being added while the second is being deleted.  Requests, clock and
index that do not take part in a beginning stand at their bounds.  The windows
are one and two ticks long, so that requests leave them within the run; a
window of two requests can be full.  The widget's preflight is asked again unless
an earlier request was answered, as browsers cache it.

`source_page` begins with the first load of the page, every status of the second
file that makes a difference, and a job of another tab about to run or none.  Two
copies of a stream are what a job has when it was disconnected while reloading and
connected again; two loads are those of a visit there and back, or of an upload
beside the first.  A behaviour has a request or visits, not both (`MCSpent`): with
both, the answers multiply beyond use.  For the properties of the source page that
are proved (section 4) the bound does not matter.  A page may rest, so the run does
not check deadlock.

**Fairness.**  `RAGJobs!FairSpec`: weak fairness for each task, because the event
loop resumes what can go on and a runner's events are finitely many; for each
stream, because a connected client keeps reading (a client that does not is
`Disconnect`ed or reloads, which nothing forces); for the return of shutdown.
`ItemIndexing!FairSpec`: weak fairness for each worker, the end of a job and the
writing of an accepted pause request.  `WebCrawlSync!FairSpec`: weak fairness for
the steps of the sync, whose workers and queue the event loop resumes.
`ConsoleSpec`: for each turn of the server, for each consumer and for the two
steps of a load, as the browser goes on with what has arrived.  No request, reconnection, reload, crash
or shutdown is ever assumed to happen.

**What the violations say.**  Each is a place where a document or docstring and
the code part (`findings` in `PROJECT.json`):

1. `_emit` drops a client whose queue is full without a word.  The finish signal
   only goes to registered queues, so this client waits for ever, although
   `_put_finish_signal` means the end to reach slow clients.
2. A pause request that arrives after the last checkpoint before the old chunks
   are deleted is found at a batch checkpoint.  The checkpoint's session waits
   for the lock of the worker that runs it; the item fails instead of pausing.
3. A deletion that has passed its status check awaits Chroma; a job claims the
   item meanwhile and loses its row.
4. A deletion whose commit does not get the lock has already removed the
   vectors: the item stays completed and cannot be found by vectors any more.

**What the properties leave out.**  Where a property that one would like has an
exception, the code breaks it there, and no document promises it:

- `NoOrphanVectors` says nothing of a process that has died: a crash takes the
  uncommitted rows back and leaves their vectors, as the code must, having no
  record of them.
- `KeepsLifecycle` and `BusyItemSettles` are checked without lock timeouts and
  crashes: with them the code leaves busy items behind and may mark items failed
  that it never claimed.
- `CompletedIndexIsCurrent` speaks of sources whose vector collection is there:
  deleting a source removes the collection first, and may then fail.
- `TimelineIntact`, `ContextComplete`, `SummaryMatchesRows`: a revert during a
  running turn, or turns that overlap, are told apart by `muddled`; nothing in
  the code refuses either.
- `ViewMatchesStored` excepts the turns in `unsure`: aborted before
  `generation_start`, when the optimistic messages stay for ever; cut off before
  it, when the question is taken from the screen and kept by the server; refreshed
  by a page that failed or was read while the turn still ran; and all turns, when
  the page after a restart overlaps a new message and reverted messages stay.
- `HitsFromScope` excepts row ids that changed hands: the chunks of a hit are
  read by row id, without the scope.  Without the exception TLC shows a chunk of
  an item outside the scope returned, after another item was deleted and the new
  one got its row ids.
- `RowsSettle` excepts `unsure`, and `BarsSettle` `missed`: a page that followed
  nothing when an item changed, or whose call failed, is not told, and nothing
  polls; an answer that is late may be the last one shown.  `loadWorkspace` reads
  the items before the active jobs, so that a job that ends in between shows in
  neither; and a request answered with the job that is active already marks its
  items as processing whether that job has them or not.  Leaving a page clears the
  bars of its rows; an item that has lost its row to a late list keeps its bar, and
  the stream that would close it is cut off.  Without that exception `BarsSettle`
  is no invariant: it takes two requests, a late load and two visits, more than
  `source_page` has, and came up when the proof was tried.
- `WidgetSettles` excepts a failed cancel call: the catch of `cancelGeneration`
  sets the phase to streaming whatever the epoch is by then, so that a call
  refused or lost after its stream ended leaves the composer busy.

**What else was met while reading**, in code that is modelled, and is not a
property: discovery of a URL list stops at `max_pages`, and the cleanup takes every
item that was not discovered, so that a URL listed behind the limit loses its item;
the results of several collections are put behind each other in the
order of the sources, where a design document
(`docs/archive/early-mvp-requirements.md:60`) fuses them by rank; a turn that
asks for compaction with nothing to compact ends in an error; older messages the
prompt builder cuts are neither summarised nor sent; a cancel request is charged
by the visitors' limiter, and a refused request stays charged under the keys
checked before; a cancel that comes after the last chunk is answered as accepted
and has no effect; a restart leaves the empty answer of a running turn behind.

## 4. Proofs

The theorems on jobs hold for any number of jobs, sources and clients, any cache
limit of at least one and any queue capacity of at least two
(`RAGJobsAssumption`; the code has 500 and 100).  Those on items hold for any
finite set of items, any number of batches and crashes, any concurrency of at
least one, with and without lock timeouts (`ItemIndexingAssumption`).  Those on
the crawl hold for any finite set of URLs, any pages with at least one version,
any configurations and limits (`WebCrawlAssumption`); those on visitors for any
finite set of requests, any ips, projects and limits, and any time a behaviour
starts at (`RateLimitAssumption`, `VisitorAssumption`), any sources, items and
chunks in a table whose row ids and chunks are unique, as the schema says, and any
relevance, which ranks no content twice and every content the reranker lets pass
(`HybridSearchAssumption`; equal rerank scores are left out), and any widget whose
requests do not retrieve (`WidgetAssumption`); those on the chat for any finite set of turns, any past of
the session, any budget, sizes and number of chunks (`ChatSessionAssumption`; a
question is never empty); those on the console for any such session, any number
of visits, loads and failures and any lag of at least one event
(`ConsoleAssumption`, which also says that a turn of the past was answered once);
those on the source page for any sets of
sources, items, jobs and streams, and any number of requests, visits and failures
(`SourceRuntimeAssumption`).

| Theorem | Statement |
|---|---|
| `TypeCorrect` | `Spec => []TypeOK`, with the bounds of queues and caches |
| `GroupMapIsExact` | `Spec => []GroupMapExact` |
| `JobsOfAGroupExclude` | `Spec => []OneActiveJobPerGroup` |
| `ShutdownIsComplete` | `Spec => []ShutdownLeavesNoTask` |
| `EndedStreamsAreComplete` | `Spec => []EndedStreamSawLastEvent` |
| `StreamsComeInOrder` | `Spec => []StreamInOrder` |
| `RegisteredStreamsAreComplete` | `Spec => []RegisteredStreamComplete` |
| `StreamsKeepPromise` | `Spec => KeepsPromise`: `RAGJobs` implements `JobFeed` |
| `IndexingTypeCorrect` | `Spec => []TypeOK`, with the lock discipline and the slots |
| `ReportsAreTrue` | `Spec => []ReportTruth` |
| `NoVectorIsOrphaned` | `Spec => []NoOrphanVectors`, deletions included |
| `CompletedItemsAreWhole` | `Spec => []CompletedIsWhole`, if nobody deletes or nothing can stop a deletion half-way (`DeletionsAreWhole`) |
| `LifecycleIsKept` | `Spec => KeepsLifecycle` without crashes and lock timeouts: `ItemIndexing` implements `ItemLifecycle` |
| `CopiesMatchValidators` | `Spec => []CopyMatchesItsValidator` |
| `CompletedIndexesAreCurrent` | `Spec => []CompletedIndexIsCurrent` |
| `PagesAreAccountedFor` | `Spec => []PagesAccountedFor` |
| `BusyItemsAreKept` | `Spec => BusyItemsKept` |
| `SyncsFailOnlyIfDisturbed` | `Spec => SyncFailsOnlyIfDisturbed` |
| `TurnTypesAreCorrect` | `Spec => []TypeOK` of `ChatSession` |
| `TimelineIsIntact` | `Spec => []TimelineIntact` |
| `ContextIsComplete` | `Spec => []ContextComplete` |
| `SummariesAreTrue` | `Spec => []SummaryMatchesRows` |
| `PromptsFit` | `Spec => []PromptFits` |
| `StreamsKeepTheContract` | `Spec => []StreamContract` |
| `CancelIsHeard` | `Spec => CancelHeard` |
| `AnswersAreKept` | `Spec => []AnswerKept` |
| `TabsDriveTheSession` | `ConsoleSpec => Spec`: under a tab the session is that of `ChatSession` |
| `ConsoleTypesAreCorrect` | `ConsoleSpec => []ConsoleTypeOK` |
| `StreamedTextIsShown` | `ConsoleSpec => []StreamedTextShown` |
| `ViewMatchesTheSession` | `ConsoleSpec => []ViewMatchesStored` |
| `LeasesAreExact` | `Spec => []LeasesExact` of the visitors' endpoint |
| `WindowsAlwaysHold` | `Spec => []WindowsHold` of the visitors' endpoint |
| `HitsComeFromTheScope` | `Spec => []HitsFromScope` of the visitors' endpoint |
| `BestHitsComeFirst` | `Spec => []BestFirst` of the visitors' endpoint |
| `WidgetAlwaysSettles` | `WidgetSpec => []WidgetSettles` |
| `LeasesAreExactUnderWidget` | `WidgetSpec => []LeasesExact` |
| `HitsComeFromTheScopeUnderWidget` | `WidgetSpec => []HitsFromScope` |
| `BestHitsComeFirstUnderWidget` | `WidgetSpec => []BestFirst` |
| `RuntimeTypesAreCorrect` | `Spec => []RuntimeTypeOK` of `SourceRuntime` |
| `RunningJobsAreReachable` | `Spec => []StreamsReachable` |
| `PanelsSettle` | `Spec => []PanelSettles` |
| `RowsSettleInTheEnd` | `Spec => []RowsSettle` |
| `BarsSettleInTheEnd` | `Spec => []BarsSettle` |

**Jobs and streams.**  `TypeOK` needs that an open stream has a job
(`OpenStreamHasJob`).  `JobInv` adds what ties a job's status to its task
(`StatusMatchesTask`), the group map to the statuses and the cancelled set to
the shutdown; only with the first does a finished task imply that its job is
no longer in the map.  For the streams, neither completeness nor order is
inductive.  `StreamInv` says of every open stream (`StreamOK`) that the last id,
the cached rest and the queue are one increasing row below `nextSeq`, with the
signal at most at its end (`InOrder`); that a queue with the signal, or a
generator that saw the job finished, belongs to a finished job and a registered
client; that the row of a registered client reaches the newest event of the job,
so that the next one appended continues it; and that a registered client of a
finished job has the signal in its queue or saw the job finished.  Evicting the
oldest entry keeps this because a queue of at least two still has its newest
number (`DropOldest`, `AppendSignal`): this is where `QueueCap >= 2` is needed.
`StreamsComeInOrder` follows from `InOrder` by cases on where two neighbours lie
(`FeedIncreases`); the refinement maps every action to an action of `JobFeed`
or to a stutter, the delivery of an entry to `Receive` by `DeliverStep` and an
ending to `ToldEnd` by `EndStep`.

That a registered stream is complete counts entries, and its bound alone is not
inductive: yielding a cached event may close a gap that was allowed.  `GapInv`
says where the gaps are (`NoGap`): the cached rest and the queue are each
consecutive numbers, the queue runs up to the newest event, at most the one
entry the signal evicted is missing between the two, and what is missing before
the cached rest is older than the oldest event the job still caches.  The
handover in `subscribe` opens no gap (`GapSubscribe`), `_emit` none
(`GapAppend`), and `_put_finish_signal` one at most (`GapSignal`).

**Items.**  `TypeOK` becomes inductive with two facts: the items of the job, and
no others, have a worker (`WorkersOfJob`), and a session has written a prefix
`1 .. k` of the batches (`DraftsInOrder`), so that the number of the next batch
is always a batch.  On it rests `StoreInv`.  A worker at work has its claim:
the status is busy, or the item was deleted (`ClaimKept`); hence no step that
touches rows or vectors is taken for a completed item.  Reports are a worker's
last step (`ReportsAreLast`), after which only requests change the status.
`IndexedIsWhole` follows the vectors to the commit, where they must cover all
batches; leftovers of a crash do no harm, being batches too.  `RowsUnderVectors`
follows them the other way: none at the clearing of the old rows, then never
more than the session has rows for.  `CompletedItemsAreWhole` assumes
`DeletionsAreWhole`: nobody deletes, or neither a crash nor a lock timeout can
come between the vectors and the row of a deletion; `delete_half_done` shows what
happens otherwise.  For the refinement `LifeInv` adds that a worker fails with
its claim still held, and that a deleted item has no rows and gets none: an
error handler that commits a session's rows then never changes what can be found
of an item that is not being worked on.  Each worker step is a step of the
status machine, or `Work` on a claimed item, or a stutter (`WorkOrStutter`).

**Crawl.**  That the copy fits its etag is not inductive: a page is fetched with
the etag read at the start of the sync, and its 304 is used much later.
`CrawlInv` says that every result in the queue stands for a version of its page
and is the only one of its key (`ResultsFit`), and that as long as a result is
outstanding the item keeps the etag the fetch was given, or was deleted
(`PendingKept`): the sync itself is the only writer of etags, and an indexing job
and a sync exclude each other (`OneJob`).  The index is current because a worker
has loaded the text that is stored (`LoadedIsStored`).  Pruning looks at statuses
read before; `BusySeen` says that whoever is busy now was busy then.  A page is
counted by `CountInv`: what was discovered is waiting, a result in the queue, or
in a counter.  A worker's two messages add one result to the queue
(`ResultsGrow`), and the main loop that takes one (`ResultsShrink`) adds one to a
counter, whether it upserts, skips or fails (`MessageCounts`).

**Chat.**  On the types (`TypeInv`) and the life of the session (`SessionInv`: one
turn creates it, and whoever is past opening it finds it there until it is
deleted) rests `TimelineInv`.  `append_message` reads the sequence and inserts
later; what was read is never above the next number (`ReadsAreBehind`), every
number below is taken (`Contiguous`), so the constraint lets an insert pass only
if it is the next one (`InsertsNext`), with question and answer in one
transaction.  A revert breaks the second of these until the next insert; it is
why the invariant speaks of sessions without one.

That the context is complete follows a turn through its two loads (`ContextInv`):
a summary, stored or loaded, covers every message up to its tail
(`SummaryComplete`), and is stored behind it; the rows after the tail and before
the question are loaded, or were when the summary was written
(`ContextHolds`, `RecentIsStored`).  Other turns only append behind the question.
`SummaryMatchesRows` needs in addition that a fact is settled (`FactsInv`): its
turn has ended, and nobody but the turn itself writes its answer.  `PromptsFit`
adds up token counts by folds over finite sets.  The lemmas on `Tokens`
(`FoldExists`, `TokensUnroll`, `TokensRemove`, `TokensMonotone`) prove by the
least counterexample, which needs no induction theorem, what they need; then the
longest suffix within a share never exceeds it (`NewestFits`), and shares of what
is left never exceed the whole (`PromptParts`).

`StreamInv` says of every turn what has been told by its place: a registered one
no closing event, one past the start `generation_start`, one past retrieval
`rag_ready`.  `AnswerInv` counts: the produced chunks are those told while the
turn streams, and one more when the cancel has taken the last of them
(`cancelling`); the two places where the code stores the text then make the row
and the count equal, and a stored answer has no other writer.

**Console.**  Every step of a tab is a step of the session or none of it
(`TabsDriveTheSession`), so all that is proved of the turns holds under a tab.
`ServerInv` adds what a tab relies on: a delta is one chunk, a stream starts once
and before its closing event, that event tells how the turn ended, and a turn has
one question and one answer, or none when it broke.  `ConsoleTypeOK` is inductive
with `NothingEarly` (of a turn nobody asked nothing is at hand) and `OneStream`:
the store has one stream state, and it is that of the one turn a stream is
listened to or refreshed for; otherwise a late event of an old stream would be
taken for the new one's.  `StreamedTextShown` needs of every stream whether its
start was read (`TextInv`): before, the optimistic messages are there, after, the
real answer, and the chunks read are counted into it.

`ViewMatchesStored` speaks of a tab at rest.  `ViewInv` follows every turn the tab
is sure of to that rest (`SureTurn`).  The turn runs only while the tab is active
for it (`Attended`) and keeps its two rows that long (`KeptInFull`); while it is
listened to, the screen shows its text so far (`ShownLive`), and at the closing
event that text is the stored one, because the event says how long the answer is
(`ClosingTold`).  A stream that breaks is refreshed from a page read after the
turn ended (`ShownBroken`); a page, of a refresh or of a load, holds of every
settled turn what is stored (`PagesAgree`, `LoadAgrees`), so that taking it changes
nothing of the other turns either.  A load does not meet a stream of a turn the
tab is sure of: the turns such a load may lose are the unsure ones.

**Visitors.**  `LeasesExact` is inductive once the counters are numbers
(`LeaseInv`).  Every step takes one lease, gives one or moves none
(`RequestMovesOwnLease`), and each of the three changes the number of open
streams of an ip or a project exactly as it changes the counter
(`OpenAfterTaking`, `OpenAfterGiving`, `OpenAfterNeither`).  That the decrement
cuts off at zero never matters, as the lease that is given was counted.
`WindowsHold` speaks of every request that was charged, while the limiter only
remembers a queue of them.  `WindowInv` relates the two (`Covers`): the queue is
the end of what was charged, and everything it has forgotten has left its window
for good, by popleft (`RecentCovers`) or by the cleanup, whose hour is no shorter
than any window (`CleanedCovers`).  A request is charged to a queue shorter than
the limit, so the one that many places before it is among the forgotten
(`ChargeKeeps`).

**Search.**  `HitsFromScope` speaks of the last step; `SearchInv` follows ids there
from the queries.  The rows stay a table (`IndexInv`), because new ones come behind
those in use (`NewRows`, `GreatestNumber`), and the owner of every row is
remembered.  A full-text answer then holds ids of the scope, each once, and a
vector answer contents of the scope and of its own source (`FtsAnswers`,
`VectorAnswers`); flattened in the order of the sources they stay distinct
(`FlattenedIs`), and mapping them to ids keeps that but for chunks that are gone
(`ChunkIdsRanked`).  So an id that is fused, fetched and reranked is one that an
item of the scope has or had (`Owned`, `FusedIs`, `RowsWithAre`, `RerankedAre`);
if the row found under it is another item's, the id has two owners (`TwoOwners`),
which is the exception.  Outside a search everything it leaves is empty
(`Quiet`), which is what a new scope needs.

`BestFirst` rests on three lemmas about the operators.  Sorting by a strict total
order puts every element in one place, and an earlier one at an earlier place
(`InOrderIs`: the numbers of elements that come before are all different, so all
places are taken).  What is kept of a sequence keeps its order (`OnlyIs`).  And a
sum over a finite set grows with its summands (`SumMonotone`, again by the least
counterexample).  The scores with the place of entry are such an order
(`PreferredOrders`); the share of a ranking falls with the rank (`DivFalls`,
`PartsAre`), so a chunk that every ranking puts first has no lower score, and with
the same score it entered first (`OutrankingIsPreferred`).

**Widget.**  `WidgetSettles` speaks of the end only.  `WidgetInv` follows the way
there: a message that is not settled is the active one of the present request,
which is being read (`UnsettledIsActive`); a busy composer has such a request, or
a failed cancel (`BusyReads`); and the events that request has still to read
(`EventsFit`) begin with `session_ready` and `generation_start` as long as its
messages are temporary, and close with one last event once the answer is over.
Hence a delta or an end always finds the message it is for, and a stream that
ends has settled it (`ApplyingKeeps`, `ClosingKeeps`).

**Source page.**  `StreamsReachable` speaks of running jobs only: of a job that is
over, an aborted stream may still be reloading and take the entries of its
successor away when it ends.  That this cannot happen to a running job is the
core of `Wired`: a stream reloads only when its job is over, one that reads is not
aborted (`StreamsFit`), and an entry of the maps names a stream that is not aborted
and the source of its job (`MapsFit`); jobs and requests keep to one source
(`JobsFit`, `RequestFits`).  `PanelSettles` is inductive with it: whatever stops a
stream hides or closes the panel in the same step, and a stream that goes on keeps
it (`PanelsKept`).  `RowsSettle` speaks of the end, and `RowsTold` of the way there:
whatever the page shows wrongly it will still be told, by a stream that has not
shown its reload (`StreamTells`), a load (`LoadTells`) or an answer
(`AnswerTells`): one that brings the row, or one that names a job which then gets
its stream or has one already (`Waits`).  When nothing is under way nothing tells,
so nothing is wrong.  For `BarsSettle` it is not enough that somebody tells of the
item: the event of its end must be among those still to come.  `Due` says that it
is after event `n` of a job, because the item is left or because the log has it
there already; a step of the server keeps that (`ReportsBars`, an item leaves the
rest of its job with the event of its end) and a claim is never the last event of
an item (`LogFits`).  A bar then has a request that may start its job (`Asked`),
the answer that names a new job nobody has read (`Starting`), or a stream at an
event after which the item is due (`Following`), or it is missed (`BarTold`).

**Only model-checked**: liveness (`JobSettles`, `RegisteredStreamEnds`,
`BusyItemSettles`, `SyncSettles`, `ComposerFreed`), which is out of the prover's
reach.  Every invariant and every action property of a passing run is stated by a
theorem.

## 5. Plan

Done: the modules of section 2 and the proofs of section 4.  Left, in this order:

1. The restart that loses the jobs while the items stay (in the list of hazards).
2. The files of an item.

Not modelled, with the reasons in `PROJECT.json`: text splitting and parsing
(pure functions on text), model profiles, provider adapters and settings
(records and network I/O), authentication, logging, start-up, views; forking a
session, which no endpoint calls; in the crawl, HTML extraction and the selectors;
in the chat, archiving and listing of sessions; in the console store, older pages,
drafts and switching between sessions.
