---------------------------- MODULE WebCrawlSync ----------------------------
(***************************************************************************)
(* A web crawl source: services/sources/web_crawl.py and                   *)
(* ingestion/crawler/crawler.py, with what else touches the rows of the    *)
(* source while a sync runs: the requests that delete an item, delete the  *)
(* source or change its crawl configuration (endpoints/source.py,          *)
(* services/sources/source.py and source_item.py), and the indexing jobs   *)
(* that share the source's active group with the sync.                     *)
(*                                                                         *)
(* A page is its version: the web server stamps it with an etag and the    *)
(* parser gets a text from it, TextOf, whose hash stands for it; two       *)
(* versions may have one text.  An item is named by its item_key, the      *)
(* normalised URL.  Each database transaction is one step, and so is what  *)
(* the event loop does between two suspension points.  Indexing is seen    *)
(* from outside: ItemIndexing has its inside.                              *)
(***************************************************************************)
EXTENDS Naturals, Sequences, FiniteSets

CONSTANTS
  Keys,        \* normalised URLs
  InScope,     \* those that allowed_domains and the path rules let through
  Configs,     \* the crawl configurations an administrator may save
  MaxPages,    \* max_pages of every configuration
  TextOf,      \* the text of a page, by key and version 1, 2, ... (bound)
  Unstamped,   \* the pages the server sends without an etag
  Targets,     \* bound: the items that requests to index or delete may name
  None

Versions == UNION {DOMAIN TextOf[k] : k \in Keys}
Texts == UNION {{TextOf[k][v] : v \in DOMAIN TextOf[k]} : k \in Keys}

ASSUME WebCrawlAssumption ==
  /\ IsFiniteSet(Keys)
  /\ InScope \subseteq Keys /\ Targets \subseteq Keys /\ Unstamped \subseteq Keys
  /\ Configs \subseteq [entry : {"url_list", "sitemap_url", "site_root"}, urls : Seq(Keys)]
  /\ Configs # {}
  /\ MaxPages \in Nat \ {0}
  /\ DOMAIN TextOf = Keys
  /\ \A k \in Keys : TextOf[k] \in Seq(Texts) /\ TextOf[k] # <<>>
  /\ None \notin Versions /\ None \notin Texts /\ None \notin Configs

VARIABLES
  page,        \* the version the web server has of a page
  source,      \* the sources row: "present", or "deleted"
  config,      \* sources.web_crawl_config
  status,      \* source_items.status, "absent" without a row
  text,        \* document_contents.content, whose hash is item_hash
  etag,        \* metadata_json.etag
  rows, vecs,  \* the text the chunk rows, and the vectors, were made from
  collection,  \* is the vector collection of the source there?
  job,         \* the active job of the source: "none", "sync" or "index"
  request,     \* the configuration read by a sync request not started yet
  cfg,         \* the configuration the running sync was given
  phase,       \* where sync_source is
  known,       \* previous_metadata_by_item_key: the etags it read
  waiting,     \* the workers that have not put their result
  queue,       \* asyncio.Queue between the workers and the main loop
  doneCount,   \* completed_workers
  stale,       \* the items to clean up, with the status read for them
  purging,     \* the item whose row is deleted and whose vectors are not yet
  counters,    \* RAGSyncCounters
  work,        \* indexing: where the worker of an item is
  reading,     \* indexing: the text the worker has loaded
  deleting,    \* items whose deletion is accepted
  sourceGone,  \* how far a request that deletes the source has come
  updating,    \* a configuration that is accepted and not committed
  disturbed    \* has an item, or the source, been deleted during this sync?

itemVars  == <<status, text, etag>>
indexVars == <<rows, vecs, collection>>
syncVars  == <<cfg, phase, known, waiting, queue, doneCount, stale, purging, counters>>
workVars  == <<work, reading>>
adminVars == <<request, deleting, sourceGone, updating>>
vars == <<page, source, config, itemVars, indexVars, job, syncVars, workVars,
          adminVars, disturbed>>

Busy == {"PROCESSING", "PAUSE_REQUESTED", "PAUSED"}
DeleteBlocked == {"PROCESSING", "PAUSE_REQUESTED"}
Claimable == {"PENDING", "PAUSED", "FAILED"}
Status == Busy \cup Claimable \cup {"absent", "COMPLETED"}

Present(k) == status[k] # "absent"

Results == [kind : {"not_modified", "parsed"}, key : Keys, version : Versions,
            etag : Versions \cup {None}]
Marks   == [kind : {"failed", "done"}, key : Keys]
Counter == {"upserted", "skipped", "failed", "pruned", "cleanup_failed"}
NoCounts == [c \in Counter |-> 0]
Count(c) == counters' = [counters EXCEPT ![c] = @ + 1]

(* _discover_url_list: the URLs in scope, until max_pages are found.         *)
Discovered(c) ==
  {url \in InScope : \E i \in DOMAIN c.urls :
     /\ c.urls[i] = url
     /\ Cardinality({c.urls[j] : j \in 1 .. i - 1} \cap InScope) < MaxPages}

TypeOK ==
  /\ \A k \in Keys : page[k] \in DOMAIN TextOf[k]
  /\ source \in {"present", "deleted"}
  /\ config \in Configs
  /\ status \in [Keys -> Status]
  /\ text \in [Keys -> Texts \cup {None}]
  /\ etag \in [Keys -> Versions \cup {None}]
  /\ rows \in [Keys -> Texts \cup {None}] /\ vecs \in [Keys -> Texts \cup {None}]
  /\ collection \in BOOLEAN
  /\ job \in {"none", "sync", "index"}
  /\ request \in Configs \cup {None}
  /\ cfg \in Configs \cup {None}
  /\ phase \in {"idle", "loading", "pages", "pruning", "purging"}
  /\ known \in [Keys -> Versions \cup {None}]
  /\ waiting \subseteq Keys
  /\ queue \in Seq(Results \cup Marks)
  /\ doneCount \in 0 .. Cardinality(Keys)
  /\ stale \in [Keys -> Status]
  /\ purging \in Keys \cup {None}
  /\ counters \in [Counter -> Nat]
  /\ work \in [Keys -> {"no", "queued", "claimed"}]
  /\ reading \in [Keys -> Texts \cup {None}]
  /\ deleting \subseteq Keys
  /\ sourceGone \in {"no", "checked", "purged"}
  /\ updating \in Configs \cup {None}
  /\ disturbed \in BOOLEAN
  /\ phase # "idle" <=> job = "sync"
  /\ \A k \in Keys : ~Present(k) => text[k] = None /\ etag[k] = None /\ rows[k] = None

NoItem(value) == [k \in Keys |-> value]

SyncIdle ==
  /\ cfg' = None /\ phase' = "idle" /\ known' = NoItem(None)
  /\ waiting' = {} /\ queue' = <<>> /\ doneCount' = 0
  /\ stale' = NoItem("absent") /\ purging' = None /\ counters' = NoCounts

(* create_source has made the row and an empty vector collection. *)
Init ==
  /\ page = NoItem(1)
  /\ source = "present" /\ config \in Configs
  /\ status = NoItem("absent") /\ text = NoItem(None) /\ etag = NoItem(None)
  /\ rows = NoItem(None) /\ vecs = NoItem(None) /\ collection = TRUE
  /\ job = "none" /\ request = None
  /\ cfg = None /\ phase = "idle" /\ known = NoItem(None)
  /\ waiting = {} /\ queue = <<>> /\ doneCount = 0
  /\ stale = NoItem("absent") /\ purging = None /\ counters = NoCounts
  /\ work = NoItem("no") /\ reading = NoItem(None)
  /\ deleting = {} /\ sourceGone = "no" /\ updating = None
  /\ disturbed = FALSE

(* The site changes. *)
Publish(k) ==
  /\ page[k] + 1 \in DOMAIN TextOf[k]
  /\ page' = [page EXCEPT ![k] = @ + 1]
  /\ UNCHANGED <<source, config, itemVars, indexVars, job, syncVars, workVars,
                 adminVars, disturbed>>

-----------------------------------------------------------------------------
(* sync_web_crawl: the request's dependencies read the configuration, then   *)
(* start_job starts the sync or returns the job that is active.              *)

SyncRequest ==
  /\ request = None /\ source = "present"
  /\ request' = config
  /\ UNCHANGED <<page, source, config, itemVars, indexVars, job, syncVars, workVars,
                 deleting, sourceGone, updating, disturbed>>

SyncStart ==
  /\ request # None /\ job = "none"
  /\ job' = "sync" /\ phase' = "loading" /\ cfg' = request /\ request' = None
  /\ disturbed' = (source = "deleted")
  /\ UNCHANGED <<page, source, config, itemVars, indexVars, known, waiting, queue,
                 doneCount, stale, purging, counters, workVars, deleting, sourceGone,
                 updating>>

SyncReused ==
  /\ request # None /\ job # "none"
  /\ request' = None
  /\ UNCHANGED <<page, source, config, itemVars, indexVars, job, syncVars, workVars,
                 deleting, sourceGone, updating, disturbed>>

(* The job is over, whichever way: the workers are cancelled. *)
SyncEnds ==
  /\ job' = "none" /\ disturbed' = FALSE
  /\ SyncIdle
  /\ UNCHANGED <<page, source, config, indexVars, workVars, adminVars>>

SyncRaises ==
  /\ SyncEnds
  /\ UNCHANGED itemVars

(* The source is gone, or its entry type is not implemented. *)
LoadFails ==
  /\ phase = "loading"
  /\ source = "deleted" \/ cfg.entry # "url_list"
  /\ SyncRaises

(* Nothing discovered: SYNC_COMPLETE at once, and no cleanup. *)
DiscoversNothing ==
  /\ phase = "loading" /\ source = "present" /\ cfg.entry = "url_list"
  /\ Discovered(cfg) = {}
  /\ SyncEnds
  /\ UNCHANGED itemVars

Discover ==
  /\ phase = "loading" /\ source = "present" /\ cfg.entry = "url_list"
  /\ Discovered(cfg) # {}
  /\ phase' = "pages"
  /\ known' = etag
  /\ waiting' = Discovered(cfg)
  /\ UNCHANGED <<page, source, config, itemVars, indexVars, job, cfg, queue, doneCount,
                 stale, purging, counters, workVars, adminVars, disturbed>>

(* A worker puts its result and CrawlWorkerDone: the queue has no bound, so  *)
(* nothing runs between the two.                                             *)
Put(k, result) ==
  /\ waiting' = waiting \ {k}
  /\ queue' = queue \o <<result, [kind |-> "done", key |-> k]>>
  /\ UNCHANGED <<page, source, config, itemVars, indexVars, job, cfg, phase, known,
                 doneCount, stale, purging, workVars, adminVars, disturbed>>

Answer(k, kind) ==
  Put(k, [kind |-> kind, key |-> k, version |-> page[k],
          etag |-> IF k \in Unstamped THEN None ELSE page[k]])

FetchNotModified(k) ==
  /\ k \in waiting /\ known[k] = page[k]
  /\ Answer(k, "not_modified")
  /\ UNCHANGED counters

FetchPage(k) ==
  /\ k \in waiting
  /\ Answer(k, "parsed")
  /\ UNCHANGED counters

(* Mutant: a worker that raises does not put its CrawlWorkerDone. *)
FetchFailsSilently(k) ==
  /\ k \in waiting
  /\ waiting' = waiting \ {k}
  /\ queue' = Append(queue, [kind |-> "failed", key |-> k])
  /\ Count("failed")
  /\ UNCHANGED <<page, source, config, itemVars, indexVars, job, cfg, phase, known,
                 doneCount, stale, purging, workVars, adminVars, disturbed>>

(* Timeout, HTTP error or a page the parser rejects. *)
FetchFails(k) ==
  /\ k \in waiting
  /\ Put(k, [kind |-> "failed", key |-> k])
  /\ Count("failed")

-----------------------------------------------------------------------------
(* The main loop of sync_source. *)

Received(kind) == phase = "pages" /\ queue # <<>> /\ Head(queue).kind = kind

Taken ==
  /\ queue' = Tail(queue)
  /\ UNCHANGED <<page, source, config, indexVars, job, cfg, phase, known, waiting,
                 stale, purging, workVars, adminVars, disturbed>>

WorkerDone ==
  /\ Received("done")
  /\ doneCount' = doneCount + 1
  /\ Taken
  /\ UNCHANGED <<itemVars, counters>>

ItemFailed ==
  /\ Received("failed")
  /\ Taken
  /\ UNCHANGED <<itemVars, doneCount, counters>>

(* _sync_crawled_page: one transaction. *)
SyncCrawledPage(kind) ==
  /\ Received(kind)
  /\ Taken
  /\ UNCHANGED doneCount

CreateItem(r) ==
  /\ SyncCrawledPage("parsed")
  /\ ~Present(r.key) /\ source = "present"
  /\ status' = [status EXCEPT ![r.key] = "PENDING"]
  /\ text' = [text EXCEPT ![r.key] = TextOf[r.key][r.version]]
  /\ etag' = [etag EXCEPT ![r.key] = r.etag]
  /\ Count("upserted")

(* Mutant: a page answered with 304 is not counted. *)
NotModifiedUncounted(r) ==
  /\ SyncCrawledPage("not_modified")
  /\ Present(r.key)
  /\ etag' = [etag EXCEPT ![r.key] = r.etag]
  /\ UNCHANGED <<status, text, counters>>

NotModified(r) ==
  /\ SyncCrawledPage("not_modified")
  /\ Present(r.key)
  /\ etag' = [etag EXCEPT ![r.key] = r.etag]
  /\ Count("skipped")
  /\ UNCHANGED <<status, text>>

(* Mutant: the metadata of a busy item is updated although its page is not. *)
SkipBusyChecked(r) ==
  /\ SyncCrawledPage("parsed")
  /\ status[r.key] \in Busy
  /\ etag' = [etag EXCEPT ![r.key] = r.etag]
  /\ Count("skipped")
  /\ UNCHANGED <<status, text>>

SkipBusy(r) ==
  /\ SyncCrawledPage("parsed")
  /\ status[r.key] \in Busy
  /\ Count("skipped")
  /\ UNCHANGED itemVars

SameText(r) ==
  /\ SyncCrawledPage("parsed")
  /\ Present(r.key) /\ status[r.key] \notin Busy
  /\ text[r.key] = TextOf[r.key][r.version]
  /\ etag' = [etag EXCEPT ![r.key] = r.etag]
  /\ IF status[r.key] = "COMPLETED"
     THEN Count("skipped") /\ UNCHANGED status
     ELSE Count("upserted") /\ status' = [status EXCEPT ![r.key] = "PENDING"]
  /\ UNCHANGED text

(* Mutant: a changed page keeps the status of its item. *)
NewTextSameStatus(r) ==
  /\ SyncCrawledPage("parsed")
  /\ Present(r.key) /\ status[r.key] \notin Busy
  /\ text[r.key] # TextOf[r.key][r.version]
  /\ text' = [text EXCEPT ![r.key] = TextOf[r.key][r.version]]
  /\ etag' = [etag EXCEPT ![r.key] = r.etag]
  /\ Count("upserted")
  /\ UNCHANGED status

NewText(r) ==
  /\ SyncCrawledPage("parsed")
  /\ Present(r.key) /\ status[r.key] \notin Busy
  /\ text[r.key] # TextOf[r.key][r.version]
  /\ status' = [status EXCEPT ![r.key] = "PENDING"]
  /\ text' = [text EXCEPT ![r.key] = TextOf[r.key][r.version]]
  /\ etag' = [etag EXCEPT ![r.key] = r.etag]
  /\ Count("upserted")

(* A 304 for an item deleted meanwhile is used as a parsed page, and an item *)
(* of a deleted source breaks its foreign key: the exception leaves the loop *)
(* and with it the job.                                                      *)
PageRaises ==
  /\ Received("not_modified") \/ (Received("parsed") /\ source = "deleted")
  /\ ~Present(Head(queue).key)
  /\ SyncRaises

MainLoopStep ==
  \/ WorkerDone \/ ItemFailed \/ PageRaises
  \/ /\ queue # <<>>
     /\ \/ CreateItem(Head(queue)) \/ NotModified(Head(queue)) \/ SkipBusy(Head(queue))
        \/ SameText(Head(queue)) \/ NewText(Head(queue))

(* Every worker is done: the items of URLs not discovered are loaded. *)
PagesEnd ==
  /\ phase = "pages" /\ doneCount = Cardinality(Discovered(cfg))
  /\ phase' = "pruning"
  /\ stale' = [k \in Keys |-> IF k \in Discovered(cfg) THEN "absent" ELSE status[k]]
  /\ UNCHANGED <<page, source, config, itemVars, indexVars, job, cfg, known, waiting,
                 queue, doneCount, purging, counters, workVars, adminVars, disturbed>>

Pruned(k) ==
  /\ phase = "pruning" /\ stale[k] # "absent"
  /\ stale' = [stale EXCEPT ![k] = "absent"]
  /\ UNCHANGED <<page, source, config, collection, job, cfg, known, waiting, queue,
                 doneCount, workVars, request, sourceGone, updating, disturbed>>

PruneSkipsBusy(k) ==
  /\ Pruned(k) /\ stale[k] \in Busy
  /\ Count("skipped")
  /\ UNCHANGED <<itemVars, rows, vecs, phase, purging, deleting>>

(* Mutant: the metadata outlives the row. *)
RowsGoButMetadata(keys) ==
  /\ status' = [k \in Keys |-> IF k \in keys THEN "absent" ELSE status[k]]
  /\ text' = [k \in Keys |-> IF k \in keys THEN None ELSE text[k]]
  /\ rows' = [k \in Keys |-> IF k \in keys THEN None ELSE rows[k]]
  /\ deleting' = deleting \ keys
  /\ UNCHANGED etag

(* A row goes with its content and chunks; a request that was to delete it   *)
(* will not find it.                                                         *)
RowsGo(keys) ==
  /\ status' = [k \in Keys |-> IF k \in keys THEN "absent" ELSE status[k]]
  /\ text' = [k \in Keys |-> IF k \in keys THEN None ELSE text[k]]
  /\ etag' = [k \in Keys |-> IF k \in keys THEN None ELSE etag[k]]
  /\ rows' = [k \in Keys |-> IF k \in keys THEN None ELSE rows[k]]
  /\ deleting' = deleting \ keys

(* Mutant: the cleanup takes what a delete request may take. *)
PruneRowPaused(k) ==
  /\ Pruned(k) /\ stale[k] \notin DeleteBlocked /\ Present(k)
  /\ RowsGo({k})
  /\ IF rows[k] # None
     THEN phase' = "purging" /\ purging' = k /\ UNCHANGED counters
     ELSE Count("pruned") /\ UNCHANGED <<phase, purging>>
  /\ UNCHANGED vecs

(* The vector ids are listed in the transaction that deletes the row.        *)
PruneRow(k) ==
  /\ Pruned(k) /\ stale[k] \notin Busy /\ Present(k)
  /\ RowsGo({k})
  /\ IF rows[k] # None
     THEN phase' = "purging" /\ purging' = k /\ UNCHANGED counters
     ELSE Count("pruned") /\ UNCHANGED <<phase, purging>>
  /\ UNCHANGED vecs

PruneFindsNothing(k) ==
  /\ Pruned(k) /\ stale[k] \notin Busy /\ ~Present(k)
  /\ Count("cleanup_failed")
  /\ UNCHANGED <<itemVars, rows, vecs, phase, purging, deleting>>

(* Best effort: when Chroma fails the event carries an error id. *)
PruneVectors(ok) ==
  /\ phase = "purging"
  /\ phase' = "pruning" /\ purging' = None
  /\ vecs' = [vecs EXCEPT ![purging] = IF ok THEN None ELSE @]
  /\ counters' = [counters EXCEPT !["pruned"] = @ + 1,
                                  !["cleanup_failed"] = IF ok THEN @ ELSE @ + 1]
  /\ UNCHANGED <<page, source, config, itemVars, rows, collection, job, cfg, known,
                 waiting, queue, doneCount, stale, workVars, adminVars, disturbed>>

(* SYNC_COMPLETE. *)
SyncCompletes ==
  /\ phase = "pruning" /\ \A k \in Keys : stale[k] = "absent"
  /\ SyncEnds
  /\ UNCHANGED itemVars

SyncStep ==
  \/ LoadFails \/ DiscoversNothing \/ Discover
  \/ \E k \in Keys : FetchNotModified(k) \/ FetchPage(k) \/ FetchFails(k)
  \/ MainLoopStep \/ PagesEnd
  \/ \E k \in Keys : PruneSkipsBusy(k) \/ PruneRow(k) \/ PruneFindsNothing(k)
  \/ \E ok \in BOOLEAN : PruneVectors(ok)
  \/ SyncCompletes

-----------------------------------------------------------------------------
(* Indexing and resume jobs, and pause requests: see ItemIndexing.           *)

IndexUnchanged ==
  UNCHANGED <<page, source, config, text, etag, collection, syncVars, adminVars,
              disturbed>>

IndexStart(items) ==
  /\ job = "none" /\ source = "present"
  /\ items # {} /\ \A k \in items : Present(k)
  /\ job' = "index"
  /\ work' = [k \in Keys |-> IF k \in items THEN "queued" ELSE "no"]
  /\ IndexUnchanged /\ UNCHANGED <<status, rows, vecs, reading>>

ClaimItem(k) ==
  /\ work[k] = "queued" /\ status[k] \in Claimable
  /\ status' = [status EXCEPT ![k] = "PROCESSING"]
  /\ work' = [work EXCEPT ![k] = "claimed"]
  /\ reading' = [reading EXCEPT ![k] = text[k]]
  /\ IndexUnchanged /\ UNCHANGED <<rows, vecs, job>>

(* The worker of an item stops.                                              *)
WorkerLeaves(k, newStatus) ==
  /\ status' = [status EXCEPT ![k] = IF @ = "absent" THEN @ ELSE newStatus]
  /\ work' = [work EXCEPT ![k] = "no"]
  /\ reading' = [reading EXCEPT ![k] = None]
  /\ IndexUnchanged /\ UNCHANGED job

ClaimSkips(k) ==
  /\ work[k] = "queued" /\ status[k] \notin Claimable
  /\ work' = [work EXCEPT ![k] = "no"]
  /\ IndexUnchanged /\ UNCHANGED <<status, rows, vecs, reading, job>>

PauseRequest(k) ==
  /\ status[k] = "PROCESSING"
  /\ status' = [status EXCEPT ![k] = "PAUSE_REQUESTED"]
  /\ IndexUnchanged /\ UNCHANGED <<rows, vecs, job, workVars>>

Indexed(k) ==
  /\ Present(k) /\ collection
  /\ rows' = [rows EXCEPT ![k] = reading[k]]
  /\ vecs' = [vecs EXCEPT ![k] = reading[k]]

(* A pause or a failure comes before the old chunks and vectors are cleared  *)
(* or after the new ones are stored.                                         *)
IndexStops(k) ==
  /\ work[k] = "claimed"
  /\ Indexed(k) \/ UNCHANGED <<rows, vecs>>
  /\ \/ status[k] = "PAUSE_REQUESTED" /\ WorkerLeaves(k, "PAUSED")
     \/ WorkerLeaves(k, "FAILED")

IndexCompletes(k) ==
  /\ work[k] = "claimed"
  /\ Indexed(k)
  /\ WorkerLeaves(k, "COMPLETED")

IndexEnds ==
  /\ job = "index" /\ \A k \in Keys : work[k] = "no"
  /\ job' = "none"
  /\ IndexUnchanged /\ UNCHANGED <<status, rows, vecs, workVars>>

IndexStep ==
  \/ \E items \in SUBSET Targets : IndexStart(items)
  \/ \E k \in Keys : \/ ClaimItem(k) \/ ClaimSkips(k) \/ PauseRequest(k) \/ IndexStops(k)
                     \/ IndexCompletes(k)
  \/ IndexEnds

-----------------------------------------------------------------------------
(* Administrator's requests that check the state first and write later.      *)

AdminUnchanged ==
  UNCHANGED <<page, job, syncVars, workVars, request>>

(* Bound: one such request at a time. *)
NoneAccepted == deleting = {} /\ sourceGone = "no" /\ updating = None

AcceptDelete(k) ==
  /\ k \in Targets /\ NoneAccepted
  /\ Present(k) /\ status[k] \notin DeleteBlocked
  /\ deleting' = deleting \cup {k}
  /\ AdminUnchanged
  /\ UNCHANGED <<source, config, itemVars, indexVars, sourceGone, updating, disturbed>>

DeleteItem(k) ==
  /\ k \in deleting
  /\ RowsGo({k})
  /\ vecs' = [vecs EXCEPT ![k] = IF rows[k] = None THEN @ ELSE None]
  /\ disturbed' = (disturbed \/ job = "sync")
  /\ AdminUnchanged
  /\ UNCHANGED <<source, config, collection, sourceGone, updating>>

(* _ensure_no_active_source_rag_job looks at the jobs of this moment only. *)
AcceptSourceDelete ==
  /\ source = "present" /\ job = "none" /\ NoneAccepted
  /\ sourceGone' = "checked"
  /\ AdminUnchanged
  /\ UNCHANGED <<source, config, itemVars, indexVars, deleting, updating, disturbed>>

DeleteCollection ==
  /\ sourceGone = "checked"
  /\ vecs' = NoItem(None) /\ collection' = FALSE
  /\ sourceGone' = "purged"
  /\ AdminUnchanged
  /\ UNCHANGED <<source, config, itemVars, rows, deleting, updating, disturbed>>

(* The commit at the end of the request cascades to the items. *)
DeleteSource ==
  /\ sourceGone = "purged"
  /\ source' = "deleted"
  /\ RowsGo(Keys)
  /\ sourceGone' = "no"
  /\ disturbed' = (disturbed \/ job = "sync")
  /\ AdminUnchanged
  /\ UNCHANGED <<config, vecs, collection, updating>>

(* Chroma fails, or the commit does: the source stays, its vectors may not.  *)
SourceDeleteFails ==
  /\ sourceGone # "no"
  /\ sourceGone' = "no"
  /\ AdminUnchanged
  /\ UNCHANGED <<source, config, itemVars, indexVars, deleting, updating, disturbed>>

AcceptUpdate(c) ==
  /\ source = "present" /\ job = "none" /\ NoneAccepted
  /\ updating' = c
  /\ AdminUnchanged
  /\ UNCHANGED <<source, config, itemVars, indexVars, deleting, sourceGone, disturbed>>

(* A source deleted meanwhile takes the update with it. *)
UpdateConfig ==
  /\ updating # None
  /\ config' = IF source = "present" THEN updating ELSE config
  /\ updating' = None
  /\ AdminUnchanged
  /\ UNCHANGED <<source, itemVars, indexVars, deleting, sourceGone, disturbed>>

AdminStep ==
  \/ \E k \in Keys : AcceptDelete(k) \/ DeleteItem(k)
  \/ AcceptSourceDelete \/ DeleteCollection \/ DeleteSource \/ SourceDeleteFails
  \/ \E c \in Configs : AcceptUpdate(c)
  \/ UpdateConfig

(* The process dies: jobs and requests are gone, rows and vectors stay.      *)
Crash ==
  /\ job # "none"
  /\ job' = "none" /\ SyncIdle
  /\ work' = NoItem("no") /\ reading' = NoItem(None)
  /\ request' = None /\ deleting' = {} /\ sourceGone' = "no" /\ updating' = None /\ disturbed' = FALSE
  /\ UNCHANGED <<page, source, config, itemVars, indexVars>>

Next ==
  \/ \E k \in Keys : Publish(k)
  \/ SyncRequest \/ SyncStart \/ SyncReused \/ SyncStep
  \/ IndexStep \/ AdminStep \/ Crash

Spec == Init /\ [][Next]_vars

(* A job that runs goes on: every fetch has a timeout, the event loop serves *)
(* every task.  Nobody has to ask for anything.                              *)
FairSpec == Spec /\ WF_vars(SyncStep)

-----------------------------------------------------------------------------
(* Properties. *)

(* The etag sent as If-None-Match stands for the text that is kept: a 304    *)
(* never makes the sync skip a page it has not stored.                       *)
CopyMatchesItsValidator ==
  \A k \in Keys : etag[k] # None => text[k] = TextOf[k][etag[k]]

(* What the search may use of a completed item is the index of the text that *)
(* is stored for it now, whatever syncs came between its indexing runs.  The *)
(* exception is a source whose deletion failed after its vectors were gone.  *)
CompletedIndexIsCurrent ==
  collection => \A k \in Keys :
    status[k] = "COMPLETED" => rows[k] = text[k] /\ vecs[k] = text[k]

(* The counters of the event stream add up: no discovered page is lost and   *)
(* none is counted twice, in whatever order workers and main loop go.        *)
PagesAccountedFor ==
  phase = "pages" =>
    counters["upserted"] + counters["skipped"] + counters["failed"]
      + Cardinality(waiting)
      + Cardinality({i \in DOMAIN queue : queue[i].kind \in {"not_modified", "parsed"}})
    = Cardinality(Discovered(cfg))

(* The module's own rule for _INDEX_BUSY_STATUSES: a sync neither changes    *)
(* nor removes an item that is being indexed or paused, although it looks at *)
(* the statuses of removed pages once and deletes them later.  Only requests *)
(* to delete an item or the source take such an item away.                   *)
BusyItemsKept ==
  [][\A k \in Keys : status[k] \in Busy =>
       IF status'[k] = "absent" THEN k \in deleting \/ sourceGone = "purged"
       ELSE text'[k] = text[k]]_vars

(* An exception ends the sync of a URL list only if an item or the source    *)
(* was deleted under it: pages that fail, busy items and failed cleanups do  *)
(* not.                                                                      *)
SyncFailsOnlyIfDisturbed ==
  [][LoadFails \/ PageRaises => disturbed \/ cfg.entry # "url_list"]_vars

(* A sync never waits for a worker that will not report: it ends.            *)
SyncSettles == (job = "sync") ~> (job # "sync")

=============================================================================
