---------------------------- MODULE ItemIndexing ----------------------------
(***************************************************************************)
(* Indexing of the items of one source: services/indexing/                 *)
(* source_item_indexing.py and chunk_index_writer.py, with the requests    *)
(* that meet a running job: pause, resume and delete                       *)
(* (api/admin/endpoints/source.py, services/sources/source_item.py).       *)
(*                                                                         *)
(* Three stores are written: source_items.status and the chunk rows in     *)
(* SQLite, and the vectors in Chroma.  SQLite (WAL) has one writer at a    *)
(* time; a session takes the write lock with its first UPDATE, INSERT or   *)
(* DELETE and keeps it until commit.  Only the worker's own session keeps  *)
(* it across suspension points (from the DELETE of the old chunk rows to   *)
(* the commit after the last batch), so every other transaction is one     *)
(* step that needs the lock free.  Chroma is written at once and is no     *)
(* part of the transaction.                                                *)
(*                                                                         *)
(* A document is cut into Batches of chunks; a batch is stored as a whole. *)
(* One job at a time runs on the source: see OneActiveJobPerGroup of       *)
(* RAGJobs.  An item's row id and uid are one name: rows are not reused.   *)
(***************************************************************************)
EXTENDS Naturals, FiniteSets

CONSTANTS
  Items,         \* the source items of the source
  Deletable,     \* bound: the items an administrator may ask to delete
  NumBatches,    \* batches of EMBEDDING_BATCH_SIZE chunks in a document
  Concurrency,   \* RAG_INGEST_MAX_CONCURRENCY
  MaxCrashes,    \* bound: how often the process dies
  LockTimeouts,  \* can waiting for another session exceed busy_timeout?
  NoOne          \* the write lock is free

ASSUME ItemIndexingAssumption ==
  /\ IsFiniteSet(Items)
  /\ NoOne \notin Items
  /\ Deletable \subseteq Items
  /\ NumBatches \in Nat
  /\ Concurrency \in Nat \ {0}
  /\ MaxCrashes \in Nat
  /\ LockTimeouts \in BOOLEAN

VARIABLES
  status,    \* source_items.status, "absent" once the row is deleted
  content,   \* has the item a document_content row?
  rows,      \* committed chunk rows, by batch
  vectors,   \* vectors in the Chroma collection, by batch
  lock,      \* the worker whose session holds SQLite's write lock
  draft,     \* the chunk rows that session sees, not committed
  job,       \* the items of the active job
  allowed,   \* the statuses its workers may claim
  pc,        \* where the worker of an item is
  report,    \* the terminal event the worker has put for its item
  pausing,   \* processing_uids of a pause request that has not written yet
  deleting,  \* how far a delete request has come
  crashes    \* times the process has died

vars == <<status, content, rows, vectors, lock, draft, job, allowed, pc,
          report, pausing, deleting, crashes>>
jobVars     == <<job, allowed>>
requestVars == <<pausing, deleting>>

Batches == 1 .. NumBatches

Status == {"absent", "PENDING", "PROCESSING", "PAUSE_REQUESTED", "PAUSED",
           "COMPLETED", "FAILED"}
Claimable == {"PENDING", "PAUSED", "FAILED"}
DeleteBlocked == {"PROCESSING", "PAUSE_REQUESTED"}

(* Where a worker goes from a pause checkpoint that lets it pass. *)
AfterCheckpoint ==
  [claimed |-> "loading",    loaded |-> "parsing",    parsed |-> "splitting",
   split   |-> "preparing",  batch  |-> "embedding",  indexed |-> "finishing"]

Positions ==
  DOMAIN AfterCheckpoint \cup {AfterCheckpoint[p] : p \in DOMAIN AfterCheckpoint}
    \cup {"idle", "queued", "clearing", "adding", "failing", "done"}

(* The lock is held from the DELETE to the commit, and by no one else. *)
WritingPositions == {"batch", "embedding", "adding"}
LockHeldByWriter == \A i \in Items : lock = i <=> pc[i] \in WritingPositions

(* The workers inside the semaphore. *)
InSlots == {i \in Items : pc[i] \notin {"idle", "queued", "done"}}
SlotsRespected == Cardinality(InSlots) <= Concurrency

TypeOK ==
  /\ status \in [Items -> Status]
  /\ content \in [Items -> BOOLEAN]
  /\ rows \in [Items -> SUBSET Batches]
  /\ vectors \in [Items -> SUBSET Batches]
  /\ lock \in Items \cup {NoOne}
  /\ draft \in [Items -> SUBSET Batches]
  /\ job \in SUBSET Items
  /\ allowed \in SUBSET Claimable
  /\ pc \in [Items -> Positions]
  /\ report \in [Items -> {"none", "skipped", "completed", "paused", "failed"}]
  /\ pausing \in SUBSET Items
  /\ deleting \in [Items -> {"no", "checked", "purged"}]
  /\ crashes \in 0 .. MaxCrashes
  /\ LockHeldByWriter
  /\ SlotsRespected

Init ==
  /\ status = [i \in Items |-> "PENDING"]
  /\ content = [i \in Items |-> FALSE]
  /\ rows = [i \in Items |-> {}]
  /\ vectors = [i \in Items |-> {}]
  /\ lock = NoOne
  /\ draft = [i \in Items |-> {}]
  /\ job = {}
  /\ allowed = {}
  /\ pc = [i \in Items |-> "idle"]
  /\ report = [i \in Items |-> "none"]
  /\ pausing = {}
  /\ deleting = [i \in Items |-> "no"]
  /\ crashes = 0

-----------------------------------------------------------------------------
(* The job: ingest_source_items, one worker per requested item. *)

StartJob(items, statuses) ==
  /\ job = {}
  /\ items # {}
  /\ job' = items
  /\ allowed' = statuses
  /\ pc' = [i \in Items |-> IF i \in items THEN "queued" ELSE pc[i]]
  /\ report' = [i \in Items |-> IF i \in items THEN "none" ELSE report[i]]
  /\ UNCHANGED <<status, content, rows, vectors, lock, draft, requestVars, crashes>>

(* indexing_documents accepts items of any status that exist. *)
StartIndexing(items) ==
  /\ \A i \in items : status[i] # "absent"
  /\ StartJob(items, Claimable)

(* resume_ingest accepts paused items only. *)
StartResume(items) ==
  /\ \A i \in items : status[i] = "PAUSED"
  /\ StartJob(items, {"PAUSED"})

(* Every worker has put its WorkerDone: SYNC_COMPLETE, and the job is over. *)
JobEnds ==
  /\ job # {}
  /\ \A i \in job : pc[i] = "done"
  /\ job' = {}
  /\ pc' = [i \in Items |-> "idle"]
  /\ UNCHANGED <<status, content, rows, vectors, lock, draft, allowed, report,
                 requestVars, crashes>>

-----------------------------------------------------------------------------
(* The worker of item i: _process_single_document. *)

Goto(i, p) == pc' = [pc EXCEPT ![i] = p]

(* The worker puts its last event and leaves. *)
Leave(i, event) ==
  /\ Goto(i, "done")
  /\ report' = [report EXCEPT ![i] = event]

(* except Exception: the handler first commits what the session holds. *)
Raise(i) ==
  /\ Goto(i, "failing")
  /\ rows' = IF lock = i THEN [rows EXCEPT ![i] = draft[i]] ELSE rows
  /\ draft' = [draft EXCEPT ![i] = {}]
  /\ lock' = IF lock = i THEN NoOne ELSE lock
  /\ UNCHANGED <<status, content, vectors, jobVars, report, requestVars, crashes>>

(* async with semaphore *)
HasSlot == Cardinality(InSlots) < Concurrency

(* _resolve_source_and_item: one UPDATE ... WHERE status IN (...), and the   *)
(* commit after it.                                                          *)
Claim(i) ==
  /\ pc[i] = "queued" /\ HasSlot /\ lock = NoOne
  /\ status[i] \in allowed
  /\ status' = [status EXCEPT ![i] = "PROCESSING"]
  /\ Goto(i, "claimed")
  /\ UNCHANGED <<content, rows, vectors, lock, draft, jobVars, report, requestVars, crashes>>

Skip(i) ==
  /\ pc[i] = "queued" /\ HasSlot /\ lock = NoOne
  /\ status[i] \notin allowed \cup {"absent"}
  /\ Leave(i, "skipped")
  /\ UNCHANGED <<status, content, rows, vectors, lock, draft, jobVars, requestVars, crashes>>

ClaimsNothing(i) ==
  /\ pc[i] = "queued" /\ HasSlot /\ lock = NoOne
  /\ status[i] = "absent"
  /\ Raise(i)

(* _pause_checkpoint, with a session of its own.  In the batch loop it is    *)
(* reached once per batch that is left.                                      *)
AtCheckpoint(i) ==
  /\ pc[i] \in DOMAIN AfterCheckpoint
  /\ pc[i] = "batch" => draft[i] # Batches

CheckpointPasses(i) ==
  /\ AtCheckpoint(i)
  /\ status[i] \notin {"absent", "PAUSE_REQUESTED"}
  /\ Goto(i, AfterCheckpoint[pc[i]])
  /\ UNCHANGED <<status, content, rows, vectors, lock, draft, jobVars, report,
                 requestVars, crashes>>

(* Mutant: the exception is raised before PAUSED is committed. *)
CheckpointPausesUncommitted(i) ==
  /\ AtCheckpoint(i)
  /\ status[i] = "PAUSE_REQUESTED" /\ lock = NoOne
  /\ Leave(i, "paused")
  /\ UNCHANGED <<status, content, rows, vectors, lock, draft, jobVars, requestVars, crashes>>

CheckpointPauses(i) ==
  /\ AtCheckpoint(i)
  /\ status[i] = "PAUSE_REQUESTED" /\ lock = NoOne
  /\ status' = [status EXCEPT ![i] = "PAUSED"]
  /\ Leave(i, "paused")
  /\ UNCHANGED <<content, rows, vectors, lock, draft, jobVars, requestVars, crashes>>

(* "Source item not found", or "database is locked": the UPDATE to PAUSED    *)
(* waits for the lock its own worker holds until busy_timeout is over.       *)
CheckpointRaises(i) ==
  /\ AtCheckpoint(i)
  /\ \/ status[i] = "absent"
     \/ status[i] = "PAUSE_REQUESTED" /\ lock = i
  /\ Raise(i)

(* _ensure_parsed_document: content of an earlier run is used again. *)
UseContent(i) ==
  /\ pc[i] = "loading" /\ content[i]
  /\ Goto(i, "parsed")
  /\ UNCHANGED <<status, content, rows, vectors, lock, draft, jobVars, report,
                 requestVars, crashes>>

LoadFile(i) ==
  /\ pc[i] = "loading" /\ ~ content[i]
  /\ Goto(i, "loaded")
  /\ UNCHANGED <<status, content, rows, vectors, lock, draft, jobVars, report,
                 requestVars, crashes>>

(* The parse, then the content row and its commit; a deleted item has no    *)
(* row to attach it to.                                                      *)
Parse(i) ==
  /\ pc[i] = "parsing" /\ lock = NoOne
  /\ status[i] # "absent"
  /\ content' = [content EXCEPT ![i] = TRUE]
  /\ Goto(i, "parsed")
  /\ UNCHANGED <<status, rows, vectors, lock, draft, jobVars, report, requestVars, crashes>>

Split(i) ==
  /\ pc[i] = "splitting"
  /\ Goto(i, "split")
  /\ UNCHANGED <<status, content, rows, vectors, lock, draft, jobVars, report,
                 requestVars, crashes>>

(* Mutant: the old vectors are left to be overwritten. *)
KeepOldVectors(i) ==
  /\ pc[i] = "preparing"
  /\ Goto(i, "clearing")
  /\ UNCHANGED <<status, content, rows, vectors, lock, draft, jobVars, report,
                 requestVars, crashes>>

(* _prepare_reindex_source: the vectors of the committed rows go at once... *)
DropOldVectors(i) ==
  /\ pc[i] = "preparing"
  /\ vectors' = [vectors EXCEPT ![i] = @ \ rows[i]]
  /\ Goto(i, "clearing")
  /\ UNCHANGED <<status, content, rows, lock, draft, jobVars, report, requestVars, crashes>>

(* Mutant: a retry goes on behind the rows an earlier run committed. *)
KeepOldRows(i) ==
  /\ pc[i] = "clearing" /\ lock = NoOne
  /\ lock' = i
  /\ draft' = [draft EXCEPT ![i] = rows[i]]
  /\ Goto(i, "batch")
  /\ UNCHANGED <<status, content, rows, vectors, jobVars, report, requestVars, crashes>>

(* ...and the rows with the coming commit; the DELETE takes the write lock. *)
ClearOldRows(i) ==
  /\ pc[i] = "clearing" /\ lock = NoOne
  /\ lock' = i
  /\ draft' = [draft EXCEPT ![i] = {}]
  /\ Goto(i, "batch")
  /\ UNCHANGED <<status, content, rows, vectors, jobVars, report, requestVars, crashes>>

NextBatch(i) == Cardinality(draft[i]) + 1

(* Tokens and embeddings, then bulk_insert_document_chunks. *)
StoreRows(i) ==
  /\ pc[i] = "embedding"
  /\ draft' = [draft EXCEPT ![i] = @ \cup {NextBatch(i)}]
  /\ Goto(i, "adding")
  /\ UNCHANGED <<status, content, rows, vectors, lock, jobVars, report, requestVars, crashes>>

AddVectors(i) ==
  /\ pc[i] = "adding"
  /\ vectors' = [vectors EXCEPT ![i] = @ \cup {Cardinality(draft[i])}]
  /\ Goto(i, "batch")
  /\ UNCHANGED <<status, content, rows, lock, draft, jobVars, report, requestVars, crashes>>

CommitIndex(i) ==
  /\ pc[i] = "batch" /\ draft[i] = Batches
  /\ rows' = [rows EXCEPT ![i] = draft[i]]
  /\ draft' = [draft EXCEPT ![i] = {}]
  /\ lock' = NoOne
  /\ Goto(i, "indexed")
  /\ UNCHANGED <<status, content, vectors, jobVars, report, requestVars, crashes>>

(* The last UPDATE does not look at the status it overwrites. *)
Complete(i) ==
  /\ pc[i] = "finishing" /\ lock = NoOne
  /\ status[i] # "absent"
  /\ status' = [status EXCEPT ![i] = "COMPLETED"]
  /\ Leave(i, "completed")
  /\ UNCHANGED <<content, rows, vectors, lock, draft, jobVars, requestVars, crashes>>

(* The steps that write a row of an item deleted meanwhile. *)
WritesMissingItem(i) ==
  /\ pc[i] \in {"parsing", "finishing"}
  /\ status[i] = "absent"
  /\ Raise(i)

(* Storage, parser, splitter, embedding model or Chroma fail. *)
WorkFails(i) ==
  /\ pc[i] \in {"loading", "parsing", "splitting", "preparing", "embedding", "adding"}
  /\ Raise(i)

(* Mutant: the handler takes it that the item is still there. *)
MarkFailedUnchecked(i) ==
  /\ pc[i] = "failing"
  /\ status[i] # "absent" /\ lock = NoOne
  /\ status' = [status EXCEPT ![i] = "FAILED"]
  /\ Leave(i, "failed")
  /\ UNCHANGED <<content, rows, vectors, lock, draft, jobVars, requestVars, crashes>>

(* The end of the handler: FAILED if the item is still there. *)
MarkFailed(i) ==
  /\ pc[i] = "failing"
  /\ status[i] # "absent" => lock = NoOne
  /\ status' = [status EXCEPT ![i] = IF @ = "absent" THEN @ ELSE "FAILED"]
  /\ Leave(i, "failed")
  /\ UNCHANGED <<content, rows, vectors, lock, draft, jobVars, requestVars, crashes>>

(* Another session keeps the lock longer than busy_timeout. *)
LockTakesTooLong(i) == LockTimeouts /\ lock \notin {i, NoOne}

LockTimesOut(i) ==
  /\ LockTakesTooLong(i)
  /\ \/ pc[i] = "queued" /\ HasSlot
     \/ pc[i] \in {"parsing", "clearing", "finishing"}
     \/ AtCheckpoint(i) /\ status[i] = "PAUSE_REQUESTED"
  /\ Raise(i)

(* In the handler itself it ends the worker: WorkerDone and no event, and    *)
(* gather swallows the exception.                                            *)
WorkerDies(i) ==
  /\ pc[i] = "failing" /\ status[i] # "absent"
  /\ LockTakesTooLong(i)
  /\ Leave(i, "none")
  /\ UNCHANGED <<status, content, rows, vectors, lock, draft, jobVars, requestVars, crashes>>

WorkerStep(i) ==
  \/ Claim(i) \/ Skip(i) \/ ClaimsNothing(i)
  \/ CheckpointPasses(i) \/ CheckpointPauses(i) \/ CheckpointRaises(i)
  \/ UseContent(i) \/ LoadFile(i) \/ Parse(i) \/ Split(i)
  \/ DropOldVectors(i) \/ ClearOldRows(i)
  \/ StoreRows(i) \/ AddVectors(i) \/ CommitIndex(i) \/ Complete(i)
  \/ WritesMissingItem(i) \/ WorkFails(i) \/ LockTimesOut(i)
  \/ MarkFailed(i) \/ WorkerDies(i)

-----------------------------------------------------------------------------
(* request_pause_ingest: the statuses are read with the request... *)

PauseRead(items) ==
  /\ pausing = {}
  /\ items # {}
  /\ \A i \in items : status[i] = "PROCESSING"
  /\ pausing' = items
  /\ UNCHANGED <<status, content, rows, vectors, lock, draft, jobVars, pc, report,
                 deleting, crashes>>

(* Mutant: the UPDATE trusts the statuses read before. *)
PauseWriteBlindly ==
  /\ pausing # {} /\ lock = NoOne
  /\ status' = [i \in Items |-> IF i \in pausing THEN "PAUSE_REQUESTED" ELSE status[i]]
  /\ pausing' = {}
  /\ UNCHANGED <<content, rows, vectors, lock, draft, jobVars, pc, report, deleting, crashes>>

(* ...and written later, where they still hold. *)
PauseWrite ==
  /\ pausing # {} /\ lock = NoOne
  /\ status' = [i \in Items |->
       IF i \in pausing /\ status[i] = "PROCESSING" THEN "PAUSE_REQUESTED" ELSE status[i]]
  /\ pausing' = {}
  /\ UNCHANGED <<content, rows, vectors, lock, draft, jobVars, pc, report, deleting, crashes>>

PauseFails ==
  /\ pausing # {} /\ LockTimeouts /\ lock # NoOne
  /\ pausing' = {}
  /\ UNCHANGED <<status, content, rows, vectors, lock, draft, jobVars, pc, report,
                 deleting, crashes>>

-----------------------------------------------------------------------------
(* delete_source_item: the status is checked on the item the request loaded, *)
(* then the vectors go, then the row with the request's commit.              *)

(* Mutant: only a running worker is taken as busy, not a pause on its way. *)
DeleteCheckProcessing(i) ==
  /\ i \in Deletable /\ deleting[i] = "no"
  /\ status[i] \notin {"PROCESSING", "absent"}
  /\ deleting' = [deleting EXCEPT ![i] = "checked"]
  /\ UNCHANGED <<status, content, rows, vectors, lock, draft, jobVars, pc, report,
                 pausing, crashes>>

DeleteCheck(i) ==
  /\ i \in Deletable /\ deleting[i] = "no"
  /\ status[i] \notin DeleteBlocked \cup {"absent"}
  /\ deleting' = [deleting EXCEPT ![i] = "checked"]
  /\ UNCHANGED <<status, content, rows, vectors, lock, draft, jobVars, pc, report,
                 pausing, crashes>>

DeleteVectors(i) ==
  /\ deleting[i] = "checked"
  /\ vectors' = [vectors EXCEPT ![i] = @ \ rows[i]]
  /\ deleting' = [deleting EXCEPT ![i] = "purged"]
  /\ UNCHANGED <<status, content, rows, lock, draft, jobVars, pc, report, pausing, crashes>>

(* The row goes, and content and chunks with it. *)
DeleteRow(i) ==
  /\ deleting[i] = "purged" /\ lock = NoOne
  /\ status' = [status EXCEPT ![i] = "absent"]
  /\ content' = [content EXCEPT ![i] = FALSE]
  /\ rows' = [rows EXCEPT ![i] = {}]
  /\ deleting' = [deleting EXCEPT ![i] = "no"]
  /\ UNCHANGED <<vectors, lock, draft, jobVars, pc, report, pausing, crashes>>

(* Chroma or the lock fails: the request's transaction is rolled back. *)
DeleteFails(i) ==
  /\ \/ deleting[i] = "checked"
     \/ deleting[i] = "purged" /\ LockTimeouts /\ lock # NoOne
  /\ deleting' = [deleting EXCEPT ![i] = "no"]
  /\ UNCHANGED <<status, content, rows, vectors, lock, draft, jobVars, pc, report,
                 pausing, crashes>>

DeleteStep(i) ==
  DeleteCheck(i) \/ DeleteVectors(i) \/ DeleteRow(i) \/ DeleteFails(i)

-----------------------------------------------------------------------------
(* The process dies, or shutdown cancels the workers, and starts again: open *)
(* transactions are rolled back, and nothing at startup looks at the items.  *)
Crash ==
  /\ crashes < MaxCrashes
  /\ crashes' = crashes + 1
  /\ lock' = NoOne
  /\ draft' = [i \in Items |-> {}]
  /\ job' = {}
  /\ pc' = [i \in Items |-> "idle"]
  /\ report' = [i \in Items |-> "none"]
  /\ pausing' = {}
  /\ deleting' = [i \in Items |-> "no"]
  /\ UNCHANGED <<status, content, rows, vectors, allowed>>

Next ==
  \/ \E items \in SUBSET Items : StartIndexing(items) \/ StartResume(items) \/ PauseRead(items)
  \/ JobEnds \/ PauseWrite \/ PauseFails \/ Crash
  \/ \E i \in Items : WorkerStep(i) \/ DeleteStep(i)

Spec == Init /\ [][Next]_vars

(* The event loop resumes every worker and every request that can go on; no  *)
(* request has to arrive.                                                    *)
FairSpec ==
  /\ Spec
  /\ \A i \in Items : WF_vars(WorkerStep(i))
  /\ WF_vars(JobEnds)
  /\ WF_vars(PauseWrite)

-----------------------------------------------------------------------------
(* Properties. *)

(* The status table: a completed item is stored whole, every chunk row with  *)
(* its vector, so what the search scope admits can be found by both          *)
(* retrievers.  Failures, pauses, retries and crashes on the way must not    *)
(* leave a part behind.  A delete request in progress is excepted.           *)
CompletedIsWhole ==
  \A i \in Items :
    (status[i] = "COMPLETED" /\ deleting[i] = "no") =>
      rows[i] = Batches /\ vectors[i] = Batches

(* An item no worker has in its hands has no vector without its chunk row:   *)
(* the vector ids to delete are listed from the rows, so such a vector could *)
(* never be deleted again.  A crash takes the rows back and leaves the       *)
(* vectors, so this is said of a process that has not died.                  *)
NoOrphanVectors ==
  crashes = 0 =>
    \A i \in Items :
      status[i] \notin DeleteBlocked \cup {"absent"} => vectors[i] \subseteq rows[i]

(* The terminal event a job reports for an item agrees with the status that  *)
(* the database keeps, whatever pause request was on its way meanwhile.      *)
ReportTruth ==
  \A i \in Items :
    /\ report[i] = "completed" => status[i] \in {"COMPLETED", "absent"}
    /\ report[i] = "paused"    => status[i] \in {"PAUSED", "absent"}
    /\ report[i] = "failed"    => status[i] \in {"FAILED", "absent"}

(* The statuses, and the searchable index, move as the documented state      *)
(* machine lets them: see ItemLifecycle.                                     *)
Lifecycle == INSTANCE ItemLifecycle WITH
  Parts <- Batches, st <- status,
  index <- [i \in Items |-> rows[i] \cap vectors[i]],
  leaving <- {i \in Items : deleting[i] # "no"}

KeepsLifecycle == Lifecycle!Spec

(* An item that is claimed is let go again: it can be claimed, resumed or    *)
(* deleted.  With lock timeouts or crashes it may stay busy for ever.        *)
BusyItemSettles ==
  \A i \in Items : (status[i] \in DeleteBlocked) ~> (status[i] \notin DeleteBlocked)

(* A job comes to its SYNC_COMPLETE and frees the source for the next one.   *)
JobSettles == (job # {}) ~> (job = {})

(* Section 3.2 of the document: a pause request found at a checkpoint takes  *)
(* the item safely to paused.                                                *)
CheckpointHonoursPause ==
  [][\A i \in Items :
       (AtCheckpoint(i) /\ status[i] = "PAUSE_REQUESTED" /\ pc'[i] # pc[i])
         => status'[i] = "PAUSED"]_vars

(* Section 4 of the document: an item that is being processed is not deleted. *)
DeleteSparesBusyItems ==
  [][\A i \in Items : status[i] \in DeleteBlocked => status'[i] # "absent"]_vars
=============================================================================
