-------------------------- MODULE WebCrawlSyncProofs --------------------------
(***************************************************************************)
(* What a sync may do to the copy of a site, proved of WebCrawlSync for    *)
(* any pages, configurations and orders of requests, and that it loses     *)
(* count of no page.                                                       *)
(***************************************************************************)
EXTENDS WebCrawlSync, SequenceTheorems, FiniteSetTheorems, TLAPS

-----------------------------------------------------------------------------
(* The invariant. *)

IsResult(m) == m.kind \in {"not_modified", "parsed"}

Shapes ==
  /\ page \in [Keys -> Versions] /\ \A k \in Keys : page[k] \in DOMAIN TextOf[k]
  /\ source \in {"present", "deleted"}
  /\ status \in [Keys -> Status]
  /\ text \in [Keys -> Texts \cup {None}] /\ etag \in [Keys -> Versions \cup {None}]
  /\ rows \in [Keys -> Texts \cup {None}] /\ vecs \in [Keys -> Texts \cup {None}]
  /\ known \in [Keys -> Versions \cup {None}]
  /\ queue \in Seq(Results \cup Marks)
  /\ stale \in [Keys -> Status]
  /\ work \in [Keys -> {"no", "queued", "claimed"}]
  /\ reading \in [Keys -> Texts \cup {None}]

(* A sync and an indexing job exclude each other; the parts of a sync follow *)
(* its phase.                                                                *)
OneJob ==
  /\ phase # "idle" <=> job = "sync"
  /\ \A k \in Keys : work[k] # "no" => job = "index"
  /\ phase \in {"idle", "loading"} => queue = <<>> /\ waiting = {}
  /\ phase = "purging" => purging \in Keys /\ ~Present(purging)

(* A page has one result, which stands for what was fetched; as long as it   *)
(* is not used, the item keeps the etag it was fetched with, or is deleted.  *)
ResultsFit ==
  /\ \A i \in DOMAIN queue : IsResult(queue[i]) =>
       /\ queue[i].key \notin waiting
       /\ queue[i].version \in DOMAIN TextOf[queue[i].key]
       /\ queue[i].etag \in {None, queue[i].version}
       /\ queue[i].kind = "not_modified" => known[queue[i].key] = queue[i].version
  /\ \A i, j \in DOMAIN queue :
       IsResult(queue[i]) /\ IsResult(queue[j]) /\ queue[i].key = queue[j].key => i = j

Pending(k) ==
  k \in waiting \/ \E i \in DOMAIN queue : queue[i].kind = "not_modified" /\ queue[i].key = k

PendingKept ==
  \A k \in Keys : Pending(k) =>
    /\ Present(k) => etag[k] = known[k]
    /\ known[k] # None => Present(k) \/ disturbed

AbsentHasNoEtag == \A k \in Keys : ~Present(k) => etag[k] = None

LoadedIsStored == \A k \in Keys : work[k] = "claimed" /\ Present(k) => reading[k] = text[k]

(* An item that is busy when its turn to be pruned comes was read as busy.   *)
BusySeen ==
  phase \in {"pruning", "purging"} =>
    \A k \in Keys : stale[k] # "absent" /\ status[k] \in Busy => stale[k] \in Busy

DeletionDisturbs == job = "sync" /\ source = "deleted" => disturbed

CrawlInv ==
  /\ Shapes /\ OneJob
  /\ phase = "pages" => ResultsFit /\ PendingKept
  /\ AbsentHasNoEtag /\ LoadedIsStored /\ BusySeen /\ DeletionDisturbs
  /\ CopyMatchesItsValidator /\ CompletedIndexIsCurrent

-----------------------------------------------------------------------------
(* Initial states. *)

(* Every version of a page has a text.                                       *)
LEMMA PagesAreVersions ==
  /\ \A k \in Keys : TextOf[k] \in Seq(Texts) /\ 1 \in DOMAIN TextOf[k]
  /\ \A k \in Keys : \A v \in DOMAIN TextOf[k] :
       v \in Versions /\ v # None /\ TextOf[k][v] \in Texts
<1>1. \A k \in Keys : TextOf[k] \in Seq(Texts) /\ TextOf[k] # <<>>
  BY WebCrawlAssumption
<1>2. ASSUME NEW S, NEW s \in Seq(S), s # <<>> PROVE 1 \in DOMAIN s
  BY <1>2
<1>3. \A k \in Keys : DOMAIN TextOf[k] \subseteq Versions
  BY DEF Versions
<1>4. None \notin Versions
  BY WebCrawlAssumption
<1>5. \A k \in Keys : \A v \in DOMAIN TextOf[k] : TextOf[k][v] \in Texts
  BY DEF Texts
<1> QED
  BY <1>1, <1>2, <1>3, <1>4, <1>5

(* An empty copy at rest.                                                    *)
LEMMA InvInitially == Init => CrawlInv
<1> SUFFICES ASSUME Init PROVE CrawlInv
  OBVIOUS
<1>1. Shapes
  BY PagesAreVersions DEF Init, Shapes, NoItem, Status
<1>2. OneJob
  BY DEF Init, OneJob, NoItem
<1>3. ~ (phase = "pages") /\ AbsentHasNoEtag /\ LoadedIsStored /\ BusySeen /\ DeletionDisturbs
  BY DEF Init, AbsentHasNoEtag, LoadedIsStored, BusySeen, DeletionDisturbs, NoItem
<1>4. CopyMatchesItsValidator /\ CompletedIndexIsCurrent
  BY DEF Init, CopyMatchesItsValidator, CompletedIndexIsCurrent, NoItem
<1> QED
  BY <1>1, <1>2, <1>3, <1>4 DEF CrawlInv

-----------------------------------------------------------------------------
(* Steps that touch nothing the invariant speaks of. *)

Aside ==
  \/ SyncRequest \/ SyncReused \/ AcceptSourceDelete \/ SourceDeleteFails \/ UpdateConfig
  \/ \E k \in Keys : AcceptDelete(k)
  \/ \E c \in Configs : AcceptUpdate(c)
  \/ UNCHANGED vars

Spoken == <<page, source, itemVars, indexVars, job, phase, known, waiting, queue, stale, purging,
            workVars, disturbed>>

(* The invariant speaks of nothing but these variables.                      *)
LEMMA InvOfSpoken ==
  ASSUME CrawlInv, UNCHANGED Spoken
  PROVE  CrawlInv'
<1> USE DEF Spoken, itemVars, indexVars, workVars
<1>1. Shapes' /\ OneJob'
  BY DEF CrawlInv, Shapes, OneJob, Present
<1>2. (phase' = "pages" => ResultsFit' /\ PendingKept')
  BY DEF CrawlInv, ResultsFit, PendingKept, Pending, IsResult, Present
<1>3. AbsentHasNoEtag' /\ LoadedIsStored' /\ BusySeen' /\ DeletionDisturbs'
  BY DEF CrawlInv, AbsentHasNoEtag, LoadedIsStored, BusySeen, DeletionDisturbs, Present
<1>4. CopyMatchesItsValidator' /\ CompletedIndexIsCurrent'
  BY DEF CrawlInv, CopyMatchesItsValidator, CompletedIndexIsCurrent
<1> QED
  BY <1>1, <1>2, <1>3, <1>4 DEF CrawlInv

(* Requests that write no item, store or phase yet.                          *)
LEMMA AsideKeepsInv ==
  ASSUME CrawlInv, Aside
  PROVE  CrawlInv'
<1> USE DEF Spoken, itemVars, indexVars, workVars, syncVars, adminVars, vars, AdminUnchanged
<1>1. UNCHANGED Spoken
  BY DEF Aside, SyncRequest, SyncReused, AcceptSourceDelete, SourceDeleteFails, UpdateConfig,
         AcceptDelete, AcceptUpdate
<1> QED
  BY <1>1, InvOfSpoken

(* The site changes. *)
LEMMA PublishKeepsInv ==
  ASSUME CrawlInv, NEW k \in Keys, Publish(k)
  PROVE  CrawlInv'
<1> USE DEF Publish, itemVars, indexVars, syncVars, workVars, adminVars
<1>1. Shapes'
  BY PagesAreVersions DEF CrawlInv, Shapes
<1>2. OneJob'
  BY DEF CrawlInv, OneJob, Present
<1>3. (phase' = "pages" => ResultsFit' /\ PendingKept')
  BY DEF CrawlInv, ResultsFit, PendingKept, Pending, IsResult, Present
<1>4. AbsentHasNoEtag' /\ LoadedIsStored' /\ BusySeen' /\ DeletionDisturbs'
  BY DEF CrawlInv, AbsentHasNoEtag, LoadedIsStored, BusySeen, DeletionDisturbs, Present
<1>5. CopyMatchesItsValidator' /\ CompletedIndexIsCurrent'
  BY DEF CrawlInv, CopyMatchesItsValidator, CompletedIndexIsCurrent
<1> QED
  BY <1>1, <1>2, <1>3, <1>4, <1>5 DEF CrawlInv

-----------------------------------------------------------------------------
(* A sync begins, changes its phase, and ends. *)

(* The end of a sync, and a crash, leave the rows as they are. *)
JobOver ==
  \/ LoadFails \/ DiscoversNothing \/ PageRaises \/ SyncCompletes
  \/ Crash

(* The end of a job, whichever way it comes.                                 *)
LEMMA JobOverKeepsInv ==
  ASSUME CrawlInv, JobOver
  PROVE  CrawlInv'
<1> USE DEF JobOver, LoadFails, DiscoversNothing, PageRaises, Received, SyncCompletes, Crash,
            SyncRaises, SyncEnds, SyncIdle, NoItem, itemVars, indexVars, workVars, adminVars
<1>1. phase' = "idle" /\ job' = "none" /\ queue' = <<>> /\ waiting' = {}
      /\ UNCHANGED <<page, source, status, text, etag, rows, vecs, collection>>
  OBVIOUS
<1>2. known' = [k \in Keys |-> None] /\ stale' = [k \in Keys |-> "absent"]
  OBVIOUS
<1>3. \/ UNCHANGED <<work, reading>>
      \/ work' = [k \in Keys |-> "no"] /\ reading' = [k \in Keys |-> None]
  OBVIOUS
<1>4. \A k \in Keys : work'[k] # "no" => FALSE
  <2>1. CASE Crash
    BY <2>1
  <2>2. CASE ~ Crash
    BY <2>2 DEF CrawlInv, OneJob
  <2> QED
    BY <2>1, <2>2
<1> HIDE DEF JobOver, LoadFails, DiscoversNothing, PageRaises, SyncCompletes, Crash
<1>5. Shapes'
  BY <1>1, <1>2, <1>3 DEF CrawlInv, Shapes, Status
<1>6. OneJob'
  BY <1>1, <1>4 DEF OneJob
<1>7. AbsentHasNoEtag' /\ LoadedIsStored' /\ BusySeen' /\ DeletionDisturbs'
  BY <1>1, <1>4 DEF CrawlInv, AbsentHasNoEtag, LoadedIsStored, BusySeen, DeletionDisturbs, Present
<1>8. CopyMatchesItsValidator' /\ CompletedIndexIsCurrent'
  BY <1>1 DEF CrawlInv, CopyMatchesItsValidator, CompletedIndexIsCurrent
<1> QED
  BY <1>1, <1>5, <1>6, <1>7, <1>8 DEF CrawlInv

(* A sync that goes on to its next part.                                     *)
LEMMA PhaseKeepsInv ==
  ASSUME CrawlInv, SyncStart \/ Discover \/ PagesEnd
  PROVE  CrawlInv'
<1> USE DEF SyncStart, Discover, PagesEnd, itemVars, indexVars, syncVars, workVars, adminVars
<1>1. Shapes'
  BY DEF CrawlInv, Shapes, Status
<1>2. OneJob'
  BY DEF CrawlInv, OneJob, Present
<1>3. (phase' = "pages" => ResultsFit' /\ PendingKept')
  <2> SUFFICES ASSUME phase' = "pages" PROVE ResultsFit' /\ PendingKept'
    OBVIOUS
  <2>1. Discover
    BY DEF CrawlInv, OneJob
  <2>2. queue' = <<>> /\ known' = etag /\ UNCHANGED <<etag, status>>
    BY <2>1 DEF CrawlInv, OneJob
  <2>3. ResultsFit'
    BY <2>2 DEF ResultsFit
  <2>4. PendingKept'
    BY <2>2 DEF PendingKept, CrawlInv, AbsentHasNoEtag, Present
  <2> QED
    BY <2>3, <2>4
<1>4. AbsentHasNoEtag' /\ LoadedIsStored' /\ DeletionDisturbs'
  BY DEF CrawlInv, OneJob, AbsentHasNoEtag, LoadedIsStored, DeletionDisturbs, Present
<1>5. BusySeen'
  BY DEF CrawlInv, BusySeen, Shapes
<1>6. CopyMatchesItsValidator' /\ CompletedIndexIsCurrent'
  BY DEF CrawlInv, CopyMatchesItsValidator, CompletedIndexIsCurrent
<1> QED
  BY <1>1, <1>2, <1>3, <1>4, <1>5, <1>6 DEF CrawlInv

-----------------------------------------------------------------------------
(* The queue between the workers and the main loop. *)

(* A queue with a result and a mark more.                                    *)
LEMMA QueueGrows ==
  ASSUME NEW S, NEW q \in Seq(S), NEW x \in S, NEW y \in S
  PROVE  /\ q \o <<x, y>> \in Seq(S)
         /\ \A i \in DOMAIN (q \o <<x, y>>) :
              \/ i \in DOMAIN q /\ (q \o <<x, y>>)[i] = q[i]
              \/ i = Len(q) + 1 /\ (q \o <<x, y>>)[i] = x
              \/ i = Len(q) + 2 /\ (q \o <<x, y>>)[i] = y
OBVIOUS

(* A queue without its head.                                                 *)
LEMMA QueueShrinks ==
  ASSUME NEW S, NEW q \in Seq(S), q # <<>>
  PROVE  /\ Tail(q) \in Seq(S)
         /\ 1 \in DOMAIN q /\ q[1] = Head(q) /\ Head(q) \in S
         /\ \A i \in DOMAIN Tail(q) :
              i + 1 \in DOMAIN q /\ i + 1 # 1 /\ i \in Nat /\ Tail(q)[i] = q[i + 1]
OBVIOUS

(* Results and marks are what the queue holds.                               *)
LEMMA MessagesTyped ==
  ASSUME NEW m \in Results \cup Marks
  PROVE  /\ m.key \in Keys
         /\ m.kind \in {"not_modified", "parsed", "failed", "done"}
         /\ IsResult(m) => m \in Results /\ m.version \in Versions
BY DEF Results, Marks, IsResult

(* A worker puts its result. *)
Fetch(k) == FetchNotModified(k) \/ FetchPage(k) \/ FetchFails(k)

(* What a fetch task puts into the queue.                                    *)
LEMMA FetchPuts ==
  ASSUME Shapes, NEW k \in Keys, Fetch(k)
  PROVE  /\ k \in waiting /\ waiting' = waiting \ {k}
         /\ UNCHANGED <<page, source, itemVars, indexVars, job, cfg, phase, known, stale, purging,
                        workVars, disturbed>>
         /\ \E result \in Results \cup Marks, mark \in Marks :
              /\ queue' = queue \o <<result, mark>>
              /\ IF IsResult(result) THEN UNCHANGED counters ELSE Count("failed")
              /\ result.key = k /\ ~ IsResult(mark)
              /\ IsResult(result) =>
                   /\ result.version \in DOMAIN TextOf[k]
                   /\ result.etag \in {None, result.version}
                   /\ result.kind = "not_modified" => known[k] = result.version
<1> USE DEF Put, Answer, itemVars, indexVars, workVars, adminVars
<1>1. [kind |-> "done", key |-> k] \in Marks /\ ~ IsResult([kind |-> "done", key |-> k])
  BY DEF Marks, IsResult
<1>2. page[k] \in DOMAIN TextOf[k] /\ page[k] \in Versions
  BY PagesAreVersions DEF Shapes
<1>3. CASE FetchNotModified(k)
  <2> DEFINE result == [kind |-> "not_modified", key |-> k, version |-> page[k],
                        etag |-> IF k \in Unstamped THEN None ELSE page[k]]
  <2>1. result \in Results /\ result.key = k
    BY <1>2 DEF Results
  <2>2. result.version \in DOMAIN TextOf[k] /\ result.etag \in {None, result.version}
    BY <1>2
  <2>3. result.kind = "not_modified" => known[k] = result.version
    BY <1>3 DEF FetchNotModified
  <2>4. queue' = queue \o <<result, [kind |-> "done", key |-> k]>>
    BY <1>3 DEF FetchNotModified
  <2>5. IsResult(result)
    BY DEF IsResult
  <2> HIDE DEF result
  <2> QED
    BY <1>1, <1>3, <2>1, <2>2, <2>3, <2>4, <2>5 DEF FetchNotModified
<1>4. CASE FetchPage(k)
  <2> DEFINE result == [kind |-> "parsed", key |-> k, version |-> page[k],
                        etag |-> IF k \in Unstamped THEN None ELSE page[k]]
  <2>1. result \in Results /\ result.key = k
    BY <1>2 DEF Results
  <2>2. result.version \in DOMAIN TextOf[k] /\ result.etag \in {None, result.version}
    BY <1>2
  <2>3. result.kind = "not_modified" => known[k] = result.version
    BY <1>4 DEF FetchPage
  <2>4. queue' = queue \o <<result, [kind |-> "done", key |-> k]>>
    BY <1>4 DEF FetchPage
  <2>5. IsResult(result)
    BY DEF IsResult
  <2> HIDE DEF result
  <2> QED
    BY <1>1, <1>4, <2>1, <2>2, <2>3, <2>4, <2>5 DEF FetchPage
<1>5. CASE FetchFails(k)
  <2> DEFINE result == [kind |-> "failed", key |-> k]
  <2>1. result \in Marks /\ ~ IsResult(result)
    BY DEF Marks, IsResult
  <2> QED
    BY <1>1, <1>5, <2>1 DEF FetchFails
<1> QED
  BY <1>3, <1>4, <1>5 DEF Fetch

(* The fetch tasks.                                                          *)
LEMMA FetchKeepsInv ==
  ASSUME CrawlInv, NEW k \in Keys, Fetch(k)
  PROVE  CrawlInv'
<1> USE DEF itemVars, indexVars, workVars
<1>1. Shapes
  BY DEF CrawlInv
<1>2. /\ k \in waiting /\ waiting' = waiting \ {k}
      /\ UNCHANGED <<page, source, itemVars, indexVars, job, phase, known, stale, purging,
                     workVars, disturbed>>
  BY <1>1, FetchPuts
<1>3. PICK result \in Results \cup Marks, mark \in Marks :
        /\ queue' = queue \o <<result, mark>>
        /\ result.key = k /\ ~ IsResult(mark)
        /\ IsResult(result) =>
             /\ result.version \in DOMAIN TextOf[k]
             /\ result.etag \in {None, result.version}
             /\ result.kind = "not_modified" => known[k] = result.version
  BY <1>1, FetchPuts
<1>4. queue \in Seq(Results \cup Marks)
  BY <1>1 DEF Shapes
<1>5. /\ queue' \in Seq(Results \cup Marks)
      /\ \A i \in DOMAIN queue' :
           \/ i \in DOMAIN queue /\ queue'[i] = queue[i]
           \/ i = Len(queue) + 1 /\ queue'[i] = result
           \/ i = Len(queue) + 2 /\ queue'[i] = mark
  BY <1>3, <1>4, QueueGrows
<1>6. Shapes'
  BY <1>1, <1>2, <1>5 DEF Shapes
<1>7. OneJob'
  BY <1>2 DEF CrawlInv, OneJob, Present
<1>8. ASSUME phase = "pages" PROVE ResultsFit' /\ PendingKept'
  <2>1. ResultsFit /\ PendingKept
    BY <1>8 DEF CrawlInv
  <2>2. \A i \in DOMAIN queue : IsResult(queue[i]) => queue[i].key # k
    BY <2>1, <1>2 DEF ResultsFit
  <2>3. ResultsFit'
    <3>1. ASSUME NEW i \in DOMAIN queue', IsResult(queue'[i])
          PROVE  \/ i \in DOMAIN queue /\ queue'[i] = queue[i]
                 \/ i = Len(queue) + 1 /\ queue'[i] = result
      BY <1>3, <1>5, <3>1
    <3>2. ASSUME NEW i \in DOMAIN queue', IsResult(queue'[i])
          PROVE  /\ queue'[i].key \notin waiting'
                 /\ queue'[i].version \in DOMAIN TextOf[queue'[i].key]
                 /\ queue'[i].etag \in {None, queue'[i].version}
                 /\ queue'[i].kind = "not_modified" => known'[queue'[i].key] = queue'[i].version
      BY <1>2, <1>3, <2>1, <3>1, <3>2 DEF ResultsFit
    <3>3. ASSUME NEW i \in DOMAIN queue', NEW j \in DOMAIN queue',
                 IsResult(queue'[i]), IsResult(queue'[j]), queue'[i].key = queue'[j].key
          PROVE  i = j
      BY <1>3, <2>1, <2>2, <3>1, <3>3 DEF ResultsFit
    <3> QED
      BY <3>2, <3>3 DEF ResultsFit, IsResult
  <2>4. \A j \in Keys : Pending(j)' => Pending(j)
    BY <1>2, <1>3, <1>5 DEF Pending, IsResult
  <2> QED
    BY <1>2, <2>1, <2>3, <2>4 DEF PendingKept, Present
<1>9. AbsentHasNoEtag' /\ LoadedIsStored' /\ BusySeen' /\ DeletionDisturbs'
  BY <1>2 DEF CrawlInv, AbsentHasNoEtag, LoadedIsStored, BusySeen, DeletionDisturbs, Present
<1>10. CopyMatchesItsValidator' /\ CompletedIndexIsCurrent'
  BY <1>2 DEF CrawlInv, CopyMatchesItsValidator, CompletedIndexIsCurrent
<1> QED
  BY <1>2, <1>6, <1>7, <1>8, <1>9, <1>10 DEF CrawlInv

(* The main loop takes a message: what is left still fits, and a result that *)
(* is taken was the last of its page.                                        *)
LEMMA TakingKeepsFit ==
  ASSUME Shapes, ResultsFit, queue # <<>>, queue' = Tail(queue), UNCHANGED <<waiting, known>>
  PROVE  /\ queue' \in Seq(Results \cup Marks)
         /\ ResultsFit'
         /\ \A k \in Keys : Pending(k)' => Pending(k)
         /\ \A k \in Keys : IsResult(Head(queue)) /\ Head(queue).key = k => ~ Pending(k)'
<1>1. queue \in Seq(Results \cup Marks)
  BY DEF Shapes
<1>2. /\ queue' \in Seq(Results \cup Marks)
      /\ 1 \in DOMAIN queue /\ queue[1] = Head(queue)
      /\ \A i \in DOMAIN queue' :
           i + 1 \in DOMAIN queue /\ i + 1 # 1 /\ i \in Nat /\ queue'[i] = queue[i + 1]
  BY <1>1, QueueShrinks
<1>3. ResultsFit'
  <2>1. ASSUME NEW i \in DOMAIN queue', IsResult(queue'[i])
        PROVE  /\ queue'[i].key \notin waiting'
               /\ queue'[i].version \in DOMAIN TextOf[queue'[i].key]
               /\ queue'[i].etag \in {None, queue'[i].version}
               /\ queue'[i].kind = "not_modified" => known'[queue'[i].key] = queue'[i].version
    BY <1>2, <2>1 DEF ResultsFit
  <2>2. ASSUME NEW i \in DOMAIN queue', NEW j \in DOMAIN queue',
               IsResult(queue'[i]), IsResult(queue'[j]), queue'[i].key = queue'[j].key
        PROVE  i = j
    <3>1. i + 1 = j + 1
      BY <1>2, <2>2 DEF ResultsFit
    <3> QED
      BY <1>2, <3>1
  <2> QED
    BY <2>1, <2>2 DEF ResultsFit, IsResult
<1>4. \A k \in Keys : Pending(k)' => Pending(k)
  BY <1>2 DEF Pending
<1>5. ASSUME NEW k \in Keys, IsResult(Head(queue)), Head(queue).key = k PROVE ~ Pending(k)'
  BY <1>2, <1>5 DEF Pending, ResultsFit, IsResult
<1> QED
  BY <1>2, <1>3, <1>4, <1>5

(* The transaction of a page, and the messages without one. *)
PageUsed(r) == CreateItem(r) \/ NotModified(r) \/ SkipBusy(r) \/ SameText(r) \/ NewText(r)

(* A result changes its own item only.                                       *)
LEMMA PageUsedTouchesOwn ==
  ASSUME Shapes, NEW r \in Results \cup Marks, PageUsed(r)
  PROVE  /\ \A k \in Keys \ {r.key} :
              status'[k] = status[k] /\ text'[k] = text[k] /\ etag'[k] = etag[k]
         /\ UNCHANGED <<page, source, rows, vecs, collection, job, phase, waiting, known, stale,
                        purging, work, reading, disturbed>>
         /\ phase = "pages" /\ queue # <<>> /\ queue' = Tail(queue)
         /\ Head(queue).kind \in {"parsed", "not_modified"}
BY DEF Shapes, PageUsed, CreateItem, NotModified, SkipBusy, SameText, NewText, SyncCrawledPage,
       Received, Taken, itemVars, indexVars, workVars, adminVars

(* The main loop, which uses one entry of the queue.                         *)
LEMMA MainLoopKeepsInv ==
  ASSUME CrawlInv, WorkerDone \/ ItemFailed \/ (queue # <<>> /\ PageUsed(Head(queue)))
  PROVE  CrawlInv'
<1> USE DEF itemVars, indexVars, workVars, adminVars
<1>1. Shapes /\ queue \in Seq(Results \cup Marks)
  BY DEF CrawlInv, Shapes
<1>2. /\ phase = "pages" /\ queue # <<>> /\ queue' = Tail(queue)
      /\ UNCHANGED <<page, source, rows, vecs, collection, job, phase, waiting, known, stale,
                     purging, work, reading, disturbed>>
  <2>1. CASE WorkerDone \/ ItemFailed
    BY <2>1 DEF WorkerDone, ItemFailed, Received, Taken
  <2>2. CASE queue # <<>> /\ PageUsed(Head(queue))
    BY <1>1, <2>2, QueueShrinks, PageUsedTouchesOwn
  <2> QED
    BY <2>1, <2>2
<1>3. ResultsFit /\ PendingKept
  BY <1>2 DEF CrawlInv
<1>4. /\ queue' \in Seq(Results \cup Marks) /\ ResultsFit'
      /\ \A k \in Keys : Pending(k)' => Pending(k)
      /\ \A k \in Keys : IsResult(Head(queue)) /\ Head(queue).key = k => ~ Pending(k)'
  BY <1>1, <1>2, <1>3, TakingKeepsFit
<1>5. CASE WorkerDone \/ ItemFailed
  <2>1. UNCHANGED <<status, text, etag>>
    BY <1>5 DEF WorkerDone, ItemFailed
  <2>2. Shapes' /\ OneJob'
    BY <1>2, <1>4, <2>1 DEF CrawlInv, Shapes, OneJob, Present
  <2>3. PendingKept'
    BY <1>2, <1>3, <1>4, <2>1 DEF PendingKept, Present
  <2>4. AbsentHasNoEtag' /\ LoadedIsStored' /\ BusySeen' /\ DeletionDisturbs'
    BY <1>2, <2>1 DEF CrawlInv, AbsentHasNoEtag, LoadedIsStored, BusySeen, DeletionDisturbs, Present
  <2>5. CopyMatchesItsValidator' /\ CompletedIndexIsCurrent'
    BY <1>2, <2>1 DEF CrawlInv, CopyMatchesItsValidator, CompletedIndexIsCurrent
  <2> QED
    BY <1>4, <2>2, <2>3, <2>4, <2>5 DEF CrawlInv
<1>6. CASE PageUsed(Head(queue))
  <2> DEFINE r == Head(queue)
             k == r.key
  <2>1. /\ r \in Results \cup Marks /\ r.kind \in {"parsed", "not_modified"}
        /\ 1 \in DOMAIN queue /\ queue[1] = r
        /\ \A j \in Keys \ {k} :
             status'[j] = status[j] /\ text'[j] = text[j] /\ etag'[j] = etag[j]
    BY <1>1, <1>2, <1>6, QueueShrinks, PageUsedTouchesOwn
  <2>2. /\ k \in Keys /\ IsResult(r) /\ r.version \in Versions /\ r.version \in DOMAIN TextOf[k]
        /\ r.etag \in {None, r.version} /\ TextOf[k][r.version] \in Texts
        /\ r.kind = "not_modified" => known[k] = r.version /\ r.version # None /\ Pending(k)
    BY <1>3, <2>1, MessagesTyped, PagesAreVersions DEF ResultsFit, IsResult, Pending
  <2>3. /\ status' \in [Keys -> Status] /\ text' \in [Keys -> Texts \cup {None}]
        /\ etag' \in [Keys -> Versions \cup {None}]
    BY <1>1, <1>6, <2>2, SMTT(30)
       DEF Shapes, PageUsed, CreateItem, NotModified, SkipBusy, SameText, NewText,
       Status, Busy, Claimable
  <2>4. /\ status'[k] # "absent"
        /\ status[k] = "absent" => status'[k] = "PENDING"
        /\ status'[k] \in Busy => status[k] \in Busy /\ text'[k] = text[k]
        /\ status'[k] = "COMPLETED" => status[k] = "COMPLETED" /\ text'[k] = text[k]
    BY <1>1, <1>6, <2>2 DEF Shapes, PageUsed, CreateItem, NotModified, SkipBusy, SameText, NewText,
       Busy, Present
  <2>5. etag'[k] # None => text'[k] = TextOf[k][etag'[k]]
    <3>1. CASE NotModified(r)
      <4>1. Present(k) /\ etag[k] = known[k] /\ known[k] = r.version /\ r.version # None
        BY <1>3, <2>2, <3>1 DEF NotModified, PendingKept, SyncCrawledPage, Received
      <4>2. text[k] = TextOf[k][r.version]
        BY <2>2, <4>1 DEF CrawlInv, CopyMatchesItsValidator
      <4> QED
        BY <1>1, <2>2, <3>1, <4>2 DEF NotModified, Shapes
    <3>2. CASE SkipBusy(r)
      BY <2>2, <3>2 DEF SkipBusy, CrawlInv, CopyMatchesItsValidator
    <3>3. CASE CreateItem(r) \/ SameText(r) \/ NewText(r)
      BY <1>1, <2>2, <3>3 DEF CreateItem, SameText, NewText, Shapes
    <3> QED
      BY <1>6, <3>1, <3>2, <3>3 DEF PageUsed
  <2> HIDE DEF r, k
  <2>6. Shapes'
    BY <1>1, <1>2, <1>4, <2>3 DEF Shapes
  <2>7. OneJob'
    BY <1>2 DEF CrawlInv, OneJob
  <2>8. PendingKept'
    BY <1>2, <1>3, <1>4, <2>1, <2>2 DEF PendingKept, Present, r, k
  <2>9. AbsentHasNoEtag' /\ BusySeen' /\ DeletionDisturbs'
    BY <1>2, <2>1, <2>4 DEF CrawlInv, AbsentHasNoEtag, BusySeen, DeletionDisturbs, Present
  <2>10. LoadedIsStored'
    BY <1>2 DEF CrawlInv, OneJob, LoadedIsStored, Shapes
  <2>11. CopyMatchesItsValidator'
    BY <2>1, <2>5 DEF CrawlInv, CopyMatchesItsValidator
  <2>12. CompletedIndexIsCurrent'
    BY <1>2, <2>1, <2>4 DEF CrawlInv, CompletedIndexIsCurrent
  <2> QED
    BY <1>4, <2>6, <2>7, <2>8, <2>9, <2>10, <2>11, <2>12 DEF CrawlInv
<1> QED
  BY <1>5, <1>6

-----------------------------------------------------------------------------
(* The cleanup of removed pages. *)

Prune(k) == PruneSkipsBusy(k) \/ PruneRow(k) \/ PruneFindsNothing(k)

(* The items of pages that are gone.                                         *)
LEMMA PruneKeepsInv ==
  ASSUME CrawlInv, (\E k \in Keys : Prune(k)) \/ (\E ok \in BOOLEAN : PruneVectors(ok))
  PROVE  CrawlInv'
<1> USE DEF itemVars, indexVars, workVars, adminVars
<1>1. CASE \E k \in Keys : Prune(k)
  <2>1. PICK k \in Keys : Prune(k)
    BY <1>1
  <2> USE DEF Prune, PruneSkipsBusy, PruneRow, PruneFindsNothing, Pruned, RowsGo
  <2>2. /\ phase = "pruning" /\ phase' \in {"pruning", "purging"}
        /\ stale' = [stale EXCEPT ![k] = "absent"]
        /\ UNCHANGED <<page, source, vecs, collection, job, waiting, known, queue, work, reading,
                       disturbed>>
        /\ phase' = "purging" => purging' = k
    BY <2>1
  <2>3. \/ UNCHANGED <<status, text, etag, rows>> /\ phase' = "pruning"
        \/ /\ status' = [j \in Keys |-> IF j = k THEN "absent" ELSE status[j]]
           /\ text' = [j \in Keys |-> IF j = k THEN None ELSE text[j]]
           /\ etag' = [j \in Keys |-> IF j = k THEN None ELSE etag[j]]
           /\ rows' = [j \in Keys |-> IF j = k THEN None ELSE rows[j]]
    BY <2>1 DEF CrawlInv, Shapes
  <2> HIDE DEF Prune, PruneSkipsBusy, PruneRow, PruneFindsNothing, Pruned, RowsGo
  <2>4. Shapes'
    BY <2>2, <2>3 DEF CrawlInv, Shapes, Status
  <2>5. OneJob'
    BY <2>2, <2>3 DEF CrawlInv, OneJob, Present
  <2>6. AbsentHasNoEtag' /\ LoadedIsStored' /\ DeletionDisturbs'
    BY <2>2, <2>3 DEF CrawlInv, AbsentHasNoEtag, LoadedIsStored, DeletionDisturbs, Present, Shapes
  <2>7. BusySeen'
    BY <2>2, <2>3 DEF CrawlInv, BusySeen, Shapes, Busy
  <2>8. CopyMatchesItsValidator' /\ CompletedIndexIsCurrent'
    BY <2>2, <2>3 DEF CrawlInv, CopyMatchesItsValidator, CompletedIndexIsCurrent, Shapes
  <2> QED
    BY <2>2, <2>4, <2>5, <2>6, <2>7, <2>8 DEF CrawlInv
<1>2. CASE \E ok \in BOOLEAN : PruneVectors(ok)
  <2>1. PICK ok \in BOOLEAN : PruneVectors(ok)
    BY <1>2
  <2>2. /\ phase = "purging" /\ phase' = "pruning"
        /\ vecs' = [vecs EXCEPT ![purging] = IF ok THEN None ELSE @]
        /\ UNCHANGED <<page, source, status, text, etag, rows, collection, job, waiting, known,
                       queue, stale, work, reading, disturbed>>
    BY <2>1 DEF PruneVectors
  <2>3. Shapes'
    BY <2>2 DEF CrawlInv, Shapes
  <2>4. OneJob'
    BY <2>2 DEF CrawlInv, OneJob
  <2>5. AbsentHasNoEtag' /\ LoadedIsStored' /\ DeletionDisturbs' /\ BusySeen'
    BY <2>2 DEF CrawlInv, AbsentHasNoEtag, LoadedIsStored, DeletionDisturbs, BusySeen, Present
  <2>6. CopyMatchesItsValidator' /\ CompletedIndexIsCurrent'
    BY <2>2 DEF CrawlInv, CopyMatchesItsValidator, CompletedIndexIsCurrent, OneJob, Present, Shapes
  <2> QED
    BY <2>2, <2>3, <2>4, <2>5, <2>6 DEF CrawlInv
<1> QED
  BY <1>1, <1>2

-----------------------------------------------------------------------------
(* Indexing. *)

(* The indexing job that follows.                                            *)
LEMMA IndexKeepsInv ==
  ASSUME CrawlInv, IndexStep
  PROVE  CrawlInv'
<1> USE DEF itemVars, indexVars, syncVars, workVars, adminVars, IndexUnchanged
<1>1. CASE \E items \in SUBSET Targets : IndexStart(items)
  <2>1. UNCHANGED <<status, rows, vecs, reading>> /\ job = "none" /\ job' = "index"
        /\ work' \in [Keys -> {"no", "queued"}]
    BY <1>1 DEF IndexStart
  <2>2. IndexUnchanged
    BY <1>1 DEF IndexStart
  <2>3. Shapes'
    BY <2>1, <2>2 DEF CrawlInv, Shapes
  <2>4. OneJob' /\ phase = "idle"
    BY <2>1, <2>2 DEF CrawlInv, OneJob, Present
  <2>5. AbsentHasNoEtag' /\ LoadedIsStored' /\ DeletionDisturbs' /\ BusySeen'
    BY <2>1, <2>2, <2>4 DEF CrawlInv, AbsentHasNoEtag, LoadedIsStored, DeletionDisturbs, BusySeen,
       Present
  <2>6. CopyMatchesItsValidator' /\ CompletedIndexIsCurrent'
    BY <2>1, <2>2 DEF CrawlInv, CopyMatchesItsValidator, CompletedIndexIsCurrent
  <2> QED
    BY <2>2, <2>3, <2>4, <2>5, <2>6 DEF CrawlInv
<1>2. CASE IndexEnds
  <2>1. UNCHANGED <<status, rows, vecs, work, reading>> /\ job = "index" /\ job' = "none"
        /\ \A k \in Keys : work[k] = "no"
    BY <1>2 DEF IndexEnds
  <2>2. IndexUnchanged
    BY <1>2 DEF IndexEnds
  <2>3. Shapes'
    BY <2>1, <2>2 DEF CrawlInv, Shapes
  <2>4. OneJob' /\ phase = "idle"
    BY <2>1, <2>2 DEF CrawlInv, OneJob, Present
  <2>5. AbsentHasNoEtag' /\ LoadedIsStored' /\ DeletionDisturbs' /\ BusySeen'
    BY <2>1, <2>2, <2>4 DEF CrawlInv, AbsentHasNoEtag, LoadedIsStored, DeletionDisturbs, BusySeen,
       Present
  <2>6. CopyMatchesItsValidator' /\ CompletedIndexIsCurrent'
    BY <2>1, <2>2 DEF CrawlInv, CopyMatchesItsValidator, CompletedIndexIsCurrent
  <2> QED
    BY <2>2, <2>3, <2>4, <2>5, <2>6 DEF CrawlInv
<1>3. CASE \E k \in Keys : PauseRequest(k)
  <2>1. PICK k \in Keys : PauseRequest(k)
    BY <1>3
  <2>2. /\ status[k] = "PROCESSING" /\ status' = [status EXCEPT ![k] = "PAUSE_REQUESTED"]
        /\ UNCHANGED <<rows, vecs, job, work, reading>> /\ IndexUnchanged
    BY <2>1 DEF PauseRequest
  <2>3. Shapes'
    BY <2>2 DEF CrawlInv, Shapes, Status, Busy
  <2>4. OneJob'
    BY <2>2 DEF CrawlInv, OneJob, Present, Shapes
  <2>5. AbsentHasNoEtag' /\ LoadedIsStored' /\ DeletionDisturbs' /\ BusySeen'
    BY <2>2 DEF CrawlInv, AbsentHasNoEtag, LoadedIsStored, DeletionDisturbs, BusySeen, Present,
       Shapes, Busy
  <2>6. CopyMatchesItsValidator' /\ CompletedIndexIsCurrent'
    BY <2>2 DEF CrawlInv, CopyMatchesItsValidator, CompletedIndexIsCurrent, Shapes
  <2>7. phase' = "pages" => ResultsFit' /\ PendingKept'
    <3>1. phase = "pages" => ResultsFit'
      BY <2>2 DEF CrawlInv, ResultsFit, IsResult
    <3>2. phase = "pages" => PendingKept'
      BY <2>2 DEF CrawlInv, PendingKept, Pending, Present, Shapes
    <3> QED
      BY <2>2, <3>1, <3>2
  <2> QED
    BY <2>2, <2>3, <2>4, <2>5, <2>6, <2>7 DEF CrawlInv
<1>4. ASSUME NEW k \in Keys,
             ClaimItem(k) \/ ClaimSkips(k) \/ IndexStops(k) \/ IndexCompletes(k)
      PROVE  CrawlInv'
  <2> USE DEF ClaimItem, ClaimSkips, IndexStops, IndexCompletes, WorkerLeaves, Indexed
  <2>1. job = "index" /\ phase = "idle"
    BY <1>4 DEF CrawlInv, OneJob
  <2>2. IndexUnchanged /\ UNCHANGED job
    BY <1>4
  <2>3. Shapes'
    <3>1. status' \in [Keys -> Status] /\ work' \in [Keys -> {"no", "queued", "claimed"}]
      BY <1>4 DEF CrawlInv, Shapes, Status, Busy, Claimable
    <3>2. /\ rows' \in [Keys -> Texts \cup {None}] /\ vecs' \in [Keys -> Texts \cup {None}]
          /\ reading' \in [Keys -> Texts \cup {None}]
      BY <1>4 DEF CrawlInv, Shapes
    <3> QED
      BY <2>2, <3>1, <3>2 DEF CrawlInv, Shapes
  <2>4. OneJob'
    BY <1>4, <2>1, <2>2 DEF CrawlInv, OneJob
  <2>5. \A j \in Keys : status'[j] = "absent" <=> status[j] = "absent"
    BY <1>4 DEF CrawlInv, Shapes, Claimable
  <2>6. AbsentHasNoEtag' /\ DeletionDisturbs' /\ BusySeen'
    BY <2>1, <2>2, <2>5 DEF CrawlInv, AbsentHasNoEtag, DeletionDisturbs, BusySeen, Present
  <2>7. LoadedIsStored'
    BY <1>4, <2>2, <2>5 DEF CrawlInv, LoadedIsStored, Present, Shapes
  <2>8. CopyMatchesItsValidator'
    BY <2>2 DEF CrawlInv, CopyMatchesItsValidator
  <2>9. CompletedIndexIsCurrent'
    <3>1. CASE ClaimItem(k) \/ ClaimSkips(k)
      BY <2>2, <3>1 DEF CrawlInv, CompletedIndexIsCurrent, Shapes
    <3>2. CASE IndexStops(k)
      BY <2>2, <3>2 DEF CrawlInv, CompletedIndexIsCurrent, Shapes
    <3>3. CASE IndexCompletes(k)
      BY <2>2, <3>3 DEF CrawlInv, CompletedIndexIsCurrent, LoadedIsStored, Shapes
    <3> QED
      BY <1>4, <3>1, <3>2, <3>3
  <2> QED
    BY <2>1, <2>2, <2>3, <2>4, <2>6, <2>7, <2>8, <2>9 DEF CrawlInv
<1> QED
  BY <1>1, <1>2, <1>3, <1>4 DEF IndexStep

-----------------------------------------------------------------------------
(* Deletions. *)

(* Deletions of an item, of the collection, of the source.                   *)
LEMMA DeletionKeepsInv ==
  ASSUME CrawlInv, (\E k \in Keys : DeleteItem(k)) \/ DeleteCollection \/ DeleteSource
  PROVE  CrawlInv'
<1> USE DEF itemVars, indexVars, syncVars, workVars, AdminUnchanged
<1>1. CASE DeleteCollection
  <2>1. /\ vecs' = [k \in Keys |-> None] /\ collection' = FALSE
        /\ UNCHANGED <<page, source, status, text, etag, rows, job, phase, waiting, known, queue,
                       stale, purging, work, reading, disturbed>>
    BY <1>1 DEF DeleteCollection, NoItem
  <2>2. Shapes' /\ OneJob'
    BY <2>1 DEF CrawlInv, Shapes, OneJob, Present
  <2>3. (phase' = "pages" => ResultsFit' /\ PendingKept')
    BY <2>1 DEF CrawlInv, ResultsFit, PendingKept, Pending, IsResult, Present
  <2>4. AbsentHasNoEtag' /\ LoadedIsStored' /\ BusySeen' /\ DeletionDisturbs'
    BY <2>1 DEF CrawlInv, AbsentHasNoEtag, LoadedIsStored, BusySeen, DeletionDisturbs, Present
  <2>5. CopyMatchesItsValidator' /\ CompletedIndexIsCurrent'
    BY <2>1 DEF CrawlInv, CopyMatchesItsValidator, CompletedIndexIsCurrent
  <2> QED
    BY <2>2, <2>3, <2>4, <2>5 DEF CrawlInv
<1>2. CASE (\E k \in Keys : DeleteItem(k)) \/ DeleteSource
  <2>1. PICK keys \in SUBSET Keys :
          /\ RowsGo(keys)
          /\ \A k \in Keys \ keys : vecs'[k] = vecs[k]
    <3>1. CASE DeleteSource
      <4>1. RowsGo(Keys)
        BY <3>1 DEF DeleteSource
      <4> QED
        BY <4>1
    <3>2. CASE \E k \in Keys : DeleteItem(k)
      <4>1. PICK k \in Keys : DeleteItem(k)
        BY <3>2
      <4>2. RowsGo({k}) /\ \A j \in Keys \ {k} : vecs'[j] = vecs[j]
        BY <4>1 DEF DeleteItem, CrawlInv, Shapes
      <4> QED
        BY <4>2
    <3> QED
      BY <1>2, <3>1, <3>2
  <2>2. /\ UNCHANGED <<page, collection, job, phase, waiting, known, queue, stale, purging, work,
                       reading>>
        /\ source' \in {source, "deleted"}
        /\ vecs' \in [Keys -> Texts \cup {None}]
        /\ disturbed' = (disturbed \/ job = "sync")
    BY <1>2 DEF DeleteItem, DeleteSource, CrawlInv, Shapes
  <2>3. /\ status' = [k \in Keys |-> IF k \in keys THEN "absent" ELSE status[k]]
        /\ text' = [k \in Keys |-> IF k \in keys THEN None ELSE text[k]]
        /\ etag' = [k \in Keys |-> IF k \in keys THEN None ELSE etag[k]]
        /\ rows' = [k \in Keys |-> IF k \in keys THEN None ELSE rows[k]]
    BY <2>1 DEF RowsGo
  <2>4. Shapes'
    BY <2>2, <2>3 DEF CrawlInv, Shapes, Status
  <2>5. OneJob'
    BY <2>2, <2>3 DEF CrawlInv, OneJob, Present
  <2>6. ASSUME phase = "pages" PROVE ResultsFit' /\ PendingKept'
    <3>1. disturbed' /\ ResultsFit /\ PendingKept
      BY <2>2, <2>6 DEF CrawlInv, OneJob
    <3>2. ResultsFit'
      BY <2>2, <3>1 DEF ResultsFit, IsResult
    <3>3. PendingKept'
      BY <2>2, <2>3, <3>1 DEF PendingKept, Pending, Present
    <3> QED
      BY <3>2, <3>3
  <2>7. AbsentHasNoEtag' /\ LoadedIsStored' /\ DeletionDisturbs'
    BY <2>2, <2>3 DEF CrawlInv, AbsentHasNoEtag, LoadedIsStored, DeletionDisturbs, Present
  <2>8. BusySeen'
    BY <2>2, <2>3 DEF CrawlInv, BusySeen, Busy
  <2>9. CopyMatchesItsValidator' /\ CompletedIndexIsCurrent'
    BY <2>1, <2>2, <2>3 DEF CrawlInv, CopyMatchesItsValidator, CompletedIndexIsCurrent
  <2> QED
    BY <2>2, <2>4, <2>5, <2>6, <2>7, <2>8, <2>9 DEF CrawlInv
<1> QED
  BY <1>1, <1>2

-----------------------------------------------------------------------------
(* Every step. *)

(* Every step keeps the invariant.                                           *)
LEMMA InvKept ==
  ASSUME CrawlInv, [Next]_vars
  PROVE  CrawlInv'
<1>1. CASE Aside
  BY <1>1, AsideKeepsInv
<1>2. CASE \E k \in Keys : Publish(k)
  BY <1>2, PublishKeepsInv
<1>3. CASE JobOver
  BY <1>3, JobOverKeepsInv
<1>4. CASE SyncStart \/ Discover \/ PagesEnd
  BY <1>4, PhaseKeepsInv
<1>5. CASE \E k \in Keys : Fetch(k)
  BY <1>5, FetchKeepsInv
<1>6. CASE WorkerDone \/ ItemFailed \/ (queue # <<>> /\ PageUsed(Head(queue)))
  BY <1>6, MainLoopKeepsInv
<1>7. CASE (\E k \in Keys : Prune(k)) \/ (\E ok \in BOOLEAN : PruneVectors(ok))
  BY <1>7, PruneKeepsInv
<1>8. CASE IndexStep
  BY <1>8, IndexKeepsInv
<1>9. CASE (\E k \in Keys : DeleteItem(k)) \/ DeleteCollection \/ DeleteSource
  BY <1>9, DeletionKeepsInv
<1> QED
  BY <1>1, <1>2, <1>3, <1>4, <1>5, <1>6, <1>7, <1>8, <1>9
     DEF Next, SyncStep, MainLoopStep, AdminStep, Aside, JobOver, Fetch, PageUsed, Prune

(* Hence it holds in every state.                                            *)
LEMMA InvAlways == Spec => []CrawlInv
BY InvInitially, InvKept, PTL DEF Spec

-----------------------------------------------------------------------------
(* The etag that is sent as If-None-Match always belongs to the text that is *)
(* kept, although a page is fetched with an older copy of the etag and the   *)
(* item may be deleted, skipped or changed before its result is used: a page *)
(* that changed is never taken for unchanged (_sync_crawled_page).           *)
THEOREM CopiesMatchValidators == Spec => []CopyMatchesItsValidator
<1>1. CrawlInv => CopyMatchesItsValidator
  BY DEF CrawlInv
<1> QED
  BY <1>1, InvAlways, PTL

(* Whatever syncs, indexing runs, deletions and crashes follow each other, a *)
(* completed item is indexed as its text is stored now (_sync_crawled_page   *)
(* sets a changed page back to PENDING).                                     *)
THEOREM CompletedIndexesAreCurrent == Spec => []CompletedIndexIsCurrent
<1>1. CrawlInv => CompletedIndexIsCurrent
  BY DEF CrawlInv
<1> QED
  BY <1>1, InvAlways, PTL

(* A sync neither changes nor removes an item that is being indexed or       *)
(* paused, although the cleanup decides from statuses read before            *)
(* (_INDEX_BUSY_STATUSES).                                                   *)
THEOREM BusyItemsAreKept == Spec => BusyItemsKept
<1>1. ASSUME CrawlInv, [Next]_vars, NEW k \in Keys, status[k] \in Busy
      PROVE  IF status'[k] = "absent" THEN k \in deleting \/ sourceGone = "purged"
             ELSE text'[k] = text[k]
  <2>1. CASE \E j \in Keys : Prune(j)
    <3>1. PICK j \in Keys : Prune(j)
      BY <2>1
    <3>2. CASE PruneRow(j)
      <4>1. phase = "pruning" /\ stale[j] # "absent" /\ stale[j] \notin Busy
        BY <3>2 DEF PruneRow, Pruned
      <4>2. j # k
        BY <1>1, <4>1 DEF CrawlInv, BusySeen
      <4>3. status'[k] = status[k] /\ text'[k] = text[k]
        BY <3>2, <4>2 DEF PruneRow, RowsGo
      <4> QED
        BY <1>1, <4>3 DEF Busy
    <3>3. CASE ~ PruneRow(j)
      BY <1>1, <3>1, <3>3 DEF Prune, PruneSkipsBusy, PruneFindsNothing, itemVars, Busy
    <3> QED
      BY <3>2, <3>3
  <2>2. CASE queue # <<>> /\ PageUsed(Head(queue))
    BY <1>1, <2>2 DEF CrawlInv, Shapes, PageUsed, CreateItem, NotModified, SkipBusy, SameText,
       NewText, itemVars, Present, Busy
  <2>3. CASE IndexStep
    BY <1>1, <2>3 DEF CrawlInv, Shapes, IndexStep, IndexStart, ClaimItem, ClaimSkips, PauseRequest,
       IndexStops, IndexCompletes, IndexEnds, IndexUnchanged, WorkerLeaves, Busy, Claimable
  <2>4. CASE (\E j \in Keys : DeleteItem(j)) \/ DeleteSource
    BY <1>1, <2>4 DEF DeleteItem, DeleteSource, RowsGo, Busy
  <2>5. ASSUME UNCHANGED <<status, text>>
        PROVE  IF status'[k] = "absent" THEN k \in deleting \/ sourceGone = "purged"
               ELSE text'[k] = text[k]
    BY <1>1, <2>5 DEF Busy
  <2>6. CASE Aside \/ (\E j \in Keys : Publish(j)) \/ DeleteCollection
    <3>1. UNCHANGED <<status, text>>
      BY <2>6 DEF Aside, SyncRequest, SyncReused, AcceptSourceDelete, SourceDeleteFails,
         UpdateConfig, AcceptDelete, AcceptUpdate, Publish, DeleteCollection, vars, itemVars
    <3> QED
      BY <2>5, <3>1
  <2>7. CASE JobOver \/ SyncStart \/ Discover \/ PagesEnd \/ WorkerDone \/ ItemFailed
    <3>1. UNCHANGED <<status, text>>
      BY <2>7 DEF JobOver, LoadFails, DiscoversNothing, PageRaises, SyncCompletes, Crash,
         SyncRaises, SyncStart, Discover, PagesEnd, WorkerDone, ItemFailed, itemVars
    <3> QED
      BY <2>5, <3>1
  <2>8. CASE (\E j \in Keys : Fetch(j)) \/ (\E ok \in BOOLEAN : PruneVectors(ok))
    <3>1. UNCHANGED <<status, text>>
      BY <2>8 DEF Fetch, FetchNotModified, FetchPage, FetchFails, Answer, Put, PruneVectors,
         itemVars
    <3> QED
      BY <2>5, <3>1
  <2> QED
    BY <1>1, <2>1, <2>2, <2>3, <2>4, <2>6, <2>7, <2>8
       DEF Next, SyncStep, MainLoopStep, AdminStep, Aside, JobOver, Fetch, PageUsed, Prune
<1>2. CrawlInv /\ [Next]_vars =>
        [\A k \in Keys : status[k] \in Busy =>
           IF status'[k] = "absent" THEN k \in deleting \/ sourceGone = "purged"
           ELSE text'[k] = text[k]]_vars
  BY <1>1
<1> QED
  BY <1>2, InvAlways, PTL DEF Spec, BusyItemsKept

(* The sync of a URL list raises only if an item or the source was deleted   *)
(* since it started (sync_source): no answer of the site, no busy item and   *)
(* no crash of an earlier run makes it fail.                                 *)
THEOREM SyncsFailOnlyIfDisturbed == Spec => SyncFailsOnlyIfDisturbed
<1>1. ASSUME CrawlInv, LoadFails \/ PageRaises
      PROVE  disturbed \/ cfg.entry # "url_list"
  <2>1. CASE LoadFails
    BY <1>1, <2>1 DEF LoadFails, CrawlInv, OneJob, DeletionDisturbs
  <2>2. CASE PageRaises
    <3> DEFINE k == Head(queue).key
    <3>1. /\ phase = "pages" /\ queue # <<>> /\ ~ Present(k)
          /\ Head(queue).kind = "not_modified" \/ source = "deleted"
      BY <2>2 DEF PageRaises, Received
    <3>2. CASE source = "deleted"
      BY <1>1, <3>1, <3>2 DEF CrawlInv, OneJob, DeletionDisturbs
    <3>3. CASE Head(queue).kind = "not_modified"
      <4>1. queue \in Seq(Results \cup Marks) /\ ResultsFit /\ PendingKept
        BY <1>1, <3>1 DEF CrawlInv, Shapes
      <4>2. 1 \in DOMAIN queue /\ queue[1] = Head(queue) /\ Head(queue) \in Results \cup Marks
        BY <3>1, <4>1, QueueShrinks
      <4>3. k \in Keys
        BY <4>2, MessagesTyped
      <4>4. Pending(k)
        BY <3>3, <4>2 DEF Pending
      <4>5. known[k] = Head(queue).version /\ Head(queue).version # None
        BY <3>3, <4>1, <4>2, <4>3, PagesAreVersions DEF ResultsFit, IsResult
      <4> QED
        BY <3>1, <4>1, <4>3, <4>4, <4>5 DEF PendingKept
    <3> QED
      BY <3>1, <3>2, <3>3
  <2> QED
    BY <1>1, <2>1, <2>2
<1>2. CrawlInv /\ [Next]_vars =>
        [LoadFails \/ PageRaises => disturbed \/ cfg.entry # "url_list"]_vars
  BY <1>1
<1> QED
  BY <1>2, InvAlways, PTL DEF Spec, SyncFailsOnlyIfDisturbed

-----------------------------------------------------------------------------
(* The count of pages: every page discovered has a worker, a result in the   *)
(* queue or its counter, and one of the three only.                          *)

ResultsAt(q) == {i \in DOMAIN q : IsResult(q[i])}

Counted == counters["upserted"] + counters["skipped"] + counters["failed"]

(* Where PagesAccountedFor speaks the counters are numbers; before that they *)
(* are 0.                                                                    *)
CountInv ==
  /\ phase \in {"idle", "loading"} => counters = NoCounts
  /\ phase = "pages" => counters \in [Counter -> Nat] /\ waiting \subseteq Keys
  /\ PagesAccountedFor

(* A worker's result and its mark are one result more, or none.              *)
LEMMA ResultsGrow ==
  ASSUME NEW S, NEW q \in Seq(S), NEW x \in S, NEW y \in S, ~ IsResult(y)
  PROVE  /\ IsFiniteSet(ResultsAt(q)) /\ Cardinality(ResultsAt(q)) \in Nat
         /\ Cardinality(ResultsAt(q \o <<x, y>>))
              = Cardinality(ResultsAt(q)) + IF IsResult(x) THEN 1 ELSE 0
<1>1. Len(q) \in Nat /\ DOMAIN q = 1 .. Len(q)
  OBVIOUS
<1>2. IsFiniteSet(DOMAIN q)
  BY <1>1, FS_Interval
<1>3. IsFiniteSet(ResultsAt(q))
  BY <1>2, FS_Subset DEF ResultsAt
<1>4. /\ DOMAIN (q \o <<x, y>>) = DOMAIN q \cup {Len(q) + 1, Len(q) + 2}
      /\ \A i \in DOMAIN q : (q \o <<x, y>>)[i] = q[i]
      /\ (q \o <<x, y>>)[Len(q) + 1] = x /\ (q \o <<x, y>>)[Len(q) + 2] = y
  OBVIOUS
<1>5. ResultsAt(q \o <<x, y>>) = ResultsAt(q) \cup IF IsResult(x) THEN {Len(q) + 1} ELSE {}
  BY <1>4 DEF ResultsAt
<1>6. Len(q) + 1 \notin ResultsAt(q)
  BY <1>1 DEF ResultsAt
<1>7. CASE IsResult(x)
  <2>1. ResultsAt(q \o <<x, y>>) = ResultsAt(q) \cup {Len(q) + 1}
    BY <1>5, <1>7
  <2> QED
    BY <1>3, <1>6, <1>7, <2>1, FS_AddElement, FS_CardinalityType
<1>8. CASE ~ IsResult(x)
  <2>1. ResultsAt(q \o <<x, y>>) = ResultsAt(q)
    BY <1>5, <1>8
  <2> QED
    BY <1>3, <1>8, <2>1, FS_CardinalityType
<1> QED
  BY <1>7, <1>8

(* A message taken is one result less, or none.                              *)
LEMMA ResultsShrink ==
  ASSUME NEW S, NEW q \in Seq(S), q # <<>>
  PROVE  /\ Cardinality(ResultsAt(q)) \in Nat /\ Cardinality(ResultsAt(Tail(q))) \in Nat
         /\ Cardinality(ResultsAt(q))
              = Cardinality(ResultsAt(Tail(q))) + IF IsResult(Head(q)) THEN 1 ELSE 0
<1>1. PICK n \in Nat : Len(q) = n + 1
  OBVIOUS
<1>2. /\ Tail(q) \in Seq(S) /\ DOMAIN q = 1 .. n + 1 /\ DOMAIN Tail(q) = 1 .. n
      /\ q[1] = Head(q) /\ \A i \in 1 .. n : Tail(q)[i] = q[i + 1]
  BY <1>1
<1> DEFINE A == ResultsAt(Tail(q))
           B == ResultsAt(q) \ {1}
           f == [i \in A |-> i + 1]
<1>3. IsFiniteSet(A) /\ IsFiniteSet(ResultsAt(q))
  <2>1. IsFiniteSet(1 .. n) /\ IsFiniteSet(1 .. n + 1)
    BY FS_Interval
  <2>2. A \subseteq 1 .. n /\ ResultsAt(q) \subseteq 1 .. n + 1
    BY <1>2 DEF ResultsAt
  <2> QED
    BY <2>1, <2>2, FS_Subset
<1>4. f \in Surjection(A, B)
  <2>1. \A i \in A : i \in 1 .. n /\ i + 1 \in 1 .. n + 1 /\ i + 1 # 1
    BY <1>2 DEF ResultsAt
  <2>2. \A i \in A : i + 1 \in B
    BY <1>2, <2>1 DEF ResultsAt
  <2>3. \A m \in B : \E i \in A : f[i] = m
    <3> SUFFICES ASSUME NEW m \in B PROVE \E i \in A : i + 1 = m
      OBVIOUS
    <3>1. m \in 1 .. n + 1 /\ m # 1 /\ IsResult(q[m])
      BY <1>2 DEF ResultsAt
    <3>2. m - 1 \in 1 .. n /\ (m - 1) + 1 = m
      BY <3>1
    <3>3. m - 1 \in A
      BY <1>2, <3>1, <3>2 DEF ResultsAt
    <3> QED
      BY <3>2, <3>3
  <2> QED
    BY <2>2, <2>3 DEF Surjection
<1>5. f \in Injection(A, B)
  <2>1. \A i, j \in A : i + 1 = j + 1 => i = j
    BY <1>2 DEF ResultsAt
  <2>2. f \in [A -> B]
    BY <1>4 DEF Surjection
  <2> QED
    BY <2>1, <2>2 DEF Injection, IsInjective
<1>6. Cardinality(B) = Cardinality(A)
  BY <1>3, <1>4, <1>5, FS_Surjection
<1>7. 1 \in ResultsAt(q) <=> IsResult(Head(q))
  BY <1>2 DEF ResultsAt
<1>8. Cardinality(B) = IF 1 \in ResultsAt(q) THEN Cardinality(ResultsAt(q)) - 1
                      ELSE Cardinality(ResultsAt(q))
  BY <1>3, FS_RemoveElement
<1>9. Cardinality(A) \in Nat /\ Cardinality(ResultsAt(q)) \in Nat
  BY <1>3, FS_CardinalityType
<1> HIDE DEF A, B
<1>10. Cardinality(ResultsAt(q)) = Cardinality(A) + IF IsResult(Head(q)) THEN 1 ELSE 0
  BY <1>6, <1>7, <1>8, <1>9
<1> QED
  BY <1>9, <1>10 DEF A

(* The count, and what it is made of. *)
LEMMA CountRead ==
  /\ PagesAccountedFor <=>
       (phase = "pages" => Counted + Cardinality(waiting) + Cardinality(ResultsAt(queue))
                            = Cardinality(Discovered(cfg)))
  /\ PagesAccountedFor' <=>
       (phase' = "pages" => Counted' + Cardinality(waiting') + Cardinality(ResultsAt(queue'))
                             = Cardinality(Discovered(cfg')))
BY DEF PagesAccountedFor, Counted, ResultsAt, IsResult

(* One of the three counters goes up. *)
LEMMA CountGoesUp ==
  ASSUME counters \in [Counter -> Nat], NEW c \in {"upserted", "skipped", "failed"}, Count(c)
  PROVE  counters' \in [Counter -> Nat] /\ Counted \in Nat /\ Counted' = Counted + 1
BY DEF Count, Counter, Counted

(* Steps that leave the pages of a sync alone. *)
LEMMA CountUnchanged ==
  ASSUME CountInv, UNCHANGED <<phase, counters, waiting, queue, cfg>>
  PROVE  CountInv'
BY DEF CountInv, PagesAccountedFor

(* A sync that begins to fetch has every page waiting. *)
LEMMA DiscoverCounts ==
  ASSUME CountInv, OneJob, Discover
  PROVE  CountInv'
<1>1. /\ phase' = "pages" /\ waiting' = Discovered(cfg) /\ cfg' = cfg
      /\ counters' = NoCounts /\ queue' = <<>>
  BY DEF CountInv, OneJob, Discover
<1>2. counters' \in [Counter -> Nat] /\ Counted' = 0
  BY <1>1 DEF NoCounts, Counter, Counted
<1>3. waiting' \subseteq Keys
  BY <1>1, WebCrawlAssumption DEF Discovered
<1>4. IsFiniteSet(waiting')
  BY <1>3, WebCrawlAssumption, FS_Subset
<1>5. ResultsAt(queue') = {}
  BY <1>1 DEF ResultsAt
<1>6. Cardinality(ResultsAt(queue')) = 0 /\ Cardinality(waiting') \in Nat
  BY <1>4, <1>5, FS_EmptySet, FS_CardinalityType
<1>7. PagesAccountedFor'
  BY <1>1, <1>2, <1>6, CountRead
<1> QED
  BY <1>1, <1>2, <1>3, <1>7 DEF CountInv

(* A worker gives its place to its result, or to the counter of failures. *)
LEMMA FetchCounts ==
  ASSUME CountInv, CrawlInv, NEW k \in Keys, Fetch(k)
  PROVE  CountInv'
<1>1. Shapes /\ OneJob /\ queue \in Seq(Results \cup Marks)
  BY DEF CrawlInv, Shapes
<1>2. /\ k \in waiting /\ waiting' = waiting \ {k} /\ UNCHANGED <<phase, cfg>>
  BY <1>1, FetchPuts
<1>3. CASE phase # "pages"
  BY <1>1, <1>2, <1>3 DEF CountInv, OneJob, PagesAccountedFor
<1>4. CASE phase = "pages"
  <2>1. counters \in [Counter -> Nat] /\ waiting \subseteq Keys
    BY <1>4 DEF CountInv
  <2>2. IsFiniteSet(waiting)
    BY <2>1, WebCrawlAssumption, FS_Subset
  <2>3. /\ Cardinality(waiting) \in Nat /\ Cardinality(waiting') \in Nat
        /\ Cardinality(waiting) = Cardinality(waiting') + 1
    <3>1. Cardinality(waiting') = Cardinality(waiting) - 1 /\ IsFiniteSet(waiting')
      BY <1>2, <2>2, FS_RemoveElement
    <3> QED
      BY <2>2, <3>1, FS_CardinalityType
  <2>4. PICK x \in Results \cup Marks, y \in Marks :
          /\ queue' = queue \o <<x, y>> /\ ~ IsResult(y)
          /\ IF IsResult(x) THEN UNCHANGED counters ELSE Count("failed")
    BY <1>1, FetchPuts
  <2>5. /\ Cardinality(ResultsAt(queue)) \in Nat
        /\ Cardinality(ResultsAt(queue'))
             = Cardinality(ResultsAt(queue)) + IF IsResult(x) THEN 1 ELSE 0
    <3>1. y \in Results \cup Marks
      OBVIOUS
    <3> QED
      BY <1>1, <2>4, <3>1, ResultsGrow
  <2>6. /\ counters' \in [Counter -> Nat] /\ Counted \in Nat
        /\ Counted' = Counted + IF IsResult(x) THEN 0 ELSE 1
    <3>1. CASE IsResult(x)
      BY <2>1, <2>4, <3>1 DEF Counter, Counted
    <3>2. CASE ~ IsResult(x)
      BY <2>1, <2>4, <3>2, CountGoesUp
    <3> QED
      BY <3>1, <3>2
  <2>7. Counted + Cardinality(waiting) + Cardinality(ResultsAt(queue)) = Cardinality(Discovered(cfg))
    BY <1>4, CountRead DEF CountInv
  <2>8. Counted' + Cardinality(waiting') + Cardinality(ResultsAt(queue'))
          = Counted + Cardinality(waiting) + Cardinality(ResultsAt(queue))
    BY <2>3, <2>5, <2>6
  <2>9. PagesAccountedFor'
    BY <1>2, <2>7, <2>8, CountRead
  <2> QED
    BY <1>2, <1>4, <2>1, <2>6, <2>9 DEF CountInv
<1> QED
  BY <1>3, <1>4

(* The main loop counts the page of a result it takes, and nothing for a     *)
(* mark.                                                                     *)
TakesResult == IsResult(Head(queue)) /\ \E c \in {"upserted", "skipped"} : Count(c)
TakesMark   == ~ IsResult(Head(queue)) /\ UNCHANGED counters

LEMMA TakingCounts ==
  ASSUME CountInv, CrawlInv, phase = "pages", queue # <<>>, Taken, TakesResult \/ TakesMark
  PROVE  CountInv'
<1>1. queue \in Seq(Results \cup Marks)
  BY DEF CrawlInv, Shapes
<1>2. queue' = Tail(queue) /\ UNCHANGED <<phase, cfg, waiting>>
  BY DEF Taken
<1>3. /\ Cardinality(ResultsAt(queue)) \in Nat /\ Cardinality(ResultsAt(queue')) \in Nat
      /\ Cardinality(ResultsAt(queue))
           = Cardinality(ResultsAt(queue')) + IF IsResult(Head(queue)) THEN 1 ELSE 0
  BY <1>1, <1>2, ResultsShrink
<1>4. counters \in [Counter -> Nat] /\ waiting \subseteq Keys
  BY DEF CountInv
<1>5. /\ counters' \in [Counter -> Nat] /\ Counted \in Nat
      /\ Counted' = Counted + IF IsResult(Head(queue)) THEN 1 ELSE 0
  <2>1. CASE TakesResult
    BY <1>4, <2>1, CountGoesUp DEF TakesResult
  <2>2. CASE TakesMark
    BY <1>4, <2>2 DEF TakesMark, Counter, Counted
  <2> QED
    BY <2>1, <2>2
<1>6. Cardinality(waiting) \in Nat
  <2>1. IsFiniteSet(waiting)
    BY <1>4, WebCrawlAssumption, FS_Subset
  <2> QED
    BY <2>1, FS_CardinalityType
<1>7. Counted + Cardinality(waiting) + Cardinality(ResultsAt(queue)) = Cardinality(Discovered(cfg))
  BY CountRead DEF CountInv
<1>8. Counted' + Cardinality(waiting') + Cardinality(ResultsAt(queue'))
        = Counted + Cardinality(waiting) + Cardinality(ResultsAt(queue))
  BY <1>2, <1>3, <1>5, <1>6
<1>9. PagesAccountedFor'
  BY <1>2, <1>7, <1>8, CountRead
<1> QED
  BY <1>2, <1>4, <1>5, <1>9 DEF CountInv

(* What the main loop does with a message counts it as it should. *)
LEMMA MessageCounts ==
  ASSUME CountInv, CrawlInv,
         WorkerDone \/ ItemFailed \/ (queue # <<>> /\ PageUsed(Head(queue)))
  PROVE  CountInv'
<1>1. CASE WorkerDone \/ ItemFailed
  <2>1. phase = "pages" /\ queue # <<>> /\ Taken /\ TakesMark
    BY <1>1 DEF WorkerDone, ItemFailed, Received, TakesMark, IsResult
  <2> QED
    BY <2>1, TakingCounts
<1>2. CASE queue # <<>> /\ PageUsed(Head(queue))
  <2>1. phase = "pages" /\ queue # <<>> /\ Taken /\ IsResult(Head(queue))
    BY <1>2 DEF PageUsed, CreateItem, NotModified, SkipBusy, SameText, NewText, SyncCrawledPage,
       Received, IsResult
  <2>2. Count("upserted") \/ Count("skipped")
    BY <1>2 DEF PageUsed, CreateItem, NotModified, SkipBusy, SameText, NewText
  <2> QED
    BY <2>1, <2>2, TakingCounts DEF TakesResult
<1> QED
  BY <1>1, <1>2

(* The end of a sync, and the phases in which no page is counted. *)
LEMMA RestCounts ==
  ASSUME CountInv, CrawlInv,
         \/ JobOver \/ SyncStart \/ PagesEnd
         \/ (\E k \in Keys : Prune(k)) \/ (\E ok \in BOOLEAN : PruneVectors(ok))
  PROVE  CountInv'
<1>1. CASE JobOver
  <2>1. phase' = "idle" /\ counters' = NoCounts
    BY <1>1 DEF JobOver, LoadFails, DiscoversNothing, PageRaises, SyncCompletes, Crash,
       SyncRaises, SyncEnds, SyncIdle
  <2> QED
    BY <2>1 DEF CountInv, PagesAccountedFor
<1>2. CASE SyncStart
  <2>1. phase = "idle" /\ phase' = "loading" /\ counters' = counters
    BY <1>2 DEF SyncStart, CrawlInv, OneJob
  <2> QED
    BY <2>1 DEF CountInv, PagesAccountedFor
<1>3. CASE PagesEnd \/ (\E k \in Keys : Prune(k)) \/ (\E ok \in BOOLEAN : PruneVectors(ok))
  <2>1. phase' \in {"pruning", "purging"}
    BY <1>3 DEF PagesEnd, Prune, PruneSkipsBusy, PruneRow, PruneFindsNothing, Pruned, PruneVectors
  <2> QED
    BY <2>1 DEF CountInv, PagesAccountedFor
<1> QED
  BY <1>1, <1>2, <1>3

LEMMA CountAlways == Spec => []CountInv
<1>1. Init => CountInv
  BY DEF Init, CountInv, PagesAccountedFor
<1>2. ASSUME CountInv, CrawlInv, [Next]_vars PROVE CountInv'
  <2>1. CASE \/ Aside \/ (\E k \in Keys : Publish(k)) \/ IndexStep \/ DeleteCollection
             \/ DeleteSource \/ (\E k \in Keys : DeleteItem(k))
    <3>1. UNCHANGED <<phase, counters, waiting, queue, cfg>>
      BY <2>1 DEF Aside, SyncRequest, SyncReused, AcceptSourceDelete, SourceDeleteFails,
         UpdateConfig, AcceptDelete, AcceptUpdate, Publish, IndexStep, IndexStart, ClaimItem,
         ClaimSkips, PauseRequest, IndexStops, IndexCompletes, IndexEnds, IndexUnchanged,
         WorkerLeaves, DeleteCollection, DeleteSource, DeleteItem, AdminUnchanged, syncVars, vars
    <3> QED
      BY <1>2, <3>1, CountUnchanged
  <2>2. CASE Discover
    BY <1>2, <2>2, DiscoverCounts DEF CrawlInv
  <2>3. CASE \E k \in Keys : Fetch(k)
    BY <1>2, <2>3, FetchCounts
  <2>4. CASE WorkerDone \/ ItemFailed \/ (queue # <<>> /\ PageUsed(Head(queue)))
    BY <1>2, <2>4, MessageCounts
  <2>5. CASE \/ JobOver \/ SyncStart \/ PagesEnd
             \/ (\E k \in Keys : Prune(k)) \/ (\E ok \in BOOLEAN : PruneVectors(ok))
    BY <1>2, <2>5, RestCounts
  <2> QED
    BY <1>2, <2>1, <2>2, <2>3, <2>4, <2>5
       DEF Next, SyncStep, MainLoopStep, AdminStep, Aside, JobOver, Fetch, PageUsed, Prune
<1> QED
  BY <1>1, <1>2, InvAlways, PTL DEF Spec

(* No page is lost between the fetch workers, the queue and the main loop of *)
(* sync_source, and none is counted twice.                                   *)
THEOREM PagesAreAccountedFor == Spec => []PagesAccountedFor
<1>1. CountInv => PagesAccountedFor
  BY DEF CountInv
<1> QED
  BY <1>1, CountAlways, PTL
=============================================================================
