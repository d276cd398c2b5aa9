----------------------------- MODULE SourceRuntime -----------------------------
(***************************************************************************)
(* The console's page of a source: useSourceItemsRuntime.ts and the store  *)
(* stores/source.ts under it, against the endpoints of                     *)
(* api/admin/endpoints/source.py.                                          *)
(*                                                                         *)
(* JavaScript runs a callback to its next await, so an action is what one  *)
(* answer, event, timer or click does.  An answer is read on the server in *)
(* one step and arrives in a later one, in any order with the others.      *)
(* Aborting a stream that is opening or read ends it at once: its rejected *)
(* promise is handled before any other callback.  A stream that is already *)
(* reloading the page only notes the abort.                                *)
(*                                                                         *)
(* A job is what its event log says it did: one event for the claim and    *)
(* one for the end of an item, a last one for the job.  The streams keep   *)
(* the promise of JobFeed: forwards only, events may be skipped, the end   *)
(* is told with the last event.                                            *)
(***************************************************************************)
EXTENDS Naturals, Sequences, FiniteSets

CONSTANTS
  Sources, Items, Jobs,
  SourceOf,      \* the source of each item
  CrawlSources,  \* those of type web_crawl, the others hold local files
  Copies,        \* bound: streams of one job that may exist at a time
  Loads,         \* bound: page loads in flight
  Kinds,         \* the kinds of requests made
  Beginnings,    \* what may be stored when the view is mounted
  Underway,      \* the items a job may be at work on then
  Spent,         \* bound: how much of the bounds is used up then
  None,
  MaxRequests, MaxVisits, MaxFailures   \* bounds

ASSUME SourceRuntimeAssumption ==
  /\ SourceOf \in [Items -> Sources] /\ CrawlSources \subseteq Sources
  /\ None \notin Sources \cup Copies \cup Items
  /\ Kinds \subseteq {"index", "resume", "sync", "pause", "upload", "rename", "delete", "drop"}
  /\ Beginnings \subseteq [Items -> {"pending", "paused", "failed", "completed", "absent"}]
  /\ Underway \subseteq SUBSET Items
  /\ Spent \subseteq [{"requests", "visits", "failures"} -> Nat]
  /\ {MaxRequests, MaxVisits, MaxFailures} \subseteq Nat

VARIABLES
  stored,       \* status of each item in the database, "absent" before there is
                \* a row and "gone" after
  dropped,      \* the sources deleted
  jobs,         \* the job manager's jobs
  log,          \* events of each job
  page,         \* sourceUid of the route, None once the view is unmounted
  shown,        \* itemsBySourceUid: the status shown, "absent" for no row
  active,       \* activeJobsBySourceUid
  stream,       \* the calls of consumeJobStream
  controllers,  \* controllersByJobUid
  jobSource,    \* jobSourceUidByJobUid
  lastId,       \* lastEventIdByJobUid, 0 for none
  load,         \* calls of loadWorkspace, and the reload after an upload
  request,      \* the mutation of the store in flight: isMutating allows one
  bar,          \* progressByItemUid, "closing" with its timer set
  panel,        \* syncVisibleBySourceUid, "closing" with its timer set
  unsure,       \* ghost: items changed untold, or shown by an outdated answer
  missed,       \* ghost: items whose bar nobody will close
  count         \* requests, visits and failures, counted against their bounds

serverVars == <<stored, dropped, jobs, log>>
mapVars    == <<controllers, jobSource>>
vars == <<stored, dropped, jobs, log, page, shown, active, stream, controllers, jobSource, lastId,
          load, request, bar, panel, unsure, missed, count>>

Busy      == {"processing", "pause_requested"}
Claimable == {"pending", "paused", "failed"}
Status    == Busy \cup Claimable \cup {"completed", "absent"}
NoRow     == {"absent", "gone"}
Starts    == {"index", "resume", "sync"}

EventNames == {"item_progress", "item_completed", "item_failed", "item_paused", "item_skipped",
               "item_upserted", "item_deleted", "sync_complete"}

NoJob     == [kind |-> "none", source |-> None, items |-> {}, left |-> {}, over |-> FALSE]
NoStream  == [phase |-> "idle", at |-> 0, aborted |-> FALSE,
              statuses |-> [i \in Items |-> "absent"], listed |-> {}]
NoLoad    == [phase |-> "idle", source |-> None, whole |-> FALSE,
              statuses |-> [i \in Items |-> "absent"], listed |-> {}]
NoRequest == [kind |-> "none", state |-> "free", source |-> None, items |-> {}, job |-> {},
              fresh |-> FALSE, statuses |-> [i \in Items |-> "absent"]]

ItemsOf(s)  == {i \in Items : SourceOf[i] = s}
Running(j)  == jobs[j].kind # "none" /\ ~ jobs[j].over
ActiveJobs  == {j \in Jobs : Running(j)}
Free(l)     == load[l].phase = "idle"
Row(i)      == IF stored[i] = "gone" THEN "absent" ELSE stored[i]
Snapshot(s) == [i \in Items |-> IF SourceOf[i] = s THEN Row(i) ELSE "absent"]

Reads   == {"opening", "reading"}
Reloads == {"asksItems", "hasItems", "asksJobs", "hasJobs"}

RuntimeTypeOK ==
  /\ stored \in [Items -> Status \cup {"gone"}] /\ shown \in [Items -> Status]
  /\ dropped \subseteq Sources
  /\ jobs \in [Jobs -> [kind : {"none"} \cup Starts, source : Sources \cup {None},
                        items : SUBSET Items, left : SUBSET Items, over : BOOLEAN]]
  /\ log \in [Jobs -> Seq([name : EventNames, item : Items \cup {None},
                           status : Status \cup {None}])]
  /\ page \in Sources \cup {None} /\ active \in [Sources -> SUBSET Jobs]
  /\ stream \in [Jobs -> [Copies -> [phase : {"idle"} \cup Reads \cup Reloads, at : Nat,
                                     aborted : BOOLEAN, statuses : [Items -> Status],
                                     listed : SUBSET Jobs]]]
  /\ controllers \in [Jobs -> Copies \cup {None}]
  /\ jobSource \in [Jobs -> Sources \cup {None}]
  /\ lastId \in [Jobs -> Nat]
  /\ load \in [Loads -> [phase : {"idle"} \cup Reloads, source : Sources \cup {None},
                         whole : BOOLEAN, statuses : [Items -> Status], listed : SUBSET Jobs]]
  /\ request \in [kind : {"none"} \cup Kinds, state : {"free", "sent", "served", "refused"},
                  source : Sources \cup {None}, items : SUBSET Items,
                  job : SUBSET Jobs, fresh : BOOLEAN, statuses : [Items -> Status]]
  /\ bar \in [Items -> {"none", "shown", "closing"}]
  /\ panel \in [Sources -> {"hidden", "shown", "closing"}]
  /\ unsure \in SUBSET Items /\ missed \in SUBSET Items
  /\ count \in [{"requests", "visits", "failures"} -> Nat]

Started(kind, s, items) ==
  [kind |-> kind, source |-> s, items |-> items,
   left |-> IF kind = "sync" THEN ItemsOf(s) ELSE items, over |-> FALSE]

(* The view has just been mounted, and loads its page.  A job that somebody  *)
(* else has started may be about to run.                                     *)
Init ==
  /\ stored \in Beginnings /\ dropped = {}
  /\ \/ jobs = [j \in Jobs |-> NoJob]
     \/ \E j \in Jobs, s \in Sources, items \in Underway :
          /\ items \subseteq {i \in ItemsOf(s) : stored[i] # "absent"}
          /\ jobs = [[x \in Jobs |-> NoJob] EXCEPT ![j] = Started("index", s, items)]
  /\ log = [j \in Jobs |-> <<>>]
  /\ page \in Sources
  /\ shown = [i \in Items |-> "absent"] /\ active = [s \in Sources |-> {}]
  /\ stream = [j \in Jobs |-> [k \in Copies |-> NoStream]]
  /\ controllers = [j \in Jobs |-> None] /\ jobSource = [j \in Jobs |-> None]
  /\ lastId = [j \in Jobs |-> 0]
  /\ \E l \in Loads :
       load = [m \in Loads |-> IF m = l THEN [NoLoad EXCEPT !.phase = "asksItems",
                                                            !.source = page, !.whole = TRUE]
                               ELSE NoLoad]
  /\ request = NoRequest
  /\ bar = [i \in Items |-> "none"] /\ panel = [s \in Sources |-> "hidden"]
  /\ unsure = {} /\ missed = {}
  /\ count \in Spent

Counts(n, max) == count[n] < max /\ count' = [count EXCEPT ![n] = @ + 1]
(* A call fails once its source is gone, or because the network does. *)
Breaks(s) == IF s \in dropped THEN UNCHANGED count ELSE Counts("failures", MaxFailures)

-----------------------------------------------------------------------------
(* The server: the job of a source changes its items and reports it. *)

Event(name, i, status) == [name |-> name, item |-> i, status |-> status]
Reading(j, k)  == stream[j][k].phase \in Reads
Answering(j)   == request.state = "served" /\ j \in request.job
Followed(j)    == Answering(j) \/ \E k \in Copies : Reading(j, k)

(* The status of an item of a running job changes and is reported. *)
Reports(j, i, status, event, left) ==
  /\ Running(j)
  /\ stored' = [stored EXCEPT ![i] = status]
  /\ jobs' = [jobs EXCEPT ![j].left = left]
  /\ log' = [log EXCEPT ![j] = Append(@, event)]
  /\ unsure' = IF Followed(j) \/ status = stored[i] THEN unsure ELSE unsure \cup {i}
  /\ UNCHANGED <<dropped, page, shown, active, stream, mapVars, lastId, load, request, bar,
                 panel, missed, count>>

Allowed(j) == IF jobs[j].kind = "resume" THEN {"paused"} ELSE Claimable

Claims(j, i) ==
  /\ stored[i] \in Allowed(j)
  /\ Reports(j, i, "processing", Event("item_progress", i, "processing"), jobs[j].left)

Skips(j, i) ==
  /\ stored[i] \notin Allowed(j) \cup Busy \cup NoRow
  /\ Reports(j, i, stored[i], Event("item_skipped", i, stored[i]), jobs[j].left \ {i})

(* An item that was deleted is not resolved; the handler reports a failure. *)
Misses(j, i) ==
  /\ stored[i] \in NoRow
  /\ Reports(j, i, stored[i], Event("item_failed", i, "failed"), jobs[j].left \ {i})

Pauses(j, i) ==
  /\ stored[i] = "pause_requested"
  /\ Reports(j, i, "paused", Event("item_paused", i, "paused"), jobs[j].left \ {i})

Settles(j, i) ==
  /\ stored[i] \in Busy
  /\ \/ Reports(j, i, "completed", Event("item_completed", i, "completed"), jobs[j].left \ {i})
     \/ Reports(j, i, "failed", Event("item_failed", i, "failed"), jobs[j].left \ {i})

(* ingest_source_items, for an item whose worker is not done. *)
IndexesItem(j, i) ==
  /\ jobs[j].kind \in {"index", "resume"} /\ i \in jobs[j].left
  /\ Claims(j, i) \/ Skips(j, i) \/ Misses(j, i) \/ Pauses(j, i) \/ Settles(j, i)

(* sync_source: a page new or changed, one unchanged, one no longer found.   *)
(* The event of an unchanged page names no item, that of a changed one does  *)
(* not bring the item with it.                                               *)
CrawlsItem(j, i) ==
  /\ jobs[j].kind = "sync" /\ i \in jobs[j].left
  /\ \/ /\ stored[i] # "gone"
        /\ Reports(j, i, "pending", Event("item_upserted", i, "pending"), jobs[j].left \ {i})
     \/ Reports(j, i, stored[i], Event("item_skipped", None, None), jobs[j].left \ {i})
     \/ /\ stored[i] \notin NoRow
        /\ Reports(j, i, "gone", Event("item_deleted", i, None), jobs[j].left \ {i})

EndsJob(j) ==
  /\ Running(j) /\ jobs[j].left = {}
  /\ jobs' = [jobs EXCEPT ![j].over = TRUE]
  /\ log' = [log EXCEPT ![j] = Append(@, Event("sync_complete", None, None))]
  /\ UNCHANGED <<stored, dropped, page, shown, active, stream, mapVars, lastId, load, request,
                 bar, panel, unsure, missed, count>>

-----------------------------------------------------------------------------
(* Following jobs. *)

ShowPanels(S) ==   \* showSyncPanel
  panel' = [s \in Sources |-> IF s \in S THEN "shown" ELSE panel[s]]

CrawlOf(j) == IF jobs[j].kind = "sync" THEN {jobs[j].source} ELSE {}

Closes(s) ==       \* scheduleHideSyncPanel, of a panel that is there
  [panel EXCEPT ![s] = IF @ = "hidden" THEN @ ELSE "closing"]

(* Mutant: a job that has a stream gets another one. *)
ConnectAgain(S) ==
  /\ ShowPanels(UNION {CrawlOf(j) : j \in S})
  /\ \E copy \in [S -> Copies] :
       /\ \A j \in S : stream[j][copy[j]].phase = "idle"
       /\ controllers' = [j \in Jobs |-> IF j \in S THEN copy[j] ELSE controllers[j]]
       /\ jobSource' = [j \in Jobs |-> IF j \in S THEN jobs[j].source ELSE jobSource[j]]
       /\ stream' = [j \in Jobs |->
             IF j \in S
             THEN [stream[j] EXCEPT ![copy[j]] = [NoStream EXCEPT !.phase = "opening"]]
             ELSE stream[j]]

(* connectJob for every job of S, as connectActiveJobs does: a job with a    *)
(* controller has only its panel shown.                                      *)
Connect(S) ==
  LET new == {j \in S : controllers[j] = None}
  IN /\ ShowPanels(UNION {CrawlOf(j) : j \in S})
     /\ \E copy \in [new -> Copies] :
          /\ \A j \in new : stream[j][copy[j]].phase = "idle"
          /\ controllers' = [j \in Jobs |-> IF j \in new THEN copy[j] ELSE controllers[j]]
          /\ jobSource' = [j \in Jobs |-> IF j \in new THEN jobs[j].source ELSE jobSource[j]]
          /\ stream' = [j \in Jobs |->
                IF j \in new
                THEN [stream[j] EXCEPT ![copy[j]] = [NoStream EXCEPT !.phase = "opening",
                                                                     !.at = lastId[j]]]
                ELSE stream[j]]

(* disconnectSourceJobs: the streams that read end with it, those that       *)
(* reload go on.                                                             *)
Disconnect(s) ==
  LET cut == {j \in Jobs : jobSource[j] = s}
      after(x) == IF x.phase \in Reads THEN NoStream ELSE [x EXCEPT !.aborted = TRUE]
  IN /\ stream' = [j \in Jobs |->
           IF j \in cut /\ controllers[j] # None
           THEN [stream[j] EXCEPT ![controllers[j]] = after(@)] ELSE stream[j]]
     /\ controllers' = [j \in Jobs |-> IF j \in cut THEN None ELSE controllers[j]]
     /\ jobSource' = [j \in Jobs |-> IF j \in cut THEN None ELSE jobSource[j]]
     /\ panel' = [panel EXCEPT ![s] = "hidden"]
     /\ unsure' = IF cut = {} THEN unsure ELSE unsure \cup ItemsOf(s)

(* clearSourceRuntimeState: the bars of the rows that are shown go too.  The *)
(* bar of an item without a row stays, and its stream is gone.               *)
Clear(s) ==
  /\ Disconnect(s)
  /\ bar' = [i \in Items |-> IF SourceOf[i] = s /\ shown[i] # "absent" THEN "none" ELSE bar[i]]
  /\ missed' = missed \cup {i \in ItemsOf(s) : bar'[i] = "shown"}

(* The items of an answer are what is shown of the source; those that have   *)
(* changed meanwhile are outdated.                                           *)
SetItems(s, statuses) ==
  /\ shown' = [i \in Items |-> IF SourceOf[i] = s THEN statuses[i] ELSE shown[i]]
  /\ unsure' = {i \in unsure : SourceOf[i] # s} \cup {i \in ItemsOf(s) : statuses[i] # Row(i)}

SetActive(listed) ==
  active' = [s \in Sources |-> {j \in listed : jobs[j].source = s}]

-----------------------------------------------------------------------------
(* consumeJobStream. *)

SetStream(j, k, x) == stream' = [stream EXCEPT ![j][k] = x]

(* The finally clause. *)
Finally(j, k) ==
  /\ SetStream(j, k, NoStream)
  /\ controllers' = [controllers EXCEPT ![j] = None]
  /\ jobSource' = [jobSource EXCEPT ![j] = None]

StreamOpens(j, k) ==
  /\ stream[j][k].phase = "opening"
  /\ SetStream(j, k, [stream[j][k] EXCEPT !.phase = "reading"])
  /\ UNCHANGED <<serverVars, page, shown, active, mapVars, lastId, load, request, bar, panel,
                 unsure, missed, count>>

(* Mutant: a skipped item is not at its end. *)
TerminalUnskipped == {"item_completed", "item_failed", "item_paused", "item_deleted"}

(* TERMINAL_ITEM_EVENTS. *)
Terminal == {"item_completed", "item_failed", "item_paused", "item_skipped", "item_deleted"}

(* applyJobEvent.  A status changes a row that is there; the bar of a        *)
(* terminal event closes a moment later. *)
BarAfter(event, old) ==
  IF event.name = "item_progress" THEN "shown"
  ELSE IF event.name = "item_deleted" THEN "none"
  ELSE IF event.name \in Terminal /\ (old # "none" \/ event.name = "item_completed")
       THEN "closing"
  ELSE old

Apply(j, event) ==
  /\ shown' = IF event.item = None THEN shown
              ELSE [shown EXCEPT ![event.item] =
                      IF event.name = "item_deleted" THEN "absent"
                      ELSE IF event.status = None \/ @ = "absent" THEN @ ELSE event.status]
  /\ bar' = IF event.item = None THEN bar
            ELSE [bar EXCEPT ![event.item] = BarAfter(event, @)]
  /\ panel' = IF event.name = "sync_complete"
              THEN [panel EXCEPT ![jobs[j].source] =
                      IF jobs[j].kind = "sync" \/ @ # "hidden" THEN "closing" ELSE @]
              ELSE [s \in Sources |-> IF s \in CrawlOf(j) THEN "shown" ELSE panel[s]]

(* An event arrives, and those before it that did not are skipped. *)
StreamEvent(j, k) ==
  /\ stream[j][k].phase = "reading"
  /\ \E n \in (stream[j][k].at + 1)..Len(log[j]) :
       /\ SetStream(j, k, [stream[j][k] EXCEPT !.at = n])
       /\ lastId' = [lastId EXCEPT ![j] = n]
       /\ Apply(j, log[j][n])
       /\ missed' = missed \cup ({log[j][m].item : m \in (stream[j][k].at + 1)..(n - 1)} \ {None})
  /\ UNCHANGED <<serverVars, page, active, mapVars, load, request, unsure, count>>

(* Mutant: the page is not loaded again. *)
StreamEndsStale(j, k) ==
  /\ stream[j][k].phase = "reading" /\ jobs[j].over /\ stream[j][k].at = Len(log[j])
  /\ panel' = Closes(jobs[j].source)
  /\ Finally(j, k)
  /\ UNCHANGED <<serverVars, page, shown, active, lastId, load, request, bar, unsure, missed,
                 count>>

(* The stream ends, and the page is loaded again: refreshAfterStream. *)
StreamEnds(j, k) ==
  /\ stream[j][k].phase = "reading" /\ jobs[j].over /\ stream[j][k].at = Len(log[j])
  /\ SetStream(j, k, [stream[j][k] EXCEPT !.phase = "asksItems"])
  /\ UNCHANGED <<serverVars, page, shown, active, mapVars, lastId, load, request, bar, panel,
                 unsure, missed, count>>

(* The answers to the requests of the reload are read on the server ... *)
StreamAsks(j, k) ==
  /\ \/ /\ stream[j][k].phase = "asksItems" /\ jobs[j].source \notin dropped
        /\ SetStream(j, k, [stream[j][k] EXCEPT !.phase = "hasItems",
                                               !.statuses = Snapshot(jobs[j].source)])
     \/ /\ stream[j][k].phase = "asksJobs"
        /\ SetStream(j, k, [stream[j][k] EXCEPT !.phase = "hasJobs", !.listed = ActiveJobs])
  /\ UNCHANGED <<serverVars, page, shown, active, mapVars, lastId, load, request, bar, panel,
                 unsure, missed, count>>

(* ... and arrive: the items, *)
StreamShowsItems(j, k) ==
  /\ stream[j][k].phase = "hasItems"
  /\ SetItems(jobs[j].source, stream[j][k].statuses)
  /\ SetStream(j, k, [NoStream EXCEPT !.phase = "asksJobs", !.aborted = stream[j][k].aborted])
  /\ UNCHANGED <<serverVars, page, active, mapVars, lastId, load, request, bar, panel, missed,
                 count>>

(* and the active jobs, which nobody connects here. *)
StreamShowsJobs(j, k) ==
  /\ stream[j][k].phase = "hasJobs"
  /\ SetActive(stream[j][k].listed)
  /\ panel' = Closes(jobs[j].source)
  /\ Finally(j, k)
  /\ UNCHANGED <<serverVars, page, shown, lastId, load, request, bar, unsure, missed, count>>

(* Mutant: the catch clause leaves the panel open. *)
StreamFailsOpen(j, k) ==
  /\ stream[j][k].phase # "idle" /\ Breaks(jobs[j].source)
  /\ Finally(j, k)
  /\ UNCHANGED <<serverVars, page, shown, active, lastId, load, request, bar, panel, unsure,
                 missed>>

(* The connection breaks, or a request of the reload fails. *)
StreamFails(j, k) ==
  /\ stream[j][k].phase # "idle" /\ Breaks(jobs[j].source)
  /\ panel' = IF stream[j][k].aborted THEN panel ELSE Closes(jobs[j].source)
  /\ Finally(j, k)
  /\ unsure' = unsure \cup IF stream[j][k].phase \in {"asksJobs", "hasJobs"} THEN {}
                             ELSE ItemsOf(jobs[j].source)
  /\ missed' = missed \cup IF Reading(j, k) THEN ItemsOf(jobs[j].source) ELSE {}
  /\ UNCHANGED <<serverVars, page, shown, active, lastId, load, request, bar>>

-----------------------------------------------------------------------------
(* Loading the page. *)

SetLoad(l, x) == load' = [load EXCEPT ![l] = x]

Loading(l, s, whole) ==
  /\ Free(l)
  /\ SetLoad(l, [NoLoad EXCEPT !.phase = "asksItems", !.source = s, !.whole = whole])

LoadAsks(l) ==
  /\ \/ /\ load[l].phase = "asksItems" /\ load[l].source \notin dropped
        /\ SetLoad(l, [load[l] EXCEPT !.phase = "hasItems", !.statuses = Snapshot(load[l].source)])
     \/ /\ load[l].phase = "asksJobs"
        /\ SetLoad(l, [load[l] EXCEPT !.phase = "hasJobs", !.listed = ActiveJobs])
  /\ UNCHANGED <<serverVars, page, shown, active, stream, mapVars, lastId, request, bar, panel,
                 unsure, missed, count>>

LoadShowsItems(l) ==
  /\ load[l].phase = "hasItems"
  /\ SetItems(load[l].source, load[l].statuses)
  /\ SetLoad(l, IF load[l].whole
                THEN [NoLoad EXCEPT !.phase = "asksJobs", !.source = load[l].source, !.whole = TRUE]
                ELSE NoLoad)
  /\ UNCHANGED <<serverVars, page, active, stream, mapVars, lastId, request, bar, panel, missed,
                 count>>

(* loadActiveJobs, then connectActiveJobs, for the source shown by now. *)
LoadShowsJobs(l) ==
  /\ load[l].phase = "hasJobs"
  /\ SetActive(load[l].listed)
  /\ SetLoad(l, NoLoad)
  /\ Connect(IF page = None THEN {} ELSE active'[page])
  /\ UNCHANGED <<serverVars, page, shown, lastId, request, bar, unsure, missed, count>>

LoadFails(l) ==
  /\ ~ Free(l) /\ Breaks(load[l].source)
  /\ SetLoad(l, NoLoad)
  /\ unsure' = unsure \cup ItemsOf(load[l].source)
  /\ UNCHANGED <<serverVars, page, shown, active, stream, mapVars, lastId, request, bar, panel,
                 missed>>

(* The route changes to another source. *)
Visit(s) ==
  /\ page \notin {None, s} /\ Counts("visits", MaxVisits)
  /\ page' = s /\ Clear(page)
  /\ \E l \in Loads : Loading(l, s, TRUE)
  /\ UNCHANGED <<serverVars, shown, active, lastId, request>>

(* The view is unmounted.  Its hook reads the route, which may already be    *)
(* the next one: then nothing is cleared.                                    *)
Unmount ==
  /\ page # None
  /\ page' = None
  /\ Clear(page) \/ UNCHANGED <<stream, mapVars, panel, unsure, bar, missed>>
  /\ UNCHANGED <<serverVars, shown, active, lastId, load, request, count>>

-----------------------------------------------------------------------------
(* Requests leave the page ... *)

Asks(kind, items) ==
  /\ page # None /\ request.state = "free" /\ kind \in Kinds
  /\ Counts("requests", MaxRequests)
  /\ request' = [NoRequest EXCEPT !.kind = kind, !.state = "sent", !.source = page,
                                  !.items = items]

Rows(statuses) == {i \in Items : SourceOf[i] = page /\ shown[i] \in statuses}

(* indexItems and resumeItems show a bar for each item first. *)
AskStart ==
  /\ \/ \E items \in SUBSET Rows({"pending", "failed", "completed"}) :
           items # {} /\ Asks("index", items)
     \/ \E i \in Rows({"paused"}) : Asks("resume", {i})
  /\ bar' = [i \in Items |-> IF i \in request'.items THEN "shown" ELSE bar[i]]
  /\ missed' = missed \ request'.items
  /\ UNCHANGED <<serverVars, page, shown, active, stream, mapVars, lastId, load, panel, unsure>>

(* pauseItems shows the pause as requested before it asks for it. *)
AskPause ==
  /\ \E i \in Rows({"processing"}) :
       /\ Asks("pause", {i})
       /\ shown' = [shown EXCEPT ![i] = "pause_requested"]
       /\ unsure' = unsure \cup {i}
  /\ UNCHANGED <<serverVars, page, active, stream, mapVars, lastId, load, bar, panel, missed>>

(* deleteSource lets go of everything before it asks. *)
AskDrop ==
  /\ Asks("drop", {}) /\ Clear(page)
  /\ UNCHANGED <<serverVars, page, shown, active, lastId, load>>

(* A dialog may be confirmed after its row has changed. *)
AskOther ==
  /\ \/ page \in CrawlSources /\ Asks("sync", {})
     \/ /\ page \notin CrawlSources
        /\ \E i \in {x \in ItemsOf(page) : stored[x] = "absent"} : Asks("upload", {i})
     \/ \E i \in Rows(Status \ {"absent"}) : Asks("rename", {i}) \/ Asks("delete", {i})
  /\ UNCHANGED <<serverVars, page, shown, active, stream, mapVars, lastId, load, bar, panel,
                 unsure, missed>>

-----------------------------------------------------------------------------
(* ... are served ... *)

Found     == request.source \notin dropped
             /\ \A i \in request.items : stored[i] \notin NoRow
ActiveJob == {j \in ActiveJobs : jobs[j].source = request.source}

(* What the dependencies and checks of each endpoint let through. *)
Accepted ==
  CASE request.kind = "resume" -> Found /\ \A i \in request.items : stored[i] = "paused"
    [] request.kind = "delete" -> Found /\ \A i \in request.items : stored[i] \notin Busy
    [] request.kind = "drop"   -> Found /\ ActiveJob = {}
    [] request.kind = "upload" -> request.source \notin dropped
    [] OTHER                   -> Found

Serves(kinds) == request.state = "sent" /\ request.kind \in kinds /\ Accepted
Answers(statuses) ==
  request' = [request EXCEPT !.state = "served",
                             !.statuses = [i \in Items |-> IF i \in request.items
                                                           THEN statuses[i] ELSE @[i]]]

viewVars == <<page, shown, active, stream, mapVars, lastId, load, bar, panel, unsure, missed,
              count>>

(* The start of a job, or the job of the source that is active already. *)
ServeStart ==
  /\ Serves(Starts)
  /\ IF ActiveJob # {}
     THEN request' = [request EXCEPT !.state = "served", !.job = ActiveJob] /\ UNCHANGED jobs
     ELSE \E j \in Jobs :
            /\ jobs[j].kind = "none"
            /\ jobs' = [jobs EXCEPT ![j] = Started(request.kind, request.source, request.items)]
            /\ request' = [request EXCEPT !.state = "served", !.job = {j}, !.fresh = TRUE]
  /\ UNCHANGED <<stored, dropped, log, viewVars>>

(* request_pause_ingest answers with the statuses it has read. *)
ServePause ==
  /\ Serves({"pause"})
  /\ stored' = [i \in Items |-> IF i \in request.items /\ stored[i] = "processing"
                                THEN "pause_requested" ELSE stored[i]]
  /\ Answers(stored')
  /\ UNCHANGED <<dropped, jobs, log, viewVars>>

ServeUpload ==
  /\ Serves({"upload"})
  /\ stored' = [i \in Items |-> IF i \in request.items THEN "pending" ELSE stored[i]]
  /\ Answers(stored')
  /\ UNCHANGED <<dropped, jobs, log, viewVars>>

(* The answer is the whole row, its status included. *)
ServeRename ==
  /\ Serves({"rename"}) /\ Answers(stored)
  /\ UNCHANGED <<serverVars, viewVars>>

ServeDelete ==
  /\ Serves({"delete"})
  /\ stored' = [i \in Items |-> IF i \in request.items THEN "gone" ELSE stored[i]]
  /\ request' = [request EXCEPT !.state = "served"]
  /\ UNCHANGED <<dropped, jobs, log, viewVars>>

ServeDrop ==
  /\ Serves({"drop"})
  /\ stored' = [i \in Items |-> IF SourceOf[i] = request.source THEN "gone" ELSE stored[i]]
  /\ dropped' = dropped \cup {request.source}
  /\ request' = [request EXCEPT !.state = "served"]
  /\ UNCHANGED <<jobs, log, viewVars>>

Refuse ==
  /\ request.state = "sent" /\ ~ Accepted
  /\ request' = [request EXCEPT !.state = "refused"]
  /\ UNCHANGED <<serverVars, viewVars>>

-----------------------------------------------------------------------------
(* ... and answered. *)

Answered(kinds) ==
  /\ request.state = "served" /\ request.kind \in kinds
  /\ request' = NoRequest

(* Every item asked for is shown processing, whatever job it is that was     *)
(* answered.  A stream of the job that has read the items does not correct   *)
(* that, and a job that was there before does not close the bars.            *)
AnswerStart ==
  /\ Answered(Starts)
  /\ shown' = [i \in Items |-> IF i \in request.items /\ shown[i] # "absent"
                               THEN "processing" ELSE shown[i]]
  /\ active' = [active EXCEPT ![request.source] = @ \cup request.job]
  /\ Connect(request.job)
  /\ unsure' = unsure \cup
       {i \in request.items : \E j \in request.job : \E k \in Copies :
           controllers[j] = k /\ stream[j][k].phase \in {"asksJobs", "hasJobs"}}
  /\ missed' = missed \cup IF request.fresh THEN {} ELSE request.items
  /\ UNCHANGED <<serverVars, page, lastId, load, bar, count>>

(* patchSourceItemStatus of each item answered, where there is a row. *)
AnswerPause ==
  /\ Answered({"pause"})
  /\ shown' = [i \in Items |-> IF i \in request.items /\ shown[i] # "absent"
                               THEN request.statuses[i] ELSE shown[i]]
  /\ unsure' = (unsure \ request.items) \cup {i \in request.items : shown'[i] # Row(i)}
  /\ UNCHANGED <<serverVars, page, active, stream, mapVars, lastId, load, bar, panel, missed,
                 count>>

(* patchSourceItems: the rows answered replace or join those shown.  An      *)
(* upload reloads the page then, which may be another source's by now.       *)
AnswerRows ==
  /\ Answered({"upload", "rename"})
  /\ shown' = [i \in Items |-> IF i \in request.items THEN request.statuses[i] ELSE shown[i]]
  /\ unsure' = unsure \cup {i \in request.items : shown'[i] # Row(i)}
  /\ IF request.kind = "upload" /\ page # None THEN \E l \in Loads : Loading(l, page, FALSE)
     ELSE UNCHANGED load
  /\ UNCHANGED <<serverVars, page, active, stream, mapVars, lastId, bar, panel, missed, count>>

AnswerDelete ==
  /\ Answered({"delete"})
  /\ shown' = [i \in Items |-> IF i \in request.items THEN "absent" ELSE shown[i]]
  /\ bar' = [i \in Items |-> IF i \in request.items THEN "none" ELSE bar[i]]
  /\ UNCHANGED <<serverVars, page, active, stream, mapVars, lastId, load, panel, unsure, missed,
                 count>>

AnswerDrop ==
  /\ Answered({"drop"})
  /\ shown' = [i \in Items |-> IF SourceOf[i] = request.source THEN "absent" ELSE shown[i]]
  /\ active' = [active EXCEPT ![request.source] = {}]
  /\ UNCHANGED <<serverVars, page, stream, mapVars, lastId, load, bar, panel, unsure, missed,
                 count>>

(* The request is refused, or its answer is lost: the store shows the error  *)
(* and what was shown in advance stays.                                      *)
RequestFails ==
  /\ \/ request.state = "refused" /\ UNCHANGED count
     \/ request.state \in {"sent", "served"} /\ Counts("failures", MaxFailures)
  /\ request' = NoRequest
  /\ unsure' = unsure \cup ItemsOf(request.source)
  /\ missed' = missed \cup ItemsOf(request.source)
  /\ UNCHANGED <<serverVars, page, shown, active, stream, mapVars, lastId, load, bar, panel>>

-----------------------------------------------------------------------------
(* Timers. *)

BarCloses(i) ==
  /\ bar[i] = "closing" /\ bar' = [bar EXCEPT ![i] = "none"]
  /\ UNCHANGED <<serverVars, page, shown, active, stream, mapVars, lastId, load, request, panel,
                 unsure, missed, count>>

PanelCloses(s) ==
  /\ panel[s] = "closing" /\ panel' = [panel EXCEPT ![s] = "hidden"]
  /\ UNCHANGED <<serverVars, page, shown, active, stream, mapVars, lastId, load, request, bar,
                 unsure, missed, count>>

-----------------------------------------------------------------------------
ServerNext ==
  \/ \E j \in Jobs : EndsJob(j) \/ \E i \in Items : IndexesItem(j, i) \/ CrawlsItem(j, i)
  \/ ServeStart \/ ServePause \/ ServeUpload \/ ServeRename \/ ServeDelete \/ ServeDrop \/ Refuse

StreamNext(j, k) ==
  \/ StreamOpens(j, k) \/ StreamEvent(j, k) \/ StreamEnds(j, k) \/ StreamAsks(j, k)
  \/ StreamShowsItems(j, k) \/ StreamShowsJobs(j, k) \/ StreamFails(j, k)

LoadNext(l) == LoadAsks(l) \/ LoadShowsItems(l) \/ LoadShowsJobs(l) \/ LoadFails(l)

PageNext ==
  \/ AskStart \/ AskPause \/ AskDrop \/ AskOther
  \/ AnswerStart \/ AnswerPause \/ AnswerRows \/ AnswerDelete \/ AnswerDrop \/ RequestFails
  \/ (\E s \in Sources : Visit(s) \/ PanelCloses(s)) \/ Unmount
  \/ \E i \in Items : BarCloses(i)

Next ==
  \/ ServerNext \/ PageNext
  \/ \E j \in Jobs, k \in Copies : StreamNext(j, k)
  \/ \E l \in Loads : LoadNext(l)

Spec == Init /\ [][Next]_vars

-----------------------------------------------------------------------------
Live(j, k) == stream[j][k].phase # "idle" /\ ~ stream[j][k].aborted

(* The stream of a running job is the one its controller aborts, under the   *)
(* source it belongs to: so it is the only one, and leaving the page ends    *)
(* it.  The finally clause of a stream deletes the entries of its job        *)
(* whoever wrote them, useSourceItemsRuntime.ts:339-342.                     *)
StreamsReachable ==
  \A j \in ActiveJobs, k \in Copies :
    Reading(j, k) => controllers[j] = k /\ jobSource[j] = jobs[j].source

(* The sync panel stays open only as long as a stream of a crawl of its      *)
(* source is there to close it: however the streams end, the panel is        *)
(* closed or being closed after them, :300-342, :431-468.                  *)
PanelSettles ==
  \A s \in Sources : panel[s] = "shown" =>
    \E j \in Jobs, k \in Copies : Live(j, k) /\ jobs[j].kind = "sync" /\ jobs[j].source = s

(* Nothing is under way: no call, no stream, no job. *)
Quiet ==
  /\ ActiveJobs = {} /\ request = NoRequest /\ \A l \in Loads : Free(l)
  /\ \A j \in Jobs, k \in Copies : stream[j][k].phase = "idle"

Current(i) == page # None /\ SourceOf[i] = page /\ page \notin dropped

(* Once nothing is under way the page shows what is stored, in whatever      *)
(* order events and answers came: but for the items that changed with nobody *)
(* following, or that an answer showed last which was out of date by then.   *)
RowsSettle == Quiet => \A i \in Items : Current(i) => i \in unsure \/ shown[i] = Row(i)

(* ... and no row has a progress bar left, but for the items whose job never *)
(* told of them, whose events were lost, or that had no row when the page    *)
(* was left.                                                                 *)
BarsSettle ==
  Quiet => \A i \in Items :
    Current(i) /\ bar[i] = "shown" /\ shown[i] # "absent" => i \in missed
=============================================================================
