------------------------------- MODULE RAGJobs -------------------------------
(***************************************************************************)
(* The in-process RAG job manager of the backend and the streams that      *)
(* observe its jobs: services/jobs/rag_job_manager.py, the SSE endpoint    *)
(* api/admin/endpoints/source_sse.py and the part of the console runtime   *)
(* (useSourceItemsRuntime.ts) that reconnects with Last-Event-ID.          *)
(*                                                                         *)
(* Everything runs on one asyncio event loop, so an action is the code     *)
(* between two suspension points.  No holder of the manager's lock ever    *)
(* awaits, so taking the lock never suspends: start_job, _emit, the end of *)
(* _run_job (status, _clear_active_group, _notify_job_finished) and the    *)
(* registration in subscribe are one step each.                            *)
(*                                                                         *)
(* An event is its sequence number.  The bounded deque job.events always   *)
(* holds the newest numbers, so it is kept as the number of its oldest     *)
(* entry: job j caches oldest[j] .. nextSeq[j] - 1.                        *)
(***************************************************************************)
EXTENDS Naturals, Sequences, FiniteSets

CONSTANTS
  Jobs,       \* job uids the manager may hand out (uuid4: never reused)
  Groups,     \* active_group keys, one per source
  Clients,    \* console tabs, each following at most one job at a time
  NoJob,      \* None in _active_by_group
  NoGroup,    \* active_group = None
  QueueCap,   \* asyncio.Queue(maxsize=100) of a subscriber
  CacheCap,   \* deque(maxlen=500) of a job
  MaxEvents   \* bound: events a runner yields, the SYNC_FAILED event aside

ASSUME RAGJobsAssumption ==
  /\ NoJob \notin Jobs
  /\ NoGroup \notin Groups
  /\ QueueCap \in Nat /\ QueueCap >= 2
  /\ CacheCap \in Nat \ {0}
  /\ MaxEvents \in Nat

VARIABLES
  mgr,          \* "up", "stopping" (inside shutdown), "stopped"
  status,       \* job.status, "none" for a job not created yet
  group,        \* job.active_group
  activeOf,     \* _active_by_group
  task,         \* job.task: "none", "ready" (no step taken yet), "running", "done"
  cancelled,    \* jobs whose task shutdown has cancelled
  nextSeq,      \* job.next_event_sequence
  oldest,       \* sequence of the oldest event job.events still holds
  subscribers,  \* job.subscribers, a queue being named by its client
  open,         \* has the client a subscribe() generator running?
  watching,     \* the job of that generator
  backlog,      \* cached_events not yielded yet
  isFinished,   \* is_finished, read once when subscribing
  queue,        \* the subscriber's asyncio.Queue
  lastId,       \* the client's lastEventIdByJobUid
  ended         \* jobs whose stream the client saw end

managerVars == <<mgr, status, group, activeOf, task, cancelled, nextSeq, oldest>>
streamVars  == <<open, watching, backlog, isFinished>>
clientVars  == <<lastId, ended>>
vars == <<mgr, status, group, activeOf, task, cancelled, nextSeq, oldest,
          subscribers, open, watching, backlog, isFinished, queue, lastId, ended>>

ActiveStatus   == {"QUEUED", "RUNNING"}
FinishedStatus == {"COMPLETED", "FAILED", "CANCELLED"}
Active(j)   == status[j] \in ActiveStatus
Finished(j) == status[j] \in FinishedStatus

(* None in a subscriber's queue.  Event numbers start at 1. *)
FinishSignal == 0

TypeOK ==
  /\ mgr \in {"up", "stopping", "stopped"}
  /\ status \in [Jobs -> {"none"} \cup ActiveStatus \cup FinishedStatus]
  /\ group \in [Jobs -> Groups \cup {NoGroup}]
  /\ activeOf \in [Groups -> Jobs \cup {NoJob}]
  /\ task \in [Jobs -> {"none", "ready", "running", "done"}]
  /\ cancelled \in SUBSET Jobs
  /\ nextSeq \in [Jobs -> Nat \ {0}]
  /\ oldest \in [Jobs -> Nat \ {0}]
  /\ subscribers \in [Jobs -> SUBSET Clients]
  /\ open \in [Clients -> BOOLEAN]
  /\ watching \in [Clients -> Jobs \cup {NoJob}]
  /\ backlog \in [Clients -> Seq(Nat)]
  /\ isFinished \in [Clients -> BOOLEAN]
  /\ queue \in [Clients -> Seq(Nat)]
  /\ lastId \in [Clients -> [Jobs -> Nat]]
  /\ ended \in [Clients -> SUBSET Jobs]
  \* neither the queue of a subscriber nor the cache of a job outgrows its limit
  /\ \A c \in Clients : Len(queue[c]) <= QueueCap
  /\ \A j \in Jobs : oldest[j] <= nextSeq[j] /\ nextSeq[j] - oldest[j] <= CacheCap

Init ==
  /\ mgr = "up"
  /\ status = [j \in Jobs |-> "none"]
  /\ group = [j \in Jobs |-> NoGroup]
  /\ activeOf = [g \in Groups |-> NoJob]
  /\ task = [j \in Jobs |-> "none"]
  /\ cancelled = {}
  /\ nextSeq = [j \in Jobs |-> 1]
  /\ oldest = [j \in Jobs |-> 1]
  /\ subscribers = [j \in Jobs |-> {}]
  /\ open = [c \in Clients |-> FALSE]
  /\ watching = [c \in Clients |-> NoJob]
  /\ backlog = [c \in Clients |-> << >>]
  /\ isFinished = [c \in Clients |-> FALSE]
  /\ queue = [c \in Clients |-> << >>]
  /\ lastId = [c \in Clients |-> [j \in Jobs |-> 0]]
  /\ ended = [c \in Clients |-> {}]

-----------------------------------------------------------------------------
(* start_job.  Requests are served while the application is up. *)

(* Mutant: a queued job is not taken as active. *)
GroupRunning(g) ==
  /\ g # NoGroup
  /\ activeOf[g] # NoJob
  /\ status[activeOf[g]] = "RUNNING"

GroupBusy(g) ==
  /\ g # NoGroup
  /\ activeOf[g] # NoJob
  /\ Active(activeOf[g])

CreateJob(j, g) ==
  /\ status[j] = "none"
  /\ status' = [status EXCEPT ![j] = "QUEUED"]
  /\ group' = [group EXCEPT ![j] = g]
  /\ activeOf' = [h \in Groups |-> IF h = g THEN j ELSE activeOf[h]]
  /\ task' = [task EXCEPT ![j] = "ready"]
  /\ UNCHANGED <<mgr, cancelled, nextSeq, oldest, subscribers, queue>>
  /\ UNCHANGED <<streamVars, clientVars>>

(* The caller is handed the active job of the group, and nothing changes. *)
ReuseJob(g) ==
  /\ mgr = "up"
  /\ GroupBusy(g)
  /\ UNCHANGED vars

StartJob(j, g) ==
  /\ mgr = "up"
  /\ ~ GroupBusy(g)
  /\ CreateJob(j, g)

-----------------------------------------------------------------------------
(* _run_job: the job's task.  A cancelled task raises CancelledError at its *)
(* next step instead of going on.                                           *)

TaskStarts(j) ==
  /\ task[j] = "ready" /\ j \notin cancelled
  /\ task' = [task EXCEPT ![j] = "running"]
  /\ status' = [status EXCEPT ![j] = "RUNNING"]
  /\ UNCHANGED <<mgr, group, activeOf, cancelled, nextSeq, oldest, subscribers, queue>>
  /\ UNCHANGED <<streamVars, clientVars>>

(* Cancelled before its first step, the coroutine is closed without running  *)
(* a line of its body: neither the except nor the finally clause runs, and   *)
(* the job keeps status QUEUED.                                              *)
TaskNeverStarts(j) ==
  /\ task[j] = "ready" /\ j \in cancelled
  /\ task' = [task EXCEPT ![j] = "done"]
  /\ UNCHANGED <<mgr, status, group, activeOf, cancelled, nextSeq, oldest, subscribers, queue>>
  /\ UNCHANGED <<streamVars, clientVars>>

(* _emit's part on the job: the deque drops its oldest entry when full. *)
Record(j) ==
  /\ nextSeq' = [nextSeq EXCEPT ![j] = @ + 1]
  /\ oldest' = [oldest EXCEPT ![j] = IF nextSeq[j] - @ = CacheCap THEN @ + 1 ELSE @]

Full(c) == Len(queue[c]) = QueueCap

(* _emit's part on one subscriber's queue: put_nowait, nothing when full. *)
Offered(j, c) ==
  IF c \in subscribers[j] /\ ~ Full(c) THEN Append(queue[c], nextSeq[j]) ELSE queue[c]

(* Mutant: a subscriber that missed an event stays registered. *)
AllKept(j) == subscribers[j]

(* _emit: a subscriber whose queue is full is discarded without a word. *)
Kept(j) == {c \in subscribers[j] : ~ Full(c)}

(* async for event in runner(job): _emit *)
RunnerYields(j) ==
  /\ task[j] = "running" /\ j \notin cancelled
  /\ nextSeq[j] <= MaxEvents
  /\ Record(j)
  /\ queue' = [c \in Clients |-> Offered(j, c)]
  /\ subscribers' = [subscribers EXCEPT ![j] = Kept(j)]
  /\ UNCHANGED <<mgr, status, group, activeOf, task, cancelled>>
  /\ UNCHANGED <<streamVars, clientVars>>

(* Mutant: a full queue goes without the signal. *)
NotSignalledWhenFull(q) == IF Len(q) = QueueCap THEN q ELSE Append(q, FinishSignal)

(* _put_finish_signal: a full queue gives up its oldest entry for the signal. *)
Signalled(q) ==
  Append(IF Len(q) = QueueCap THEN Tail(q) ELSE q, FinishSignal)

(* Mutant: the mapping is left to the next start_job. *)
NeverCleared(j) == activeOf

(* _clear_active_group: only a mapping that still points at this job. *)
Cleared(j) ==
  [g \in Groups |-> IF g = group[j] /\ activeOf[g] = j THEN NoJob ELSE activeOf[g]]

(* The finally clause, without an event of its own: _clear_active_group and *)
(* _notify_job_finished.                                                    *)
Finish(j, st) ==
  /\ task' = [task EXCEPT ![j] = "done"]
  /\ status' = [status EXCEPT ![j] = st]
  /\ activeOf' = Cleared(j)
  /\ queue' = [c \in Clients |->
                 IF c \in subscribers[j] THEN Signalled(queue[c]) ELSE queue[c]]
  /\ UNCHANGED <<mgr, group, cancelled, nextSeq, oldest, subscribers>>
  /\ UNCHANGED <<streamVars, clientVars>>

RunnerReturns(j) ==
  /\ task[j] = "running" /\ j \notin cancelled
  /\ Finish(j, "COMPLETED")

(* Mutant: except CancelledError re-raises without a final status. *)
RunnerCancelledSilently(j) ==
  /\ task[j] = "running" /\ j \in cancelled
  /\ Finish(j, "RUNNING")

RunnerCancelled(j) ==
  /\ task[j] = "running" /\ j \in cancelled
  /\ Finish(j, "CANCELLED")

(* except Exception: SYNC_FAILED is emitted like any event, which may drop  *)
(* subscribers, then the finally clause signals those that are left.        *)
RunnerRaises(j) ==
  /\ task[j] = "running" /\ j \notin cancelled
  /\ task' = [task EXCEPT ![j] = "done"]
  /\ status' = [status EXCEPT ![j] = "FAILED"]
  /\ Record(j)
  /\ activeOf' = Cleared(j)
  /\ queue' = [c \in Clients |->
                 IF c \in Kept(j) THEN Signalled(Offered(j, c)) ELSE queue[c]]
  /\ subscribers' = [subscribers EXCEPT ![j] = Kept(j)]
  /\ UNCHANGED <<mgr, group, cancelled>>
  /\ UNCHANGED <<streamVars, clientVars>>

TaskStep(j) ==
  \/ TaskStarts(j)   \/ TaskNeverStarts(j) \/ RunnerYields(j)
  \/ RunnerReturns(j) \/ RunnerRaises(j)   \/ RunnerCancelled(j)

-----------------------------------------------------------------------------
(* shutdown: the snapshot and the cancel calls are one step, then gather. *)

(* Mutant: a job that is still queued is not cancelled. *)
ShutdownRunning ==
  /\ mgr = "up"
  /\ mgr' = "stopping"
  /\ cancelled' = {j \in Jobs : status[j] = "RUNNING"}
  /\ UNCHANGED <<status, group, activeOf, task, nextSeq, oldest, subscribers, queue>>
  /\ UNCHANGED <<streamVars, clientVars>>

Shutdown ==
  /\ mgr = "up"
  /\ mgr' = "stopping"
  /\ cancelled' = {j \in Jobs : Active(j) /\ task[j] # "done"}
  /\ UNCHANGED <<status, group, activeOf, task, nextSeq, oldest, subscribers, queue>>
  /\ UNCHANGED <<streamVars, clientVars>>

ShutdownReturns ==
  /\ mgr = "stopping"
  /\ \A j \in cancelled : task[j] = "done"
  /\ mgr' = "stopped"
  /\ UNCHANGED <<status, group, activeOf, task, cancelled, nextSeq, oldest, subscribers, queue>>
  /\ UNCHANGED <<streamVars, clientVars>>

-----------------------------------------------------------------------------
(* subscribe, as one client drives it through the SSE endpoint. *)

(* The numbers lo .. hi as a sequence. *)
Interval(lo, hi) == [i \in 1 .. (IF lo <= hi THEN hi - lo + 1 ELSE 0) |-> lo + i - 1]

(* Mutant: the cache is replayed from Last-Event-ID itself. *)
CachedFrom(j, after) ==
  Interval(IF oldest[j] > after THEN oldest[j] ELSE after, nextSeq[j] - 1)

(* Cached events with stored.sequence > after_sequence. *)
CachedAfter(j, after) ==
  Interval(IF oldest[j] > after THEN oldest[j] ELSE after + 1, nextSeq[j] - 1)

(* The queue is registered and the cache copied under one lock.  The client  *)
(* passes the last id it received for the job as Last-Event-ID, if any.      *)
Subscribe(c, j) ==
  /\ ~ open[c]
  /\ status[j] # "none"
  /\ subscribers' = [subscribers EXCEPT ![j] = @ \cup {c}]
  /\ queue' = [queue EXCEPT ![c] = << >>]
  /\ backlog' = [backlog EXCEPT ![c] = CachedAfter(j, lastId[c][j])]
  /\ isFinished' = [isFinished EXCEPT ![c] = Finished(j)]
  /\ open' = [open EXCEPT ![c] = TRUE]
  /\ watching' = [watching EXCEPT ![c] = j]
  /\ UNCHANGED <<managerVars, clientVars>>

(* What yielding event n does: the client remembers its id. *)
Deliver(c, n) == lastId' = [lastId EXCEPT ![c][watching[c]] = n]

(* The finally clause of subscribe; the generator and its queue are gone. *)
CloseStream(c) ==
  /\ open' = [open EXCEPT ![c] = FALSE]
  /\ watching' = [watching EXCEPT ![c] = NoJob]
  /\ backlog' = [backlog EXCEPT ![c] = << >>]
  /\ isFinished' = [isFinished EXCEPT ![c] = FALSE]
  /\ queue' = [queue EXCEPT ![c] = << >>]
  /\ subscribers' = [subscribers EXCEPT ![watching[c]] = @ \ {c}]

EndStream(c) ==
  /\ CloseStream(c)
  /\ ended' = [ended EXCEPT ![c] = @ \cup {watching[c]}]
  /\ UNCHANGED <<managerVars, lastId>>

YieldCached(c) ==
  /\ open[c] /\ backlog[c] # << >>
  /\ Deliver(c, Head(backlog[c]))
  /\ backlog' = [backlog EXCEPT ![c] = Tail(@)]
  /\ UNCHANGED <<managerVars, subscribers, open, watching, isFinished, queue, ended>>

(* Mutant: the stream ends behind the cache even while the job runs. *)
ReturnAfterAnyCache(c) ==
  /\ open[c] /\ backlog[c] = << >>
  /\ EndStream(c)

ReturnAfterCache(c) ==
  /\ open[c] /\ backlog[c] = << >> /\ isFinished[c]
  /\ EndStream(c)

(* The generator waits in queue.get(). *)
Listening(c) ==
  /\ open[c] /\ backlog[c] = << >> /\ ~ isFinished[c]
  /\ queue[c] # << >>

YieldQueued(c) ==
  /\ Listening(c) /\ Head(queue[c]) # FinishSignal
  /\ Deliver(c, Head(queue[c]))
  /\ queue' = [queue EXCEPT ![c] = Tail(@)]
  /\ UNCHANGED <<managerVars, subscribers, streamVars, ended>>

ReturnOnSignal(c) ==
  /\ Listening(c) /\ Head(queue[c]) = FinishSignal
  /\ EndStream(c)

StreamStep(c) ==
  \/ YieldCached(c) \/ ReturnAfterCache(c) \/ YieldQueued(c) \/ ReturnOnSignal(c)

(* The tab aborts the stream or the connection breaks; the id it received   *)
(* last stays in lastEventIdByJobUid for the next connection.               *)
Disconnect(c) ==
  /\ open[c]
  /\ CloseStream(c)
  /\ UNCHANGED <<managerVars, clientVars>>

(* A page reload loses lastEventIdByJobUid. *)
Reload(c) ==
  /\ ~ open[c]
  /\ lastId' = [lastId EXCEPT ![c] = [j \in Jobs |-> 0]]
  /\ ended' = [ended EXCEPT ![c] = {}]
  /\ UNCHANGED <<managerVars, subscribers, streamVars, queue>>

-----------------------------------------------------------------------------

Next ==
  \/ \E j \in Jobs, g \in Groups \cup {NoGroup} : StartJob(j, g)
  \/ \E g \in Groups : ReuseJob(g)
  \/ \E j \in Jobs : TaskStep(j)
  \/ Shutdown
  \/ ShutdownReturns
  \/ \E c \in Clients, j \in Jobs : Subscribe(c, j)
  \/ \E c \in Clients : StreamStep(c) \/ Disconnect(c) \/ Reload(c)

Spec == Init /\ [][Next]_vars

(* The event loop resumes every task that can go on, and a runner's events   *)
(* are finitely many; a connected client keeps reading.  Nothing is assumed  *)
(* of requests, reconnections, reloads and the shutdown itself.              *)
FairSpec ==
  /\ Spec
  /\ \A j \in Jobs : WF_vars(TaskStep(j))
  /\ \A c \in Clients : WF_vars(StreamStep(c))
  /\ WF_vars(ShutdownReturns)

-----------------------------------------------------------------------------
(* Properties of the manager. *)

(* start_job hands out at most one queued or running job per group: the     *)
(* crawl, index and resume jobs of one source never run side by side.       *)
OneActiveJobPerGroup ==
  \A j, k \in Jobs :
    (Active(j) /\ Active(k) /\ group[j] = group[k] /\ group[j] # NoGroup) => j = k

(* _active_by_group names exactly the active job of each group: no finished  *)
(* job blocks its source, and no active job can be missed by the lookup of   *)
(* start_job and of _ensure_no_active_source_rag_job.                        *)
GroupMapExact ==
  \A g \in Groups, j \in Jobs :
    activeOf[g] = j <=> (Active(j) /\ group[j] = g)

(* When shutdown returns no task of the manager is left running, and every   *)
(* job whose task had taken a step has a final status.                       *)
ShutdownLeavesNoTask ==
  mgr = "stopped" =>
    \A j \in Jobs : /\ task[j] \in {"none", "done"}
                    /\ status[j] # "RUNNING"

-----------------------------------------------------------------------------
(* Properties of the streams. *)

(* A queue without the finish signal, which only ever comes last. *)
Numbers(q) ==
  IF q # << >> /\ q[Len(q)] = FinishSignal THEN SubSeq(q, 1, Len(q) - 1) ELSE q

(* The last event the client has, then what the stream still holds for it,   *)
(* in the order it will be yielded.                                          *)
Feed(c) == <<lastId[c][watching[c]]>> \o backlog[c] \o Numbers(queue[c])

(* The events of an open stream come in strictly increasing order and after  *)
(* the last one the client received, however cache, queue and reconnection   *)
(* interleave with the job: the handover from cached_events to the queue     *)
(* repeats nothing and swaps nothing.                                        *)
StreamInOrder ==
  \A c \in Clients : open[c] =>
    \A i \in 1 .. Len(Feed(c)) - 1 : Feed(c)[i] < Feed(c)[i + 1]

(* Events the client neither has nor will be given by its stream. *)
Missing(c, j) == (nextSeq[j] - 1 - lastId[c][j]) - (Len(Feed(c)) - 1)

(* A stream that is still registered leads to the newest event, and misses   *)
(* only what the cache had dropped before it subscribed and the one entry    *)
(* the finish signal may push out of a full queue.                           *)
RegisteredStreamComplete ==
  \A j \in Jobs : \A c \in subscribers[j] :
    LET truncated == IF oldest[j] > lastId[c][j] + 1 THEN oldest[j] - (lastId[c][j] + 1) ELSE 0
        evicted   == IF Finished(j) /\ ~ isFinished[c] THEN 1 ELSE 0
    IN  /\ Feed(c)[Len(Feed(c))] = nextSeq[j] - 1
        /\ Missing(c, j) <= truncated + evicted

(* A stream that ended by itself has delivered the job's last event, so a    *)
(* console that refreshes when the stream ends (refreshAfterStream) has seen *)
(* the job's SYNC_COMPLETE or SYNC_FAILED.                                   *)
EndedStreamSawLastEvent ==
  \A c \in Clients : \A j \in ended[c] :
    Finished(j) /\ lastId[c][j] = nextSeq[j] - 1

(* The streams keep the promise of the observation interface: see JobFeed. *)
Promise == INSTANCE JobFeed WITH
  Readers <- Clients, Nobody <- NoJob,
  length <- [j \in Jobs |-> nextSeq[j] - 1],
  closed <- [j \in Jobs |-> Finished(j)],
  reading <- watching, seen <- lastId, complete <- ended

KeepsPromise == Promise!Spec

(* Every task the event loop runs comes to an end, and the job with it. *)
JobSettles ==
  \A j \in Jobs : (status[j] = "RUNNING") ~> Finished(j)

(* A registered subscriber of a finished job sees its stream end. *)
RegisteredStreamEnds ==
  \A c \in Clients, j \in Jobs :
    (c \in subscribers[j] /\ Finished(j)) ~> (c \notin subscribers[j])

(* The docstring of _put_finish_signal: the end of the job should reach slow *)
(* clients too.  A subscriber dropped by _emit is not among them.            *)
EveryStreamEnds ==
  \A c \in Clients, j \in Jobs :
    (open[c] /\ watching[c] = j /\ Finished(j)) ~> ~ (open[c] /\ watching[c] = j)
=============================================================================
