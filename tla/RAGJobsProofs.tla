---------------------------- MODULE RAGJobsProofs ----------------------------
(***************************************************************************)
(* Proofs about the job manager of RAGJobs, for any number of jobs, groups *)
(* and clients and any capacities.                                         *)
(***************************************************************************)
EXTENDS RAGJobs, SequenceTheorems, TLAPS

USE RAGJobsAssumption

-----------------------------------------------------------------------------
(* Type correctness.  That a stream that ends is put into ended needs that  *)
(* an open stream has a job.                                                *)

OpenStreamHasJob ==
  \A c \in Clients : IF open[c] THEN watching[c] \in Jobs ELSE watching[c] = NoJob

TypeInv == TypeOK /\ OpenStreamHasJob

(* The numbers of an interval are naturals. *)
LEMMA IntervalType ==
  ASSUME NEW lo \in Nat \ {0}, NEW hi \in Nat
  PROVE  Interval(lo, hi) \in Seq(Nat)
<1> DEFINE n == IF lo <= hi THEN hi - lo + 1 ELSE 0
<1>1. n \in Nat
  OBVIOUS
<1>2. Interval(lo, hi) = [i \in 1 .. n |-> lo + i - 1]
  BY DEF Interval
<1>3. \A i \in 1 .. n : lo + i - 1 \in Nat
  BY <1>1
<1> QED
  BY <1>1, <1>2, <1>3

(* The job side of an event: the cache keeps its bound. *)
LEMMA RecordType ==
  ASSUME TypeOK, NEW j \in Jobs, Record(j)
  PROVE  /\ nextSeq' \in [Jobs -> Nat \ {0}]
         /\ oldest' \in [Jobs -> Nat \ {0}]
         /\ \A k \in Jobs : oldest'[k] <= nextSeq'[k] /\ nextSeq'[k] - oldest'[k] <= CacheCap
  BY DEF TypeOK, Record

(* The queue side of an event: the queue keeps its bound. *)
LEMMA OfferedType ==
  ASSUME TypeOK, NEW j \in Jobs, NEW c \in Clients
  PROVE  /\ Offered(j, c) \in Seq(Nat)
         /\ Len(Offered(j, c)) <= QueueCap
<1>1. queue[c] \in Seq(Nat) /\ Len(queue[c]) <= QueueCap /\ nextSeq[j] \in Nat
  BY DEF TypeOK
<1> QED
  BY <1>1 DEF Offered, Full

(* The finish signal finds room in any queue within its bound. *)
LEMMA SignalledType ==
  ASSUME NEW q \in Seq(Nat), Len(q) <= QueueCap
  PROVE  /\ Signalled(q) \in Seq(Nat)
         /\ Len(Signalled(q)) <= QueueCap
<1>1. CASE Len(q) = QueueCap
  <2>1. q # << >>
    BY <1>1
  <2>2. Tail(q) \in Seq(Nat) /\ Len(Tail(q)) = QueueCap - 1
    BY <1>1, <2>1
  <2> QED
    BY <1>1, <2>2 DEF Signalled, FinishSignal
<1>2. CASE Len(q) # QueueCap
  BY <1>2 DEF Signalled, FinishSignal
<1> QED
  BY <1>1, <1>2

LEMMA TypeInit == Init => TypeInv
  BY DEF Init, TypeInv, TypeOK, OpenStreamHasJob

LEMMA TypeNext == TypeInv /\ [Next]_vars => TypeInv'
<1> SUFFICES ASSUME TypeInv, [Next]_vars
             PROVE  TypeInv'
  OBVIOUS
<1> USE DEF TypeInv, OpenStreamHasJob
<1>1. ASSUME NEW j \in Jobs, NEW g \in Groups \cup {NoGroup}, StartJob(j, g)
      PROVE  TypeInv'
  BY <1>1 DEF StartJob, CreateJob, TypeOK, ActiveStatus, FinishedStatus, streamVars, clientVars
<1>2. ASSUME NEW g \in Groups, ReuseJob(g)
      PROVE  TypeInv'
  BY <1>2 DEF ReuseJob, vars, TypeOK
<1>3. ASSUME NEW j \in Jobs, TaskStarts(j)
      PROVE  TypeInv'
  BY <1>3 DEF TaskStarts, TypeOK, ActiveStatus, FinishedStatus, streamVars, clientVars
<1>4. ASSUME NEW j \in Jobs, TaskNeverStarts(j)
      PROVE  TypeInv'
  BY <1>4 DEF TaskNeverStarts, TypeOK, streamVars, clientVars
<1>5. ASSUME NEW j \in Jobs, RunnerYields(j)
      PROVE  TypeInv'
  <2>1. queue' \in [Clients -> Seq(Nat)] /\ \A c \in Clients : Len(queue'[c]) <= QueueCap
    BY <1>5, OfferedType DEF RunnerYields
  <2>2. subscribers' \in [Jobs -> SUBSET Clients]
    BY <1>5 DEF RunnerYields, Kept, TypeOK
  <2>3. Record(j)
    BY <1>5 DEF RunnerYields
  <2> QED
    BY <1>5, <2>1, <2>2, <2>3, RecordType DEF RunnerYields, TypeOK, streamVars, clientVars
<1>6. ASSUME NEW j \in Jobs, NEW st \in FinishedStatus, Finish(j, st)
      PROVE  TypeInv'
  <2>1. queue' \in [Clients -> Seq(Nat)] /\ \A c \in Clients : Len(queue'[c]) <= QueueCap
    <3>1. \A c \in Clients : queue[c] \in Seq(Nat) /\ Len(queue[c]) <= QueueCap
      BY DEF TypeOK
    <3> QED
      BY <1>6, <3>1, SignalledType DEF Finish
  <2>2. activeOf' \in [Groups -> Jobs \cup {NoJob}]
    BY <1>6 DEF Finish, Cleared, TypeOK
  <2> QED
    BY <1>6, <2>1, <2>2 DEF Finish, TypeOK, streamVars, clientVars
<1>7. ASSUME NEW j \in Jobs, RunnerRaises(j)
      PROVE  TypeInv'
  <2>1. queue' \in [Clients -> Seq(Nat)] /\ \A c \in Clients : Len(queue'[c]) <= QueueCap
    <3>1. \A c \in Clients : queue[c] \in Seq(Nat) /\ Len(queue[c]) <= QueueCap
      BY DEF TypeOK
    <3>2. \A c \in Clients : /\ Signalled(Offered(j, c)) \in Seq(Nat)
                             /\ Len(Signalled(Offered(j, c))) <= QueueCap
      BY OfferedType, SignalledType
    <3> QED
      BY <1>7, <3>1, <3>2 DEF RunnerRaises
  <2>2. activeOf' \in [Groups -> Jobs \cup {NoJob}]
    BY <1>7 DEF RunnerRaises, Cleared, TypeOK
  <2>3. subscribers' \in [Jobs -> SUBSET Clients]
    BY <1>7 DEF RunnerRaises, Kept, TypeOK
  <2>4. Record(j)
    BY <1>7 DEF RunnerRaises
  <2> QED
    BY <1>7, <2>1, <2>2, <2>3, <2>4, RecordType
    DEF RunnerRaises, TypeOK, ActiveStatus, FinishedStatus, streamVars, clientVars
<1>8. ASSUME Shutdown \/ ShutdownReturns
      PROVE  TypeInv'
  BY <1>8 DEF Shutdown, ShutdownReturns, TypeOK, streamVars, clientVars
<1>9. ASSUME NEW c \in Clients, NEW j \in Jobs, Subscribe(c, j)
      PROVE  TypeInv'
  <2>1. CachedAfter(j, lastId[c][j]) \in Seq(Nat)
    <3>1. oldest[j] \in Nat \ {0} /\ lastId[c][j] + 1 \in Nat \ {0} /\ nextSeq[j] - 1 \in Nat
      BY DEF TypeOK
    <3> QED
      BY <3>1, IntervalType DEF CachedAfter
  <2> QED
    BY <1>9, <2>1 DEF Subscribe, TypeOK, Finished, managerVars, clientVars
<1>10. ASSUME NEW c \in Clients, YieldCached(c)
       PROVE  TypeInv'
  <2>1. Head(backlog[c]) \in Nat /\ Tail(backlog[c]) \in Seq(Nat)
    BY <1>10 DEF YieldCached, TypeOK
  <2> QED
    BY <1>10, <2>1 DEF YieldCached, Deliver, TypeOK, managerVars
<1>11. ASSUME NEW c \in Clients, YieldQueued(c)
       PROVE  TypeInv'
  <2>1. /\ Head(queue[c]) \in Nat /\ Tail(queue[c]) \in Seq(Nat)
        /\ Len(Tail(queue[c])) <= QueueCap
    BY <1>11 DEF YieldQueued, Listening, TypeOK
  <2> QED
    BY <1>11, <2>1 DEF YieldQueued, Listening, Deliver, TypeOK, managerVars, streamVars
<1>12. ASSUME NEW c \in Clients, ReturnAfterCache(c) \/ ReturnOnSignal(c)
       PROVE  TypeInv'
  <2>1. open[c] /\ EndStream(c)
    BY <1>12 DEF ReturnAfterCache, ReturnOnSignal, Listening
  <2> QED
    BY <2>1 DEF EndStream, CloseStream, TypeOK, managerVars
<1>13. ASSUME NEW c \in Clients, Disconnect(c)
       PROVE  TypeInv'
  BY <1>13 DEF Disconnect, CloseStream, TypeOK, managerVars, clientVars
<1>14. ASSUME NEW c \in Clients, Reload(c)
       PROVE  TypeInv'
  BY <1>14 DEF Reload, TypeOK, managerVars, streamVars
<1>15. CASE UNCHANGED vars
  BY <1>15 DEF vars, TypeOK
<1>16. ASSUME NEW j \in Jobs, RunnerReturns(j) \/ RunnerCancelled(j)
       PROVE  TypeInv'
  BY <1>6, <1>16 DEF RunnerReturns, RunnerCancelled, FinishedStatus
<1> QED
  BY <1>1, <1>2, <1>3, <1>4, <1>5, <1>7, <1>8, <1>9, <1>10, <1>11, <1>12, <1>13, <1>14,
     <1>15, <1>16
  DEF Next, TaskStep, StreamStep

(* Every variable keeps its type; in particular neither a subscriber's queue *)
(* nor a job's event cache outgrows its capacity.                            *)
THEOREM TypeCorrect == Spec => []TypeOK
<1>1. Spec => []TypeInv
  BY TypeInit, TypeNext, PTL DEF Spec
<1>2. TypeInv => TypeOK
  BY DEF TypeInv
<1> QED
  BY <1>1, <1>2, PTL

-----------------------------------------------------------------------------
(* The manager.  GroupMapExact is inductive once the status of a job is tied *)
(* to its task: only a job whose task can still take a step is active, and   *)
(* a job whose task was cancelled before its first step stays QUEUED, which  *)
(* keeps its group's entry exact.                                            *)

StatusMatchesTask ==
  \A j \in Jobs :
    /\ status[j] = "none" <=> task[j] = "none"
    /\ task[j] = "ready" => status[j] = "QUEUED"
    /\ task[j] = "running" <=> status[j] = "RUNNING"
    /\ task[j] = "done" => Finished(j) \/ (status[j] = "QUEUED" /\ j \in cancelled)

(* While the manager is up nothing is cancelled; afterwards every task that  *)
(* can still take a step is, and shutdown returns when those have ended.     *)
CancelledInShutdown ==
  /\ mgr = "up" => cancelled = {}
  /\ mgr # "up" => \A j \in Jobs : task[j] \in {"ready", "running"} => j \in cancelled
  /\ mgr = "stopped" => \A j \in cancelled : task[j] = "done"

JobInv == StatusMatchesTask /\ CancelledInShutdown /\ GroupMapExact

(* A step that leaves the manager and the jobs' groups alone. *)
managerState == <<mgr, status, group, activeOf, task, cancelled>>

LEMMA JobInvUnchanged ==
  ASSUME JobInv, UNCHANGED managerState
  PROVE  JobInv'
  BY DEF JobInv, StatusMatchesTask, CancelledInShutdown, GroupMapExact, Active, Finished,
         managerState

(* The end of a task: status, map and task change together. *)
LEMMA JobInvFinish ==
  ASSUME TypeOK, JobInv, NEW j \in Jobs, NEW st \in FinishedStatus,
         task[j] = "running",
         task' = [task EXCEPT ![j] = "done"],
         status' = [status EXCEPT ![j] = st],
         activeOf' = Cleared(j),
         UNCHANGED <<mgr, group, cancelled>>
  PROVE  JobInv'
<1>1. StatusMatchesTask'
  BY DEF TypeOK, JobInv, StatusMatchesTask, Finished, FinishedStatus
<1>2. CancelledInShutdown'
  BY DEF TypeOK, JobInv, CancelledInShutdown
<1>3. GroupMapExact'
  <2>1. SUFFICES ASSUME NEW g \in Groups, NEW k \in Jobs
                 PROVE  activeOf'[g] = k <=> (Active(k)' /\ group'[k] = g)
    BY DEF GroupMapExact
  <2>2. activeOf[g] = k <=> (Active(k) /\ group[k] = g)
    BY DEF JobInv, GroupMapExact
  <2>3. activeOf'[g] = IF g = group[j] /\ activeOf[g] = j THEN NoJob ELSE activeOf[g]
    BY DEF Cleared
  <2>4. CASE k = j
    <3>1. ~ Active(k)'
      BY <2>4 DEF TypeOK, Active, ActiveStatus, FinishedStatus
    <3>2. activeOf'[g] # j
      BY <2>2, <2>3, <2>4
    <3> QED
      BY <2>4, <3>1, <3>2
  <2>5. CASE k # j
    <3>1. Active(k)' <=> Active(k)
      BY <2>5 DEF TypeOK, Active
    <3> QED
      BY <2>2, <2>3, <2>5, <3>1
  <2> QED
    BY <2>4, <2>5
<1> QED
  BY <1>1, <1>2, <1>3 DEF JobInv

LEMMA JobInit == Init => JobInv
  BY DEF Init, JobInv, StatusMatchesTask, CancelledInShutdown, GroupMapExact,
         Active, ActiveStatus, Finished, FinishedStatus

LEMMA JobNext == TypeOK /\ JobInv /\ [Next]_vars => JobInv'
<1> SUFFICES ASSUME TypeOK, JobInv, [Next]_vars
             PROVE  JobInv'
  OBVIOUS
<1>1. ASSUME NEW j \in Jobs, NEW g \in Groups \cup {NoGroup}, StartJob(j, g)
      PROVE  JobInv'
  <2>1. StatusMatchesTask'
    BY <1>1 DEF StartJob, CreateJob, TypeOK, JobInv, StatusMatchesTask, Finished,
                FinishedStatus
  <2>2. CancelledInShutdown'
    BY <1>1 DEF StartJob, CreateJob, TypeOK, JobInv, CancelledInShutdown
  <2>3. GroupMapExact'
    <3>1. SUFFICES ASSUME NEW h \in Groups, NEW k \in Jobs
                   PROVE  activeOf'[h] = k <=> (Active(k)' /\ group'[k] = h)
      BY DEF GroupMapExact
    <3>2. activeOf[h] = k <=> (Active(k) /\ group[k] = h)
      BY DEF JobInv, GroupMapExact
    <3>3. activeOf'[h] = IF h = g THEN j ELSE activeOf[h]
      BY <1>1 DEF StartJob, CreateJob
    <3>4. ~ Active(j)
      BY <1>1 DEF StartJob, CreateJob, Active, ActiveStatus
    <3>5. CASE k = j
      <4>1. Active(k)' /\ group'[k] = g
        BY <1>1, <3>5 DEF StartJob, CreateJob, TypeOK, Active, ActiveStatus
      <4> QED
        BY <3>2, <3>3, <3>4, <3>5, <4>1
    <3>6. CASE k # j
      <4>1. (Active(k)' <=> Active(k)) /\ group'[k] = group[k]
        BY <1>1, <3>6 DEF StartJob, CreateJob, TypeOK, Active
      <4>2. h = g => ~ (Active(k) /\ group[k] = h)
        \* the group was not busy: its entry names no active job
        BY <1>1, <3>2 DEF StartJob, GroupBusy, RAGJobsAssumption
      <4> QED
        BY <3>2, <3>3, <3>6, <4>1, <4>2
    <3> QED
      BY <3>5, <3>6
  <2> QED
    BY <2>1, <2>2, <2>3 DEF JobInv
<1>2. ASSUME NEW j \in Jobs, TaskStarts(j)
      PROVE  JobInv'
  BY <1>2 DEF TaskStarts, TypeOK, JobInv, StatusMatchesTask, CancelledInShutdown,
              GroupMapExact, Active, ActiveStatus, Finished, FinishedStatus
<1>3. ASSUME NEW j \in Jobs, TaskNeverStarts(j)
      PROVE  JobInv'
  BY <1>3 DEF TaskNeverStarts, TypeOK, JobInv, StatusMatchesTask, CancelledInShutdown,
              GroupMapExact, Active, ActiveStatus, Finished, FinishedStatus
<1>4. ASSUME NEW j \in Jobs, RunnerYields(j)
      PROVE  JobInv'
  BY <1>4, JobInvUnchanged DEF RunnerYields, managerState
<1>5. ASSUME NEW j \in Jobs, RunnerReturns(j) \/ RunnerCancelled(j) \/ RunnerRaises(j)
      PROVE  JobInv'
  <2>1. task[j] = "running"
    BY <1>5 DEF RunnerReturns, RunnerCancelled, RunnerRaises
  <2>2. PICK st \in FinishedStatus :
          /\ task' = [task EXCEPT ![j] = "done"]
          /\ status' = [status EXCEPT ![j] = st]
          /\ activeOf' = Cleared(j)
          /\ UNCHANGED <<mgr, group, cancelled>>
    BY <1>5 DEF RunnerReturns, RunnerCancelled, RunnerRaises, Finish, FinishedStatus
  <2> QED
    BY <2>1, <2>2, JobInvFinish
<1>6. CASE Shutdown
  <2>1. \A j \in Jobs : task[j] \in {"ready", "running"} => j \in cancelled'
    BY <1>6 DEF Shutdown, JobInv, StatusMatchesTask, Active, ActiveStatus
  <2>2. cancelled = {}
    BY <1>6 DEF Shutdown, JobInv, CancelledInShutdown
  <2> QED
    BY <1>6, <2>1, <2>2 DEF Shutdown, JobInv, StatusMatchesTask, CancelledInShutdown,
                            GroupMapExact, Active, Finished
<1>7. CASE ShutdownReturns
  BY <1>7 DEF ShutdownReturns, JobInv, StatusMatchesTask, CancelledInShutdown,
              GroupMapExact, Active, Finished
<1>8. ASSUME NEW c \in Clients, NEW j \in Jobs, Subscribe(c, j)
      PROVE  JobInv'
  BY <1>8, JobInvUnchanged DEF Subscribe, managerVars, managerState
<1>9. ASSUME NEW c \in Clients, StreamStep(c) \/ Disconnect(c) \/ Reload(c)
      PROVE  JobInv'
  BY <1>9, JobInvUnchanged
  DEF StreamStep, YieldCached, ReturnAfterCache, YieldQueued, ReturnOnSignal, EndStream,
      Disconnect, Reload, managerVars, managerState
<1>10. CASE UNCHANGED vars \/ \E g \in Groups : ReuseJob(g)
  BY <1>10, JobInvUnchanged DEF ReuseJob, vars, managerState
<1> QED
  BY <1>1, <1>2, <1>3, <1>4, <1>5, <1>6, <1>7, <1>8, <1>9, <1>10 DEF Next, TaskStep

LEMMA JobInvariant == Spec => [](TypeOK /\ JobInv)
<1>1. TypeInv => TypeOK
  BY DEF TypeInv
<1>2. Spec => []TypeInv
  BY TypeInit, TypeNext, PTL DEF Spec
<1> QED
  BY <1>1, <1>2, JobInit, JobNext, PTL DEF Spec

(* The map start_job and the delete and update guards look a source up in    *)
(* names its active job at all times, and no other.                          *)
THEOREM GroupMapIsExact == Spec => []GroupMapExact
<1>1. JobInv => GroupMapExact
  BY DEF JobInv
<1> QED
  BY <1>1, JobInvariant, PTL

(* Two active jobs of a group would both be the one its entry names. *)
THEOREM JobsOfAGroupExclude == Spec => []OneActiveJobPerGroup
<1>1. TypeOK /\ JobInv => OneActiveJobPerGroup
  <2> SUFFICES ASSUME TypeOK, JobInv, NEW j \in Jobs, NEW k \in Jobs,
                      Active(j), Active(k), group[j] = group[k], group[j] # NoGroup
               PROVE  j = k
    BY DEF OneActiveJobPerGroup
  <2>1. group[j] \in Groups
    BY DEF TypeOK
  <2> QED
    BY <2>1 DEF JobInv, GroupMapExact
<1> QED
  BY <1>1, JobInvariant, PTL

(* What shutdown gathers is all there is: when it returns no task runs, and  *)
(* no job is left RUNNING.                                                   *)
THEOREM ShutdownIsComplete == Spec => []ShutdownLeavesNoTask
<1>1. TypeOK /\ JobInv => ShutdownLeavesNoTask
  BY DEF TypeOK, JobInv, StatusMatchesTask, CancelledInShutdown, ShutdownLeavesNoTask
<1> QED
  BY <1>1, JobInvariant, PTL

-----------------------------------------------------------------------------
(***************************************************************************)
(* Proofs about the streams of RAGJobs: what a client is given comes in    *)
(* order, a registered stream misses nothing but what cache and finish     *)
(* signal explain, a stream that ends has given the last event of its job, *)
(* and the streams implement JobFeed.                                      *)
(***************************************************************************)


-----------------------------------------------------------------------------
(* The part of the invariant that is about the numbers of one stream: the   *)
(* last number delivered, the backlog, the queue, and the next number of    *)
(* the job.  The finish signal only ever comes last in the queue.           *)

InOrder(last, bl, q, n) ==
  /\ last < n
  /\ \A i \in 1 .. Len(bl) : last < bl[i] /\ bl[i] < n
  /\ \A i, k \in 1 .. Len(bl) : i < k => bl[i] < bl[k]
  /\ \A i \in 1 .. Len(q) :
       q[i] = FinishSignal \/ (last < q[i] /\ q[i] < n /\ \A k \in 1 .. Len(bl) : bl[k] < q[i])
  /\ \A i, k \in 1 .. Len(q) :
       i < k => q[i] # FinishSignal /\ (q[k] = FinishSignal \/ q[i] < q[k])

HasSignal(q) == \E i \in 1 .. Len(q) : q[i] = FinishSignal

(* The newest number delivered or cached, and that of the whole stream. *)
NewestCached(last, bl) == IF bl # << >> THEN bl[Len(bl)] ELSE last
Newest(last, bl, q) ==
  IF q = << >> THEN NewestCached(last, bl)
  ELSE IF q[Len(q)] # FinishSignal THEN q[Len(q)]
  ELSE IF Len(q) = 1 THEN NewestCached(last, bl) ELSE q[Len(q) - 1]

(* The tail of a sequence, entry by entry. *)
LEMMA TailEntries ==
  ASSUME NEW S, NEW s \in Seq(S), s # << >>
  PROVE  /\ Len(s) \in Nat /\ Len(s) >= 1
         /\ Head(s) = s[1] /\ Head(s) \in S
         /\ Tail(s) \in Seq(S) /\ Len(Tail(s)) = Len(s) - 1
         /\ \A i \in 1 .. Len(s) - 1 : Tail(s)[i] = s[i + 1]
         /\ Tail(s) = << >> <=> Len(s) = 1
<1>1. Len(s) \in Nat /\ Len(s) >= 1
  BY EmptySeq
<1>2. Head(s) = s[1]
  BY <1>1
<1>3. Tail(s) = << >> <=> Len(Tail(s)) = 0
  BY HeadTailProperties, EmptySeq
<1> QED
  BY <1>1, <1>2, <1>3, HeadTailProperties

LEMMA AppendNumber ==
  ASSUME NEW last \in Nat, NEW bl \in Seq(Nat), NEW q \in Seq(Nat), NEW n \in Nat \ {0},
         InOrder(last, bl, q, n), ~ HasSignal(q)
  PROVE  /\ InOrder(last, bl, Append(q, n), n + 1)
         /\ ~ HasSignal(Append(q, n))
         /\ Newest(last, bl, Append(q, n)) = n
<1> DEFINE r == Append(q, n)
<1>1. /\ r \in Seq(Nat) /\ Len(r) = Len(q) + 1 /\ Len(q) \in Nat
      /\ r[Len(r)] = n
      /\ \A i \in 1 .. Len(q) : r[i] = q[i]
  OBVIOUS
<1>2. \A i \in 1 .. Len(q) : q[i] \in Nat \ {0}
  BY DEF HasSignal, FinishSignal
<1>3. ~ HasSignal(r)
  BY <1>1, <1>2 DEF HasSignal, FinishSignal
<1>4. Newest(last, bl, r) = n
  BY <1>1 DEF Newest, FinishSignal
<1>5. \A i \in 1 .. Len(bl) : bl[i] \in Nat
  OBVIOUS
<1>6. InOrder(last, bl, r, n + 1)
  <2> HIDE DEF r
  <2>1. /\ last < n + 1
        /\ \A i \in 1 .. Len(bl) : last < bl[i] /\ bl[i] < n + 1
        /\ \A i, k \in 1 .. Len(bl) : i < k => bl[i] < bl[k]
    BY <1>5 DEF InOrder
  <2>2. \A i \in 1 .. Len(r) :
          last < r[i] /\ r[i] < n + 1 /\ \A k \in 1 .. Len(bl) : bl[k] < r[i]
    <3> TAKE i \in 1 .. Len(r)
    <3>1. CASE i = Len(r)
      BY <1>1, <1>5, <3>1 DEF InOrder
    <3>2. CASE i # Len(r)
      <4>1. i \in 1 .. Len(q) /\ r[i] = q[i]
        BY <1>1, <3>2
      <4> QED
        BY <1>2, <4>1 DEF InOrder, FinishSignal
    <3> QED
      BY <3>1, <3>2
  <2>3. \A i, k \in 1 .. Len(r) : i < k => r[i] # FinishSignal /\ r[i] < r[k]
    <3>0. \A k \in 1 .. Len(r) : k \in 1 .. Len(q) \/ k = Len(r)
      BY <1>1
    <3> TAKE i, k \in 1 .. Len(r)
    <3> HAVE i < k
    <3>1. i \in 1 .. Len(q) /\ r[i] = q[i]
      BY <1>1
    <3>2. CASE k = Len(r)
      BY <1>1, <1>2, <3>1, <3>2 DEF InOrder, FinishSignal
    <3>3. CASE k # Len(r)
      <4>1. k \in 1 .. Len(q) /\ r[k] = q[k]
        BY <1>1, <3>0, <3>3
      <4> QED
        BY <1>2, <3>1, <4>1 DEF InOrder, FinishSignal
    <3> QED
      BY <3>2, <3>3
  <2> QED
    BY <2>1, <2>2, <2>3 DEF InOrder
<1> QED
  BY <1>3, <1>4, <1>6

LEMMA AppendSignal ==
  ASSUME NEW last \in Nat, NEW bl \in Seq(Nat), NEW q \in Seq(Nat), NEW n \in Nat,
         InOrder(last, bl, q, n), ~ HasSignal(q)
  PROVE  /\ InOrder(last, bl, Append(q, FinishSignal), n)
         /\ HasSignal(Append(q, FinishSignal))
         /\ Newest(last, bl, Append(q, FinishSignal)) = Newest(last, bl, q)
<1> DEFINE r == Append(q, FinishSignal)
<1>1. /\ Len(r) = Len(q) + 1 /\ Len(q) \in Nat
      /\ r # << >> /\ (q = << >> <=> Len(q) = 0)
      /\ r[Len(r)] = FinishSignal
      /\ \A i \in 1 .. Len(q) : r[i] = q[i]
  BY DEF FinishSignal
<1>2. \A i \in 1 .. Len(q) : q[i] # FinishSignal
  BY DEF HasSignal
<1> HIDE DEF r
<1>3. \A i \in 1 .. Len(r) : i \in 1 .. Len(q) \/ i = Len(r)
  BY <1>1
<1>4. \A i \in 1 .. Len(r) :
        r[i] = FinishSignal \/ (last < r[i] /\ r[i] < n /\ \A k \in 1 .. Len(bl) : bl[k] < r[i])
  BY <1>1, <1>3 DEF InOrder
<1>5. \A i, k \in 1 .. Len(r) :
        i < k => r[i] # FinishSignal /\ (r[k] = FinishSignal \/ r[i] < r[k])
  <2> TAKE i, k \in 1 .. Len(r)
  <2> HAVE i < k
  <2>1. i \in 1 .. Len(q)
    BY <1>1
  <2> QED
    BY <1>1, <1>2, <1>3, <2>1 DEF InOrder
<1>6. HasSignal(r)
  BY <1>1 DEF HasSignal
<1>7. Newest(last, bl, r) = Newest(last, bl, q)
  <2>1. CASE q = << >>
    BY <1>1, <2>1 DEF Newest
  <2>2. CASE q # << >>
    <3>1. Len(q) \in 1 .. Len(q) /\ Len(r) - 1 = Len(q) /\ Len(r) # 1
      BY <1>1, <2>2
    <3>2. Newest(last, bl, r) = q[Len(q)]
      BY <1>1, <3>1 DEF Newest
    <3> QED
      BY <1>2, <2>2, <3>1, <3>2 DEF Newest
  <2> QED
    BY <2>1, <2>2
<1> QED
  BY <1>4, <1>5, <1>6, <1>7 DEF InOrder, r

(* The queue gives up its oldest entry. *)
LEMMA DropOldest ==
  ASSUME NEW last \in Nat, NEW bl \in Seq(Nat), NEW q \in Seq(Nat), NEW n \in Nat,
         q # << >>, InOrder(last, bl, q, n)
  PROVE  /\ InOrder(last, bl, Tail(q), n)
         /\ HasSignal(Tail(q)) => HasSignal(q)
         /\ Len(q) >= 2 /\ ~ HasSignal(q) => Newest(last, bl, Tail(q)) = Newest(last, bl, q)
<1> DEFINE r == Tail(q)
<1>1. /\ Len(r) = Len(q) - 1
      /\ \A i \in 1 .. Len(r) : r[i] = q[i + 1] /\ i + 1 \in 1 .. Len(q)
      /\ r = << >> <=> Len(q) = 1
  BY TailEntries
<1> HIDE DEF r
<1>2. Len(q) \in Nat
  OBVIOUS
<1>3. \A i, k \in 1 .. Len(r) : i < k => i + 1 < k + 1
  BY <1>1, <1>2
<1>4. InOrder(last, bl, r, n)
  BY <1>1, <1>3 DEF InOrder
<1>5. HasSignal(r) => HasSignal(q)
  BY <1>1 DEF HasSignal
<1>6. ASSUME Len(q) >= 2, ~ HasSignal(q)
      PROVE  Newest(last, bl, r) = Newest(last, bl, q)
  <2>1. Len(r) \in 1 .. Len(r) /\ r[Len(r)] = q[Len(q)] /\ r # << >>
    BY <1>1, <1>2, <1>6
  <2>2. Len(q) \in 1 .. Len(q)
    BY <1>2, <1>6
  <2>3. q[Len(q)] # FinishSignal
    BY <1>6, <2>2 DEF HasSignal
  <2> QED
    BY <2>1, <2>3 DEF Newest
<1> QED
  BY <1>4, <1>5, <1>6 DEF r

(* _put_finish_signal loses neither the order nor the newest number: the     *)
(* entry a full queue gives up is the oldest of at least two.                *)
LEMMA SignalInOrder ==
  ASSUME NEW last \in Nat, NEW bl \in Seq(Nat), NEW q \in Seq(Nat), NEW n \in Nat,
         InOrder(last, bl, q, n), ~ HasSignal(q)
  PROVE  /\ InOrder(last, bl, Signalled(q), n)
         /\ HasSignal(Signalled(q))
         /\ Newest(last, bl, Signalled(q)) = Newest(last, bl, q)
<1>1. CASE Len(q) = QueueCap
  <2>1. q # << >> /\ Len(q) >= 2
    BY <1>1, EmptySeq
  <2>2. /\ Tail(q) \in Seq(Nat)
        /\ InOrder(last, bl, Tail(q), n) /\ ~ HasSignal(Tail(q))
        /\ Newest(last, bl, Tail(q)) = Newest(last, bl, q)
    BY <2>1, DropOldest, TailEntries
  <2> QED
    BY <1>1, <2>2, AppendSignal DEF Signalled
<1>2. CASE Len(q) # QueueCap
  BY <1>2, AppendSignal DEF Signalled
<1> QED
  BY <1>1, <1>2

LEMMA DeliverCached ==
  ASSUME NEW last \in Nat, NEW bl \in Seq(Nat), NEW q \in Seq(Nat), NEW n \in Nat,
         bl # << >>, InOrder(last, bl, q, n)
  PROVE  /\ InOrder(Head(bl), Tail(bl), q, n)
         /\ Newest(Head(bl), Tail(bl), q) = Newest(last, bl, q)
         /\ last < Head(bl) /\ Head(bl) < n
<1> DEFINE r == Tail(bl)
           h == Head(bl)
<1>1. /\ Len(r) = Len(bl) - 1
      /\ \A i \in 1 .. Len(r) : r[i] = bl[i + 1] /\ i + 1 \in 1 .. Len(bl)
      /\ h = bl[1] /\ 1 \in 1 .. Len(bl)
      /\ r = << >> <=> Len(bl) = 1
      /\ Len(bl) \in Nat /\ h \in Nat
      /\ r \in Seq(Nat)
  BY TailEntries
<1> HIDE DEF r, h
<1>2. last < h /\ h < n
  BY <1>1 DEF InOrder
<1>3. \A i \in 1 .. Len(r) : h < r[i] /\ r[i] < n
  <2>1. \A i \in 1 .. Len(r) : 1 < i + 1
    OBVIOUS
  <2> QED
    BY <1>1, <2>1 DEF InOrder
<1>4. \A i, k \in 1 .. Len(r) : i < k => r[i] < r[k]
  <2> TAKE i, k \in 1 .. Len(r)
  <2>1. i < k => i + 1 < k + 1
    BY <1>1
  <2> QED
    BY <1>1, <2>1 DEF InOrder
<1>5. \A i \in 1 .. Len(q) :
        q[i] = FinishSignal \/ (h < q[i] /\ q[i] < n /\ \A k \in 1 .. Len(r) : r[k] < q[i])
  BY <1>1 DEF InOrder
<1>6. NewestCached(h, r) = NewestCached(last, bl)
  <2>1. CASE r = << >>
    BY <1>1, <2>1 DEF NewestCached
  <2>2. CASE r # << >>
    <3>1. Len(r) \in 1 .. Len(r)
      BY <1>1, <2>2
    <3>2. r[Len(r)] = bl[Len(bl)]
      BY <1>1, <3>1
    <3> QED
      BY <2>2, <3>2 DEF NewestCached
  <2> QED
    BY <2>1, <2>2
<1>7. Newest(h, r, q) = Newest(last, bl, q)
  BY <1>6 DEF Newest
<1> QED
  BY <1>2, <1>3, <1>4, <1>5, <1>7 DEF InOrder, h, r

LEMMA DeliverQueued ==
  ASSUME NEW last \in Nat, NEW q \in Seq(Nat), NEW n \in Nat,
         q # << >>, Head(q) # FinishSignal, InOrder(last, << >>, q, n)
  PROVE  /\ InOrder(Head(q), << >>, Tail(q), n)
         /\ last < Head(q) /\ Head(q) < n
         /\ HasSignal(Tail(q)) <=> HasSignal(q)
         /\ Newest(Head(q), << >>, Tail(q)) = Newest(last, << >>, q)
<1> DEFINE r == Tail(q)
           h == Head(q)
<1>1. /\ Len(r) = Len(q) - 1
      /\ r = << >> <=> Len(q) = 1
      /\ \A i \in 1 .. Len(r) : r[i] = q[i + 1] /\ i + 1 \in 1 .. Len(q)
      /\ h = q[1] /\ 1 \in 1 .. Len(q)
      /\ Len(q) \in Nat /\ h \in Nat /\ h # FinishSignal
  BY TailEntries
<1> HIDE DEF r, h
<1>2. last < h /\ h < n
  BY <1>1 DEF InOrder
<1>3. \A i \in 1 .. Len(r) : r[i] = FinishSignal \/ (h < r[i] /\ r[i] < n)
  <2>1. \A i \in 1 .. Len(r) : 1 < i + 1
    OBVIOUS
  <2> QED
    BY <1>1, <2>1 DEF InOrder
<1>4. \A i, k \in 1 .. Len(r) :
        i < k => r[i] # FinishSignal /\ (r[k] = FinishSignal \/ r[i] < r[k])
  <2> TAKE i, k \in 1 .. Len(r)
  <2>1. i < k => i + 1 < k + 1
    BY <1>1
  <2> QED
    BY <1>1, <2>1 DEF InOrder
<1>5. Len(<< >>) = 0
  OBVIOUS
<1>6. HasSignal(r) <=> HasSignal(q)
  <2>1. ASSUME NEW i \in 1 .. Len(q), q[i] = FinishSignal
        PROVE  \E k \in 1 .. Len(r) : r[k] = FinishSignal
    <3>1. i # 1
      BY <1>1, <2>1
    <3>2. i - 1 \in 1 .. Len(r) /\ (i - 1) + 1 = i
      BY <1>1, <3>1
    <3>3. r[i - 1] = FinishSignal
      BY <1>1, <2>1, <3>2
    <3> QED
      BY <3>2, <3>3
  <2> QED
    BY <1>1, <2>1 DEF HasSignal
<1>7. Newest(h, << >>, r) = Newest(last, << >>, q)
  <2>1. CASE r = << >>
    BY <1>1, <2>1 DEF Newest, NewestCached
  <2>2. CASE r # << >>
    <3>1. Len(r) \in 1 .. Len(r) /\ r[Len(r)] = q[Len(q)]
      BY <1>1, <2>2
    <3>2. Len(r) = 1 => q[Len(q) - 1] = h
      BY <1>1
    <3>3. Len(r) # 1 => /\ Len(r) - 1 \in 1 .. Len(r)
                        /\ (Len(r) - 1) + 1 = Len(q) - 1
      BY <1>1, <3>1
    <3>4. Len(r) # 1 => r[Len(r) - 1] = q[Len(q) - 1]
      BY <1>1, <3>3
    <3>5. q # << >> /\ Len(q) # 1
      BY <1>1, <2>2
    <3>6. q[Len(q)] # FinishSignal => Newest(h, << >>, r) = q[Len(q)]
      BY <2>2, <3>1 DEF Newest
    <3>7. q[Len(q)] = FinishSignal => Newest(h, << >>, r) = q[Len(q) - 1]
      BY <2>2, <3>1, <3>2, <3>4 DEF Newest, NewestCached
    <3> QED
      BY <3>5, <3>6, <3>7 DEF Newest
  <2> QED
    BY <2>1, <2>2
<1> QED
  BY <1>2, <1>3, <1>4, <1>5, <1>6, <1>7 DEF InOrder, h, r

(* Nothing comes behind the finish signal. *)
LEMMA SignalIsLast ==
  ASSUME NEW last, NEW bl, NEW q \in Seq(Nat), NEW n,
         q # << >>, Head(q) = FinishSignal, InOrder(last, bl, q, n)
  PROVE  Len(q) = 1
<1> DEFINE m == Len(q)
<1>1. m \in Nat /\ m >= 1 /\ q[1] = FinishSignal
  BY TailEntries
<1>2. \A i, k \in 1 .. m : i < k => q[i] # FinishSignal
  BY DEF InOrder
<1> HIDE DEF m
<1> SUFFICES ASSUME m # 1 PROVE FALSE
  BY DEF m
<1>3. 1 \in 1 .. m /\ 2 \in 1 .. m /\ 1 < 2
  BY <1>1
<1> QED
  BY <1>1, <1>2, <1>3

(* The job publishes an event the stream is not offered. *)
LEMMA LaterInOrder ==
  ASSUME NEW last \in Nat, NEW bl \in Seq(Nat), NEW q \in Seq(Nat), NEW n \in Nat,
         InOrder(last, bl, q, n)
  PROVE  InOrder(last, bl, q, n + 1)
<1>1. /\ \A i \in 1 .. Len(bl) : bl[i] \in Nat
      /\ \A i \in 1 .. Len(q) : q[i] \in Nat
  OBVIOUS
<1>2. \A m \in Nat : m < n => m < n + 1
  OBVIOUS
<1> QED
  BY <1>1, <1>2 DEF InOrder

(* An event is kept in the cache, whatever it displaces. *)
LEMMA CacheNotEmpty ==
  ASSUME TypeOK, NEW j \in Jobs, Record(j)
  PROVE  /\ \A k \in Jobs : nextSeq[k] <= nextSeq'[k]
         /\ oldest'[j] < nextSeq'[j]
         /\ \A k \in Jobs : k # j => oldest'[k] = oldest[k] /\ nextSeq'[k] = nextSeq[k]
  BY DEF TypeOK, Record

(* What a new subscriber is given, and that it leads to the newest event     *)
(* unless there is none after its Last-Event-ID.                             *)
LEMMA CachedAfterInOrder ==
  ASSUME NEW j \in Jobs, NEW last \in Nat, TypeOK, last < nextSeq[j],
         oldest[j] < nextSeq[j] \/ nextSeq[j] = 1
  PROVE  /\ CachedAfter(j, last) \in Seq(Nat)
         /\ InOrder(last, CachedAfter(j, last), << >>, nextSeq[j])
         /\ Newest(last, CachedAfter(j, last), << >>) = nextSeq[j] - 1
<1> DEFINE lo == IF oldest[j] > last THEN oldest[j] ELSE last + 1
           hi == nextSeq[j] - 1
           len == IF lo <= hi THEN hi - lo + 1 ELSE 0
           s == CachedAfter(j, last)
<1>1. /\ oldest[j] \in Nat \ {0} /\ nextSeq[j] \in Nat \ {0}
      /\ lo \in Nat \ {0} /\ hi \in Nat /\ len \in Nat
      /\ lo > last
  BY DEF TypeOK
<1>2. s = Interval(lo, hi) /\ s \in Seq(Nat)
  BY <1>1, IntervalType DEF CachedAfter
<1>3. Len(s) = len /\ \A i \in 1 .. len : s[i] = lo + i - 1
  BY <1>1, <1>2 DEF Interval
<1>4. Len(<< >>) = 0
  OBVIOUS
<1> HIDE DEF s
<1>5. InOrder(last, s, << >>, nextSeq[j])
  <2> HIDE DEF lo
  <2>1. \A i \in 1 .. len : last < s[i] /\ s[i] < nextSeq[j]
    BY <1>1, <1>3
  <2>2. \A i, k \in 1 .. len : i < k => s[i] < s[k]
    BY <1>1, <1>3
  <2> HIDE DEF len
  <2> QED
    BY <1>3, <1>4, <2>1, <2>2 DEF InOrder
<1>6. NewestCached(last, s) = nextSeq[j] - 1
  <2>1. CASE lo <= hi
    <3>1. len = hi - lo + 1 /\ len \in 1 .. len
      BY <1>1, <2>1
    <3>2. s[len] = hi
      <4>1. s[len] = lo + len - 1
        BY <1>3, <3>1
      <4> HIDE DEF lo, hi, len
      <4> QED
        BY <1>1, <3>1, <4>1
    <3>3. s # << >> /\ s[Len(s)] = hi
      BY <1>3, <1>4, <3>1, <3>2
    <3> QED
      BY <3>3 DEF NewestCached
  <2>2. CASE ~ (lo <= hi)
    <3>1. Len(s) = 0
      BY <1>3, <2>2
    <3>2. s = << >>
      BY <1>2, <3>1
    <3>3. last = nextSeq[j] - 1
      BY <1>1, <2>2 DEF TypeOK
    <3> QED
      BY <3>2, <3>3 DEF NewestCached
  <2> QED
    BY <2>1, <2>2
<1> QED
  BY <1>2, <1>5, <1>6 DEF s, Newest

-----------------------------------------------------------------------------
(* The invariant.  A registered stream holds the newest event, and once its  *)
(* job is finished it holds the finish signal behind it, unless it found the *)
(* job finished when it subscribed.                                          *)

StreamOK(c) ==
  open[c] =>
    LET j == watching[c]
        last == lastId[c][j]
        registered == c \in subscribers[j]
    IN  /\ InOrder(last, backlog[c], queue[c], nextSeq[j])
        /\ HasSignal(queue[c]) => Finished(j) /\ registered
        /\ isFinished[c] => Finished(j) /\ registered /\ queue[c] = << >>
        /\ registered => Newest(last, backlog[c], queue[c]) = nextSeq[j] - 1
        /\ registered /\ Finished(j) /\ ~ isFinished[c] => HasSignal(queue[c])

RegisteredIsOpen ==
  \A j \in Jobs : \A c \in subscribers[j] : open[c] /\ watching[c] = j

(* Nothing is delivered before it is published, and the cache of a job that  *)
(* has published is not empty.                                               *)
NumbersMatchJob ==
  /\ \A c \in Clients, j \in Jobs : lastId[c][j] < nextSeq[j]
  /\ \A j \in Jobs : oldest[j] < nextSeq[j] \/ nextSeq[j] = 1

StreamInv ==
  /\ \A c \in Clients : StreamOK(c)
  /\ RegisteredIsOpen
  /\ NumbersMatchJob
  /\ EndedStreamSawLastEvent

AllInv == TypeInv /\ JobInv /\ StreamInv

LEMMA StreamInit == Init => StreamInv
  BY DEF Init, StreamInv, StreamOK, RegisteredIsOpen, NumbersMatchJob,
         EndedStreamSawLastEvent

(* A client no variable of which changes, watching a job whose log and       *)
(* whose being finished do not change.                                       *)
LEMMA StreamUnchanged ==
  ASSUME NEW c \in Clients, StreamOK(c),
         open'[c] = open[c], watching'[c] = watching[c], lastId'[c] = lastId[c],
         backlog'[c] = backlog[c], queue'[c] = queue[c], isFinished'[c] = isFinished[c],
         open[c] => /\ nextSeq'[watching[c]] = nextSeq[watching[c]]
                    /\ Finished(watching[c])' <=> Finished(watching[c])
                    /\ c \in subscribers'[watching[c]] <=> c \in subscribers[watching[c]]
  PROVE  StreamOK(c)'
  BY DEF StreamOK, Finished

(* Steps that only move a job between statuses that are not final. *)
LEMMA StatusStep ==
  ASSUME AllInv,
         UNCHANGED <<nextSeq, oldest, subscribers, queue, streamVars, clientVars>>,
         \A j \in Jobs : Finished(j)' <=> Finished(j)
  PROVE  StreamInv'
<1> USE DEF streamVars, clientVars
<1>1. \A c \in Clients : StreamOK(c)'
  BY StreamUnchanged DEF AllInv, TypeInv, OpenStreamHasJob, StreamInv
<1>2. RegisteredIsOpen' /\ NumbersMatchJob'
  BY DEF AllInv, StreamInv, RegisteredIsOpen, NumbersMatchJob
<1>3. EndedStreamSawLastEvent'
  BY DEF AllInv, TypeInv, TypeOK, StreamInv, EndedStreamSawLastEvent
<1> QED
  BY <1>1, <1>2, <1>3 DEF StreamInv

(* _emit on a job that runs: those that have room get the event, the others  *)
(* are not registered any more.                                              *)
LEMMA YieldStep ==
  ASSUME AllInv, NEW j \in Jobs, RunnerYields(j)
  PROVE  StreamInv'
<1> USE DEF streamVars, clientVars
<1>1. TypeOK /\ StreamInv /\ ~ Finished(j)
  BY DEF AllInv, TypeInv, JobInv, StatusMatchesTask, RunnerYields, Finished, FinishedStatus
<1>2. /\ nextSeq[j] \in Nat \ {0}
      /\ nextSeq'[j] = nextSeq[j] + 1
      /\ \A k \in Jobs : k # j => nextSeq'[k] = nextSeq[k] /\ subscribers'[k] = subscribers[k]
      /\ subscribers'[j] = Kept(j)
      /\ \A c \in Clients : queue'[c] = Offered(j, c)
      /\ \A k \in Jobs : Finished(k)' <=> Finished(k)
      /\ UNCHANGED <<open, watching, backlog, isFinished, lastId, ended>>
  BY <1>1 DEF RunnerYields, Record, TypeOK, Finished
<1>3. ASSUME NEW c \in Clients
      PROVE  StreamOK(c)'
  <2>1. StreamOK(c)
    BY <1>1 DEF StreamInv
  <2>2. CASE ~ open[c]
    BY <1>2, <2>2 DEF StreamOK
  <2>3. CASE open[c] /\ watching[c] # j
    <3>1. c \notin subscribers[j] /\ watching[c] \in Jobs
      BY <1>1, <2>3 DEF StreamInv, RegisteredIsOpen, AllInv, TypeInv, OpenStreamHasJob
    <3>2. queue'[c] = queue[c]
      BY <1>2, <3>1 DEF Offered
    <3> QED
      BY <1>2, <2>1, <2>3, <3>1, <3>2, StreamUnchanged
  <2>4. CASE open[c] /\ watching[c] = j
    <3> DEFINE last == lastId[c][j]
               n == nextSeq[j]
    <3>1. /\ last \in Nat /\ backlog[c] \in Seq(Nat) /\ queue[c] \in Seq(Nat)
          /\ InOrder(last, backlog[c], queue[c], n)
          /\ ~ HasSignal(queue[c]) /\ ~ isFinished[c]
      BY <1>1, <2>1, <2>4 DEF StreamOK, TypeOK
    <3>2. CASE c \in Kept(j)
      <4>1. queue'[c] = Append(queue[c], n)
        BY <1>2, <3>2 DEF Offered, Kept
      <4>2. /\ InOrder(last, backlog[c], queue'[c], n + 1)
            /\ ~ HasSignal(queue'[c])
            /\ Newest(last, backlog[c], queue'[c]) = n
        BY <1>2, <3>1, <4>1, AppendNumber
      <4>3. n = (n + 1) - 1
        BY <1>2
      <4> QED
        BY <1>1, <1>2, <2>4, <3>1, <4>2, <4>3 DEF StreamOK
    <3>3. CASE c \notin Kept(j)
      <4>1. queue'[c] = queue[c] /\ c \notin subscribers'[j]
        BY <1>2, <3>3 DEF Offered, Kept
      <4>2. InOrder(last, backlog[c], queue[c], n + 1)
        BY <1>2, <3>1, LaterInOrder
      <4> QED
        BY <1>1, <1>2, <2>4, <3>1, <4>1, <4>2 DEF StreamOK
    <3> QED
      BY <3>2, <3>3
  <2> QED
    BY <2>2, <2>3, <2>4
<1>4. RegisteredIsOpen'
  BY <1>1, <1>2 DEF StreamInv, RegisteredIsOpen, Kept
<1>5. NumbersMatchJob'
  BY <1>1, CacheNotEmpty DEF RunnerYields, Record, TypeOK, StreamInv, NumbersMatchJob
<1>6. EndedStreamSawLastEvent'
  <2>1. \A c \in Clients : j \notin ended[c] /\ ended[c] \subseteq Jobs
    BY <1>1 DEF StreamInv, EndedStreamSawLastEvent, TypeOK
  <2>2. \A c \in Clients : \A k \in ended[c] :
          k \in Jobs \ {j} /\ Finished(k) /\ lastId[c][k] = nextSeq[k] - 1
    BY <1>1, <2>1 DEF StreamInv, EndedStreamSawLastEvent
  <2> QED
    BY <1>2, <2>2 DEF EndedStreamSawLastEvent
<1> QED
  BY <1>3, <1>4, <1>5, <1>6 DEF StreamInv

(* The end of a job without an event of its own: every registered stream is  *)
(* given the finish signal.                                                  *)
LEMMA FinishStep ==
  ASSUME AllInv, NEW j \in Jobs, NEW st \in FinishedStatus,
         task[j] = "running", Finish(j, st)
  PROVE  StreamInv'
<1> USE DEF streamVars, clientVars
<1>1. TypeOK /\ StreamInv /\ ~ Finished(j)
  BY DEF AllInv, TypeInv, JobInv, StatusMatchesTask, Finished, FinishedStatus
<1>2. /\ \A c \in Clients :
           queue'[c] = IF c \in subscribers[j] THEN Signalled(queue[c]) ELSE queue[c]
      /\ \A k \in Jobs : k # j => (Finished(k)' <=> Finished(k))
      /\ Finished(j)'
      /\ UNCHANGED <<nextSeq, oldest, subscribers, open, watching, backlog, isFinished,
                     lastId, ended>>
  BY <1>1 DEF Finish, TypeOK, Finished
<1>3. ASSUME NEW c \in Clients
      PROVE  StreamOK(c)'
  <2>1. StreamOK(c)
    BY <1>1 DEF StreamInv
  <2>2. CASE ~ open[c]
    BY <1>2, <2>2 DEF StreamOK
  <2>3. CASE open[c] /\ watching[c] # j
    <3>1. c \notin subscribers[j] /\ watching[c] \in Jobs
      BY <1>1, <2>3 DEF StreamInv, RegisteredIsOpen, AllInv, TypeInv, OpenStreamHasJob
    <3> QED
      BY <1>2, <2>1, <2>3, <3>1, StreamUnchanged
  <2>4. CASE open[c] /\ watching[c] = j
    <3> DEFINE last == lastId[c][j]
               n == nextSeq[j]
    <3>1. /\ last \in Nat /\ backlog[c] \in Seq(Nat) /\ queue[c] \in Seq(Nat) /\ n \in Nat
          /\ InOrder(last, backlog[c], queue[c], n)
          /\ ~ HasSignal(queue[c]) /\ ~ isFinished[c]
      BY <1>1, <2>1, <2>4 DEF StreamOK, TypeOK
    <3>2. CASE c \in subscribers[j]
      <4>1. /\ InOrder(last, backlog[c], queue'[c], n)
            /\ HasSignal(queue'[c])
            /\ Newest(last, backlog[c], queue'[c]) = n - 1
        BY <1>2, <2>1, <2>4, <3>1, <3>2, SignalInOrder DEF StreamOK
      <4> QED
        BY <1>2, <2>4, <3>1, <3>2, <4>1 DEF StreamOK
    <3>3. CASE c \notin subscribers[j]
      BY <1>2, <2>4, <3>1, <3>3 DEF StreamOK
    <3> QED
      BY <3>2, <3>3
  <2> QED
    BY <2>2, <2>3, <2>4
<1>4. RegisteredIsOpen' /\ NumbersMatchJob'
  BY <1>1, <1>2 DEF StreamInv, RegisteredIsOpen, NumbersMatchJob
<1>5. EndedStreamSawLastEvent'
  <2>1. \A c \in Clients : ended[c] \subseteq Jobs
    BY <1>1 DEF TypeOK
  <2>2. \A c \in Clients : \A k \in ended[c] :
          k \in Jobs \ {j} /\ Finished(k) /\ lastId[c][k] = nextSeq[k] - 1
    BY <1>1, <2>1 DEF StreamInv, EndedStreamSawLastEvent
  <2> QED
    BY <1>2, <2>2 DEF EndedStreamSawLastEvent
<1> QED
  BY <1>3, <1>4, <1>5 DEF StreamInv

(* The end of a job that failed: SYNC_FAILED, then the signal, each where    *)
(* there is room.                                                            *)
LEMMA RaiseStep ==
  ASSUME AllInv, NEW j \in Jobs, RunnerRaises(j)
  PROVE  StreamInv'
<1> USE DEF streamVars, clientVars
<1>1. TypeOK /\ StreamInv /\ ~ Finished(j)
  BY DEF AllInv, TypeInv, JobInv, StatusMatchesTask, RunnerRaises, Finished, FinishedStatus
<1>2. /\ nextSeq[j] \in Nat \ {0}
      /\ nextSeq'[j] = nextSeq[j] + 1
      /\ \A k \in Jobs : k # j => nextSeq'[k] = nextSeq[k] /\ subscribers'[k] = subscribers[k]
      /\ subscribers'[j] = Kept(j)
      /\ \A c \in Clients :
           queue'[c] = IF c \in Kept(j) THEN Signalled(Offered(j, c)) ELSE queue[c]
      /\ \A k \in Jobs : k # j => (Finished(k)' <=> Finished(k))
      /\ Finished(j)'
      /\ UNCHANGED <<open, watching, backlog, isFinished, lastId, ended>>
  BY <1>1 DEF RunnerRaises, Record, TypeOK, Finished, FinishedStatus
<1>3. ASSUME NEW c \in Clients
      PROVE  StreamOK(c)'
  <2>1. StreamOK(c)
    BY <1>1 DEF StreamInv
  <2>2. CASE ~ open[c]
    BY <1>2, <2>2 DEF StreamOK
  <2>3. CASE open[c] /\ watching[c] # j
    <3>1. c \notin Kept(j) /\ watching[c] \in Jobs
      BY <1>1, <2>3
      DEF StreamInv, RegisteredIsOpen, AllInv, TypeInv, OpenStreamHasJob, Kept
    <3> QED
      BY <1>2, <2>1, <2>3, <3>1, StreamUnchanged
  <2>4. CASE open[c] /\ watching[c] = j
    <3> DEFINE last == lastId[c][j]
               n == nextSeq[j]
    <3>1. /\ last \in Nat /\ backlog[c] \in Seq(Nat) /\ queue[c] \in Seq(Nat)
          /\ InOrder(last, backlog[c], queue[c], n)
          /\ ~ HasSignal(queue[c]) /\ ~ isFinished[c]
      BY <1>1, <2>1, <2>4 DEF StreamOK, TypeOK
    <3>2. CASE c \in Kept(j)
      <4> DEFINE q == Append(queue[c], n)
      <4>1. Offered(j, c) = q /\ q \in Seq(Nat)
        BY <1>2, <3>1, <3>2 DEF Offered, Kept
      <4>2. /\ InOrder(last, backlog[c], q, n + 1)
            /\ ~ HasSignal(q)
            /\ Newest(last, backlog[c], q) = n
        BY <1>2, <3>1, AppendNumber
      <4> HIDE DEF q
      <4>3. /\ InOrder(last, backlog[c], Signalled(q), n + 1)
            /\ HasSignal(Signalled(q))
            /\ Newest(last, backlog[c], Signalled(q)) = n
        BY <1>2, <3>1, <4>1, <4>2, SignalInOrder
      <4>4. queue'[c] = Signalled(q) /\ n = (n + 1) - 1
        BY <1>2, <3>2, <4>1
      <4> QED
        BY <1>2, <2>4, <3>1, <3>2, <4>3, <4>4 DEF StreamOK
    <3>3. CASE c \notin Kept(j)
      <4>1. InOrder(last, backlog[c], queue[c], n + 1)
        BY <1>2, <3>1, LaterInOrder
      <4> QED
        BY <1>2, <2>4, <3>1, <3>3, <4>1 DEF StreamOK
    <3> QED
      BY <3>2, <3>3
  <2> QED
    BY <2>2, <2>3, <2>4
<1>4. RegisteredIsOpen'
  BY <1>1, <1>2 DEF StreamInv, RegisteredIsOpen, Kept
<1>5. NumbersMatchJob'
  BY <1>1, CacheNotEmpty DEF RunnerRaises, Record, TypeOK, StreamInv, NumbersMatchJob
<1>6. EndedStreamSawLastEvent'
  <2>1. \A c \in Clients : ended[c] \subseteq Jobs
    BY <1>1 DEF TypeOK
  <2>2. \A c \in Clients : \A k \in ended[c] :
          k \in Jobs \ {j} /\ Finished(k) /\ lastId[c][k] = nextSeq[k] - 1
    BY <1>1, <2>1 DEF StreamInv, EndedStreamSawLastEvent
  <2> QED
    BY <1>2, <2>2 DEF EndedStreamSawLastEvent
<1> QED
  BY <1>3, <1>4, <1>5, <1>6 DEF StreamInv

(* Registering and copying the cache in one step leaves no gap between them. *)
LEMMA SubscribeStep ==
  ASSUME AllInv, NEW c \in Clients, NEW j \in Jobs, Subscribe(c, j)
  PROVE  StreamInv'
<1> USE DEF managerVars, clientVars
<1>1. TypeOK /\ StreamInv /\ ~ open[c]
  BY DEF AllInv, TypeInv, Subscribe
<1>2. /\ open'[c] /\ watching'[c] = j /\ queue'[c] = << >>
      /\ backlog'[c] = CachedAfter(j, lastId[c][j])
      /\ isFinished'[c] = Finished(j)
      /\ subscribers'[j] = subscribers[j] \cup {c}
      /\ \A k \in Jobs : k # j => subscribers'[k] = subscribers[k]
      /\ \A d \in Clients : d # c =>
           /\ open'[d] = open[d] /\ watching'[d] = watching[d] /\ queue'[d] = queue[d]
           /\ backlog'[d] = backlog[d] /\ isFinished'[d] = isFinished[d]
      /\ UNCHANGED <<status, nextSeq, oldest, lastId, ended>>
  BY <1>1 DEF Subscribe, TypeOK
<1>3. StreamOK(c)'
  <2>1. /\ lastId[c][j] \in Nat /\ lastId[c][j] < nextSeq[j]
        /\ oldest[j] < nextSeq[j] \/ nextSeq[j] = 1
    BY <1>1 DEF TypeOK, StreamInv, NumbersMatchJob
  <2>2. /\ InOrder(lastId[c][j], backlog'[c], << >>, nextSeq[j])
        /\ Newest(lastId[c][j], backlog'[c], << >>) = nextSeq[j] - 1
    BY <1>1, <1>2, <2>1, CachedAfterInOrder
  <2>3. ~ HasSignal(<< >>)
    BY DEF HasSignal
  <2> QED
    BY <1>2, <2>2, <2>3 DEF StreamOK, Finished
<1>4. ASSUME NEW d \in Clients, d # c
      PROVE  StreamOK(d)'
  <2>1. StreamOK(d) /\ (open[d] => watching[d] \in Jobs)
    BY <1>1 DEF StreamInv, AllInv, TypeInv, OpenStreamHasJob
  <2>2. open[d] => (d \in subscribers'[watching[d]] <=> d \in subscribers[watching[d]])
    BY <1>2, <1>4, <2>1
  <2> QED
    BY <1>2, <1>4, <2>1, <2>2, StreamUnchanged DEF Finished
<1>5. RegisteredIsOpen'
  <2> SUFFICES ASSUME NEW k \in Jobs, NEW d \in subscribers'[k]
               PROVE  open'[d] /\ watching'[d] = k
    BY DEF RegisteredIsOpen
  <2>1. d \in Clients
    BY <1>1, <1>2 DEF TypeOK
  <2>2. CASE d = c
    <3>1. c \notin subscribers[k]
      BY <1>1 DEF StreamInv, RegisteredIsOpen
    <3> QED
      BY <1>2, <2>2, <3>1
  <2>3. CASE d # c
    <3>1. d \in subscribers[k]
      BY <1>2, <2>3
    <3> QED
      BY <1>1, <1>2, <2>1, <2>3, <3>1 DEF StreamInv, RegisteredIsOpen
  <2> QED
    BY <2>2, <2>3
<1>6. NumbersMatchJob' /\ EndedStreamSawLastEvent'
  BY <1>1, <1>2 DEF StreamInv, NumbersMatchJob, EndedStreamSawLastEvent, Finished
<1> QED
  BY <1>3, <1>4, <1>5, <1>6 DEF StreamInv

(* Yielding an event moves it from the stream to the client. *)
LEMMA DeliverStep ==
  ASSUME AllInv, NEW c \in Clients, YieldCached(c) \/ YieldQueued(c)
  PROVE  /\ StreamInv'
         /\ lastId'[c][watching[c]] > lastId[c][watching[c]]
<1> USE DEF managerVars, streamVars
<1> DEFINE j == watching[c]
           last == lastId[c][j]
           n == nextSeq[j]
           new == lastId'[c][j]
<1>1. /\ TypeOK /\ StreamInv /\ open[c] /\ j \in Jobs /\ StreamOK(c)
      /\ last \in Nat /\ n \in Nat /\ backlog[c] \in Seq(Nat) /\ queue[c] \in Seq(Nat)
      /\ InOrder(last, backlog[c], queue[c], n)
  <2>1. TypeOK /\ StreamInv /\ open[c] /\ StreamOK(c)
    BY DEF AllInv, TypeInv, StreamInv, YieldCached, YieldQueued, Listening
  <2>2. j \in Jobs
    BY <2>1 DEF AllInv, TypeInv, OpenStreamHasJob
  <2>3. last \in Nat /\ n \in Nat /\ backlog[c] \in Seq(Nat) /\ queue[c] \in Seq(Nat)
    BY <2>1, <2>2 DEF TypeOK
  <2>4. InOrder(last, backlog[c], queue[c], n)
    BY <2>1 DEF StreamOK
  <2> QED
    BY <2>1, <2>2, <2>3, <2>4
<1>2. /\ UNCHANGED <<status, nextSeq, oldest, subscribers, open, watching, isFinished, ended>>
      /\ \A d \in Clients : d # c =>
           lastId'[d] = lastId[d] /\ backlog'[d] = backlog[d] /\ queue'[d] = queue[d]
      /\ \A k \in Jobs : k # j => lastId'[c][k] = lastId[c][k]
  BY <1>1 DEF YieldCached, YieldQueued, Deliver, TypeOK
<1>3. /\ InOrder(new, backlog'[c], queue'[c], n)
      /\ Newest(new, backlog'[c], queue'[c]) = Newest(last, backlog[c], queue[c])
      /\ HasSignal(queue'[c]) <=> HasSignal(queue[c])
      /\ isFinished[c] => queue'[c] = queue[c]
      /\ last < new /\ new < n
  <2>1. CASE YieldCached(c)
    <3>1. /\ new = Head(backlog[c]) /\ backlog'[c] = Tail(backlog[c])
          /\ queue'[c] = queue[c] /\ backlog[c] # << >>
      BY <1>1, <2>1 DEF YieldCached, Deliver, TypeOK
    <3> QED
      BY <1>1, <3>1, DeliverCached
  <2>2. CASE YieldQueued(c)
    <3>1. /\ new = Head(queue[c]) /\ queue'[c] = Tail(queue[c])
          /\ backlog[c] = << >> /\ backlog'[c] = << >> /\ queue[c] # << >>
          /\ Head(queue[c]) # FinishSignal /\ ~ isFinished[c]
      BY <1>1, <2>2 DEF YieldQueued, Listening, Deliver, TypeOK
    <3> QED
      BY <1>1, <3>1, DeliverQueued
  <2> QED
    BY <2>1, <2>2
<1>4. StreamOK(c)'
  BY <1>1, <1>2, <1>3 DEF StreamOK, Finished
<1>5. ASSUME NEW d \in Clients, d # c
      PROVE  StreamOK(d)'
  BY <1>1, <1>2, <1>5, StreamUnchanged DEF StreamInv, Finished
<1>6. RegisteredIsOpen'
  BY <1>1, <1>2 DEF StreamInv, RegisteredIsOpen
<1>7. NumbersMatchJob'
  BY <1>1, <1>2, <1>3 DEF StreamInv, NumbersMatchJob
<1>8. EndedStreamSawLastEvent'
  <2>1. j \notin ended[c]
    \* an ended job has nothing newer to deliver
    <3>1. last # n - 1
      <4>1. new \in Nat
        BY <1>1, <1>2 DEF YieldCached, YieldQueued, Listening, Deliver, TypeOK
      <4> HIDE DEF last, new, n
      <4> QED
        BY <1>1, <1>3, <4>1
    <3> QED
      BY <1>1, <3>1 DEF StreamInv, EndedStreamSawLastEvent
  <2>2. \A d \in Clients : ended[d] \subseteq Jobs
    BY <1>1 DEF TypeOK
  <2> QED
    BY <1>1, <1>2, <2>1, <2>2 DEF StreamInv, EndedStreamSawLastEvent, Finished
<1> QED
  BY <1>3, <1>4, <1>5, <1>6, <1>7, <1>8 DEF StreamInv

(* Closing a stream touches no other. *)
LEMMA CloseStep ==
  ASSUME AllInv, NEW c \in Clients, open[c], CloseStream(c),
         UNCHANGED <<managerVars, lastId>>
  PROVE  /\ \A d \in Clients : StreamOK(d)'
         /\ RegisteredIsOpen'
         /\ NumbersMatchJob'
<1> USE DEF managerVars
<1>1. TypeOK /\ StreamInv /\ watching[c] \in Jobs
  BY DEF AllInv, TypeInv, OpenStreamHasJob
<1>2. /\ ~ open'[c]
      /\ \A k \in Jobs : subscribers'[k] = IF k = watching[c] THEN subscribers[k] \ {c}
                                            ELSE subscribers[k]
      /\ \A d \in Clients : d # c =>
           /\ open'[d] = open[d] /\ watching'[d] = watching[d] /\ queue'[d] = queue[d]
           /\ backlog'[d] = backlog[d] /\ isFinished'[d] = isFinished[d]
  BY <1>1 DEF CloseStream, TypeOK
<1>3. StreamOK(c)'
  BY <1>2 DEF StreamOK
<1>4. ASSUME NEW d \in Clients, d # c
      PROVE  StreamOK(d)'
  <2>1. StreamOK(d) /\ (open[d] => watching[d] \in Jobs)
    BY <1>1 DEF StreamInv, AllInv, TypeInv, OpenStreamHasJob
  <2>2. open[d] => (d \in subscribers'[watching[d]] <=> d \in subscribers[watching[d]])
    BY <1>2, <1>4, <2>1
  <2> QED
    BY <1>2, <1>4, <2>1, <2>2, StreamUnchanged DEF Finished
<1>5. RegisteredIsOpen'
  <2> SUFFICES ASSUME NEW k \in Jobs, NEW d \in subscribers'[k]
               PROVE  open'[d] /\ watching'[d] = k
    BY DEF RegisteredIsOpen
  <2>0. d \in subscribers[k]
    BY <1>2
  <2>1. d \in Clients /\ open[d] /\ watching[d] = k
    BY <1>1, <2>0 DEF TypeOK, StreamInv, RegisteredIsOpen
  <2>2. d # c
    BY <1>2, <2>1
  <2> QED
    BY <1>2, <2>1, <2>2
<1>6. NumbersMatchJob'
  BY <1>1 DEF StreamInv, NumbersMatchJob
<1> QED
  BY <1>3, <1>4, <1>5, <1>6

(* A stream that ends by itself has nothing left and no newer event to wait  *)
(* for: it found the job finished, or has come to the signal.                *)
LEMMA EndStep ==
  ASSUME AllInv, NEW c \in Clients, ReturnAfterCache(c) \/ ReturnOnSignal(c)
  PROVE  /\ StreamInv'
         /\ open[c] /\ EndStream(c)
         /\ Finished(watching[c])
         /\ lastId[c][watching[c]] = nextSeq[watching[c]] - 1
<1> USE DEF managerVars
<1> DEFINE j == watching[c]
<1>1. /\ TypeOK /\ StreamInv /\ open[c] /\ EndStream(c) /\ CloseStream(c) /\ j \in Jobs
      /\ StreamOK(c) /\ backlog[c] = << >> /\ queue[c] \in Seq(Nat)
  BY DEF AllInv, TypeInv, OpenStreamHasJob, TypeOK, StreamInv, ReturnAfterCache,
         ReturnOnSignal, Listening, EndStream
<1>2. Finished(j) /\ lastId[c][j] = nextSeq[j] - 1
  <2>1. CASE ReturnAfterCache(c)
    BY <1>1, <2>1 DEF ReturnAfterCache, StreamOK, Newest, NewestCached
  <2>2. CASE ReturnOnSignal(c)
    <3>1. /\ queue[c] # << >> /\ queue[c][1] = FinishSignal
          /\ Len(queue[c]) \in Nat /\ Len(queue[c]) >= 1
      BY <1>1, <2>2, TailEntries DEF ReturnOnSignal, Listening
    <3>2. HasSignal(queue[c])
      BY <3>1 DEF HasSignal
    <3>3. Len(queue[c]) = 1
      BY <1>1, <2>2, <3>1, SignalIsLast DEF StreamOK, ReturnOnSignal, Listening
    <3>4. Newest(lastId[c][j], backlog[c], queue[c]) = lastId[c][j]
      BY <1>1, <3>1, <3>3 DEF Newest, NewestCached
    <3> QED
      BY <1>1, <3>2, <3>4 DEF StreamOK
  <2> QED
    BY <2>1, <2>2
<1>3. (\A d \in Clients : StreamOK(d)') /\ RegisteredIsOpen' /\ NumbersMatchJob'
  <2>1. UNCHANGED <<managerVars, lastId>>
    BY <1>1 DEF EndStream
  <2> QED
    BY <1>1, <2>1, CloseStep
<1>4. EndedStreamSawLastEvent'
  <2>1. /\ ended' = [ended EXCEPT ![c] = @ \cup {j}]
        /\ UNCHANGED <<status, nextSeq, lastId>>
    BY <1>1 DEF EndStream
  <2> QED
    BY <1>1, <1>2, <2>1 DEF StreamInv, EndedStreamSawLastEvent, TypeOK, Finished
<1> QED
  BY <1>1, <1>2, <1>3, <1>4 DEF StreamInv

LEMMA StreamNext == AllInv /\ [Next]_vars => StreamInv'
<1> SUFFICES ASSUME AllInv, [Next]_vars
             PROVE  StreamInv'
  OBVIOUS
<1>1. TypeOK /\ JobInv /\ StreamInv
  BY DEF AllInv, TypeInv
<1>2. ASSUME NEW j \in Jobs, NEW g \in Groups \cup {NoGroup}, StartJob(j, g)
      PROVE  StreamInv'
  BY <1>1, <1>2, StatusStep
  DEF StartJob, CreateJob, TypeOK, Finished, FinishedStatus, streamVars, clientVars
<1>3. ASSUME NEW j \in Jobs, TaskStarts(j) \/ TaskNeverStarts(j)
      PROVE  StreamInv'
  BY <1>1, <1>3, StatusStep
  DEF TaskStarts, TaskNeverStarts, TypeOK, JobInv, StatusMatchesTask, Finished, FinishedStatus,
      streamVars, clientVars
<1>4. ASSUME NEW j \in Jobs, RunnerYields(j)
      PROVE  StreamInv'
  BY <1>4, YieldStep
<1>5. ASSUME NEW j \in Jobs, RunnerReturns(j) \/ RunnerCancelled(j)
      PROVE  StreamInv'
  BY <1>5, FinishStep DEF RunnerReturns, RunnerCancelled, FinishedStatus
<1>6. ASSUME NEW j \in Jobs, RunnerRaises(j)
      PROVE  StreamInv'
  BY <1>6, RaiseStep
<1>7. ASSUME Shutdown \/ ShutdownReturns
      PROVE  StreamInv'
  BY <1>1, <1>7, StatusStep DEF Shutdown, ShutdownReturns, Finished, streamVars, clientVars
<1>8. ASSUME NEW c \in Clients, NEW j \in Jobs, Subscribe(c, j)
      PROVE  StreamInv'
  BY <1>8, SubscribeStep
<1>9. ASSUME NEW c \in Clients, StreamStep(c)
      PROVE  StreamInv'
  BY <1>9, DeliverStep, EndStep DEF StreamStep
<1>10. ASSUME NEW c \in Clients, Disconnect(c)
       PROVE  StreamInv'
  <2>1. open[c] /\ CloseStream(c) /\ UNCHANGED <<managerVars, clientVars>>
    BY <1>10 DEF Disconnect
  <2>2. UNCHANGED <<managerVars, lastId, ended>>
    BY <2>1 DEF clientVars
  <2>3. EndedStreamSawLastEvent'
    BY <1>1, <2>2 DEF StreamInv, EndedStreamSawLastEvent, Finished, managerVars
  <2> QED
    BY <2>1, <2>2, <2>3, CloseStep DEF StreamInv
<1>11. ASSUME NEW c \in Clients, Reload(c)
       PROVE  StreamInv'
  <2>1. /\ ~ open[c] /\ ended'[c] = {} /\ \A j \in Jobs : lastId'[c][j] = 0
        /\ \A d \in Clients : d # c => lastId'[d] = lastId[d] /\ ended'[d] = ended[d]
        /\ UNCHANGED <<status, nextSeq, oldest, subscribers, open, watching, backlog,
                       isFinished, queue>>
    BY <1>1, <1>11 DEF Reload, TypeOK, managerVars, streamVars
  <2>2. \A d \in Clients : StreamOK(d)'
    <3> TAKE d \in Clients
    <3>1. CASE d = c
      BY <2>1, <3>1 DEF StreamOK
    <3>2. CASE d # c
      BY <1>1, <2>1, <3>2, StreamUnchanged DEF StreamInv, Finished
    <3> QED
      BY <3>1, <3>2
  <2>3. \A j \in Jobs : 0 < nextSeq[j]
    BY <1>1 DEF TypeOK
  <2> QED
    BY <1>1, <2>1, <2>2, <2>3
    DEF StreamInv, RegisteredIsOpen, NumbersMatchJob, EndedStreamSawLastEvent, Finished
<1>12. CASE UNCHANGED vars \/ \E g \in Groups : ReuseJob(g)
  BY <1>1, <1>12, StatusStep DEF ReuseJob, vars, Finished, streamVars, clientVars
<1> QED
  BY <1>2, <1>3, <1>4, <1>5, <1>6, <1>7, <1>8, <1>9, <1>10, <1>11, <1>12 DEF Next, TaskStep

LEMMA AllInvariant == Spec => []AllInv
<1>1. Init => AllInv
  BY TypeInit, JobInit, StreamInit DEF AllInv
<1>2. AllInv /\ [Next]_vars => AllInv'
  BY TypeNext, JobNext, StreamNext DEF AllInv, TypeInv
<1> QED
  BY <1>1, <1>2, PTL DEF Spec

(* A console that is told the end of a job has its last event. *)
THEOREM EndedStreamsAreComplete == Spec => []EndedStreamSawLastEvent
<1>1. AllInv => EndedStreamSawLastEvent
  BY DEF AllInv, StreamInv
<1> QED
  BY <1>1, AllInvariant, PTL

(* A prefix of a sequence, entry by entry. *)
LEMMA PrefixEntries ==
  ASSUME NEW q \in Seq(Nat), NEW r \in Nat, r <= Len(q)
  PROVE  /\ SubSeq(q, 1, r) \in Seq(Nat)
         /\ Len(SubSeq(q, 1, r)) = r
         /\ \A i \in 1 .. r : SubSeq(q, 1, r)[i] = q[i]
<1>1. SubSeq(q, 1, r) \in Seq(Nat)
  OBVIOUS
<1>2. Len(SubSeq(q, 1, r)) = r
  OBVIOUS
<1>3. \A i \in 1 .. r : SubSeq(q, 1, r)[i] = q[i]
  OBVIOUS
<1> QED
  BY <1>1, <1>2, <1>3

(* The numbers of a queue, entry by entry. *)
LEMMA NumbersOfQueue ==
  ASSUME NEW last \in Nat, NEW bl \in Seq(Nat), NEW q \in Seq(Nat), NEW n \in Nat,
         InOrder(last, bl, q, n)
  PROVE  /\ Numbers(q) \in Seq(Nat)
         /\ Len(Numbers(q)) <= Len(q)
         /\ \A i \in 1 .. Len(Numbers(q)) : Numbers(q)[i] = q[i] /\ q[i] # FinishSignal
<1>1. CASE q = << >>
  BY <1>1 DEF Numbers
<1>2. CASE q # << >> /\ q[Len(q)] = FinishSignal
  <2>1. Len(q) \in Nat /\ Len(q) >= 1
    BY <1>2, TailEntries
  <2>2. Numbers(q) = SubSeq(q, 1, Len(q) - 1)
    BY <1>2 DEF Numbers
  <2> DEFINE r == Len(q) - 1
  <2>3. r \in Nat /\ r <= Len(q)
    BY <2>1
  <2>4. /\ Numbers(q) \in Seq(Nat)
        /\ Len(Numbers(q)) = r
        /\ \A i \in 1 .. r : Numbers(q)[i] = q[i]
    <3> HIDE DEF r
    <3>1. Numbers(q) = SubSeq(q, 1, r)
      BY <2>2 DEF r
    <3>2. /\ SubSeq(q, 1, r) \in Seq(Nat)
          /\ Len(SubSeq(q, 1, r)) = r
          /\ \A i \in 1 .. r : SubSeq(q, 1, r)[i] = q[i]
      BY <2>3, PrefixEntries
    <3> QED
      BY <3>1, <3>2, Zenon
  <2>7. \A i \in 1 .. Len(q) - 1 : i \in 1 .. Len(q) /\ Len(q) \in 1 .. Len(q) /\ i < Len(q)
    BY <2>1
  <2>8. \A i \in 1 .. Len(q) - 1 : q[i] # FinishSignal
    BY <2>7 DEF InOrder
  <2> QED
    BY <2>1, <2>4, <2>8
<1>3. CASE q # << >> /\ q[Len(q)] # FinishSignal
  <2>1. Len(q) \in Nat /\ Len(q) >= 1 /\ Numbers(q) = q
    BY <1>3, TailEntries DEF Numbers
  <2>2. \A i \in 1 .. Len(q) : i = Len(q) \/ (Len(q) \in 1 .. Len(q) /\ i < Len(q))
    BY <2>1
  <2>3. \A i \in 1 .. Len(q) : q[i] # FinishSignal
    BY <1>3, <2>2 DEF InOrder
  <2> QED
    BY <2>1, <2>3
<1> QED
  BY <1>1, <1>2, <1>3

(* The entries of a feed: what was received last, the cache, the queue. *)
LEMMA FeedEntries ==
  ASSUME NEW last \in Nat, NEW bl \in Seq(Nat), NEW nq \in Seq(Nat),
         NEW e, e = <<last>> \o bl \o nq
  PROVE  /\ Len(e) = 1 + Len(bl) + Len(nq)
         /\ e[1] = last
         /\ \A k \in 1 .. Len(bl) : e[1 + k] = bl[k]
         /\ \A k \in 1 .. Len(nq) : e[1 + Len(bl) + k] = nq[k]
<1> DEFINE f == e
           l == <<last>>
           g == l \o bl
           b == Len(bl)
           m == Len(nq)
<1>1. l \in Seq(Nat) /\ Len(l) = 1 /\ l[1] = last
  OBVIOUS
<1> HIDE DEF l
<1>2. b \in Nat /\ m \in Nat
  OBVIOUS
<1>3. /\ g \in Seq(Nat) /\ Len(g) = Len(l) + Len(bl)
      /\ \A i \in 1 .. Len(l) + Len(bl) : g[i] = IF i <= Len(l) THEN l[i] ELSE bl[i - Len(l)]
  BY <1>1, ConcatProperties
<1>4. f = g \o nq
  BY DEF l
<1> HIDE DEF g
<1>5. /\ Len(f) = Len(g) + Len(nq)
      /\ \A i \in 1 .. Len(g) + Len(nq) : f[i] = IF i <= Len(g) THEN g[i] ELSE nq[i - Len(g)]
  <2>1. /\ Len(g \o nq) = Len(g) + Len(nq)
        /\ \A i \in 1 .. Len(g) + Len(nq) :
             (g \o nq)[i] = IF i <= Len(g) THEN g[i] ELSE nq[i - Len(g)]
    BY <1>3, ConcatProperties, Zenon
  <2> QED
    BY <1>4, <2>1, Zenon
<1> HIDE DEF b, m
<1>6. /\ Len(g) = 1 + b
      /\ \A i \in 1 .. 1 + b : g[i] = IF i <= 1 THEN l[i] ELSE bl[i - 1]
  BY <1>1, <1>3 DEF b
<1>7. /\ Len(f) = 1 + b + m
      /\ \A i \in 1 .. 1 + b + m : f[i] = IF i <= 1 + b THEN g[i] ELSE nq[i - (1 + b)]
  BY <1>5, <1>6 DEF m
<1>8. f[1] = last
  BY <1>1, <1>2, <1>6, <1>7
<1>9. ASSUME NEW k \in 1 .. b
      PROVE  f[1 + k] = bl[k]
  <2>1. /\ 1 + k \in 1 .. 1 + b /\ 1 + k \in 1 .. 1 + b + m /\ 1 + k <= 1 + b
        /\ ~ (1 + k <= 1) /\ (1 + k) - 1 = k
    BY <1>2
  <2> QED
    BY <1>6, <1>7, <2>1
<1>10. ASSUME NEW k \in 1 .. m
       PROVE  f[1 + b + k] = nq[k]
  <2>1. /\ 1 + b + k \in 1 .. 1 + b + m
        /\ ~ (1 + b + k <= 1 + b) /\ (1 + b + k) - (1 + b) = k
    BY <1>2
  <2> QED
    BY <1>7, <2>1
<1> QED
  BY <1>7, <1>8, <1>9, <1>10 DEF b, m

(* A stream whose numbers are in order is read in increasing order. *)
LEMMA FeedIncreases ==
  ASSUME NEW last \in Nat, NEW bl \in Seq(Nat), NEW q \in Seq(Nat), NEW n \in Nat,
         InOrder(last, bl, q, n),
         NEW f, f = <<last>> \o bl \o Numbers(q),
         NEW i \in 1 .. Len(f) - 1
  PROVE  f[i] < f[i + 1]
<1> DEFINE nq == Numbers(q)
           b == Len(bl)
           m == Len(nq)
<1>1. /\ nq \in Seq(Nat) /\ m <= Len(q)
      /\ \A k \in 1 .. m : nq[k] = q[k] /\ q[k] # FinishSignal
  BY NumbersOfQueue
<1>2. f = <<last>> \o bl \o nq
  OBVIOUS
<1> HIDE DEF nq
<1>3. b \in Nat /\ m \in Nat /\ Len(q) \in Nat
  BY <1>1
<1>4. /\ Len(f) = 1 + b + m
      /\ f[1] = last
      /\ \A k \in 1 .. b : f[1 + k] = bl[k]
      /\ \A k \in 1 .. m : f[1 + b + k] = nq[k]
  <2> DEFINE e == <<last>> \o bl \o nq
  <2>1. nq \in Seq(Nat)
    BY <1>1
  <2>2. /\ Len(e) = 1 + b + m
        /\ e[1] = last
        /\ \A k \in 1 .. b : e[1 + k] = bl[k]
        /\ \A k \in 1 .. m : e[1 + b + k] = nq[k]
    BY <2>1, FeedEntries
  <2>3. f = e
    BY <1>2
  <2> HIDE DEF e, b, m
  <2> QED
    BY <2>2, <2>3, Zenon
<1>5. /\ \A k \in 1 .. b : last < bl[k]
      /\ \A h, k \in 1 .. b : h < k => bl[h] < bl[k]
  BY DEF InOrder
<1>6. \A k \in 1 .. m : k \in 1 .. Len(q)
  BY <1>1, <1>3
<1>7. \A k \in 1 .. m : /\ last < nq[k]
                         /\ \A h \in 1 .. b : bl[h] < nq[k]
  BY <1>1, <1>6 DEF InOrder
<1>8. \A h, k \in 1 .. m : h < k => nq[h] < nq[k]
  BY <1>1, <1>6 DEF InOrder
<1> HIDE DEF b, m
<1>9. i \in Nat /\ i >= 1 /\ i <= b + m
  BY <1>3, <1>4
<1>10. CASE i = 1 /\ b >= 1
  <2>1. 1 \in 1 .. b /\ i + 1 = 1 + 1
    BY <1>3, <1>10
  <2> QED
    BY <1>4, <1>5, <1>10, <2>1
<1>11. CASE i = 1 /\ ~ (b >= 1)
  <2>1. 1 \in 1 .. m /\ i + 1 = 1 + b + 1
    BY <1>3, <1>9, <1>11
  <2> QED
    BY <1>4, <1>7, <1>11, <2>1
<1>12. CASE i # 1 /\ i <= b
  <2>1. i - 1 \in 1 .. b /\ i \in 1 .. b /\ i - 1 < i /\ 1 + (i - 1) = i /\ i + 1 = 1 + i
    BY <1>3, <1>9, <1>12
  <2>2. f[i] = bl[i - 1] /\ f[i + 1] = bl[i]
    BY <1>4, <2>1
  <2> QED
    BY <1>5, <2>1, <2>2
<1>13. CASE i # 1 /\ i = b + 1
  <2>1. b \in 1 .. b /\ 1 \in 1 .. m /\ i = 1 + b /\ i + 1 = 1 + b + 1
    BY <1>3, <1>9, <1>13
  <2>2. f[i] = bl[b] /\ f[i + 1] = nq[1]
    BY <1>4, <2>1
  <2> QED
    BY <1>7, <2>1, <2>2
<1>14. CASE i # 1 /\ i > b + 1
  <2> DEFINE k == i - b - 1
  <2>1. /\ k \in 1 .. m /\ k + 1 \in 1 .. m /\ k < k + 1
        /\ 1 + b + k = i /\ 1 + b + (k + 1) = i + 1
    BY <1>3, <1>9, <1>14
  <2> HIDE DEF k
  <2>2. f[i] = nq[k] /\ f[i + 1] = nq[k + 1]
    BY <1>4, <2>1
  <2> QED
    BY <1>8, <2>1, <2>2
<1> QED
  BY <1>3, <1>9, <1>10, <1>11, <1>12, <1>13, <1>14

(* No event is repeated or swapped, across cache, queue and reconnection. *)
THEOREM StreamsComeInOrder == Spec => []StreamInOrder
<1>1. AllInv => StreamInOrder
  <2> SUFFICES ASSUME AllInv, NEW c \in Clients, open[c],
                      NEW i \in 1 .. Len(Feed(c)) - 1
               PROVE  Feed(c)[i] < Feed(c)[i + 1]
    BY DEF StreamInOrder
  <2>1. TypeOK /\ watching[c] \in Jobs /\ StreamOK(c)
    BY DEF AllInv, TypeInv, OpenStreamHasJob, StreamInv
  <2>2. /\ lastId[c][watching[c]] \in Nat /\ nextSeq[watching[c]] \in Nat
        /\ backlog[c] \in Seq(Nat) /\ queue[c] \in Seq(Nat)
    BY <2>1 DEF TypeOK
  <2>3. InOrder(lastId[c][watching[c]], backlog[c], queue[c], nextSeq[watching[c]])
    BY <2>1 DEF StreamOK
  <2> QED
    BY <2>2, <2>3, FeedIncreases DEF Feed
<1> QED
  BY <1>1, AllInvariant, PTL

-----------------------------------------------------------------------------
(* A registered stream has no gaps but those the cache and the finish signal *)
(* explain.  The invariant about the numbers of one stream: the backlog and  *)
(* the queue are each consecutive, the queue runs up to the newest event, at *)
(* most ev events are missing between backlog and queue, and what is missing *)
(* before the backlog is older than the oldest event cached.                 *)

(* The entries of a queue that are events. *)
Count(q) == IF HasSignal(q) THEN Len(q) - 1 ELSE Len(q)

(* The first event the cache can still give after last. *)
FirstCached(last, old) == IF old > last THEN old ELSE last + 1

NoGap(last, bl, q, n, old, ev) ==
  /\ \A i \in 1 .. Len(bl) : bl[i] = bl[1] + i - 1
  /\ \A k \in 1 .. Count(q) : q[k] + Count(q) + 1 = n + k
  /\ bl # << >> => n <= bl[Len(bl)] + 1 + Count(q) + ev
  /\ n <= FirstCached(last, old) + Len(bl) + Count(q) + ev

(* 1 once the finish signal may have pushed an event out of the queue. *)
Evicted(c, j) == IF Finished(j) /\ ~ isFinished[c] THEN 1 ELSE 0

GapInv ==
  \A j \in Jobs : \A c \in subscribers[j] :
    NoGap(lastId[c][j], backlog[c], queue[c], nextSeq[j], oldest[j], Evicted(c, j))

(* A signal takes one place of the queue. *)
LEMMA CountType ==
  ASSUME NEW q \in Seq(Nat)
  PROVE  Count(q) \in Nat /\ Count(q) <= Len(q)
<1>1. HasSignal(q) => Len(q) >= 1
  BY DEF HasSignal
<1> QED
  BY <1>1 DEF Count

(* The cache drops entries: what is missing may only grow older. *)
LEMMA GapOlderCache ==
  ASSUME NEW last \in Nat, NEW bl \in Seq(Nat), NEW q \in Seq(Nat), NEW n \in Nat,
         NEW old \in Nat, NEW new \in Nat, NEW ev \in Nat,
         old <= new, NoGap(last, bl, q, n, old, ev)
  PROVE  NoGap(last, bl, q, n, new, ev)
<1>1. FirstCached(last, old) <= FirstCached(last, new)
  BY DEF FirstCached
<1>2. /\ Count(q) \in Nat /\ Len(bl) \in Nat
      /\ FirstCached(last, old) \in Nat /\ FirstCached(last, new) \in Nat
  BY CountType DEF FirstCached
<1>3. n <= FirstCached(last, new) + Len(bl) + Count(q) + ev
  BY <1>1, <1>2 DEF NoGap
<1> QED
  BY <1>3 DEF NoGap

(* _emit to a queue with room. *)
LEMMA GapAppend ==
  ASSUME NEW last \in Nat, NEW bl \in Seq(Nat), NEW q \in Seq(Nat), NEW n \in Nat,
         NEW old \in Nat, NEW ev \in Nat,
         ~ HasSignal(q), ~ HasSignal(Append(q, n)), NoGap(last, bl, q, n, old, ev)
  PROVE  NoGap(last, bl, Append(q, n), n + 1, old, ev)
<1> DEFINE r == Append(q, n)
<1>0. PICK m \in Nat : m = Len(q)
  OBVIOUS
<1>1. /\ Len(bl) \in Nat /\ FirstCached(last, old) \in Nat
      /\ Count(q) = m /\ Count(r) = m + 1
      /\ r[m + 1] = n /\ \A k \in 1 .. m : r[k] = q[k] /\ q[k] \in Nat
  BY <1>0 DEF Count, FirstCached
<1>2. bl # << >> => bl[Len(bl)] \in Nat
  BY EmptySeq
<1> HIDE DEF r
<1>3. \A k \in 1 .. Count(r) : r[k] + Count(r) + 1 = (n + 1) + k
  <2> TAKE k \in 1 .. Count(r)
  <2>1. CASE k = m + 1
    BY <1>1, <2>1, SMTT(30)
  <2>2. CASE k # m + 1
    <3>1. k \in 1 .. m
      BY <1>1, <2>2
    <3>2. q[k] + m + 1 = n + k
      BY <1>1, <3>1 DEF NoGap
    <3> QED
      BY <1>1, <3>1, <3>2, SMTT(30)
  <2> QED
    BY <2>1, <2>2
<1>4. bl # << >> => n + 1 <= bl[Len(bl)] + 1 + Count(r) + ev
  <2> HAVE bl # << >>
  <2>1. PICK e \in Nat : e = bl[Len(bl)]
    BY <1>2
  <2>2. n <= e + 1 + m + ev
    BY <1>1, <2>1 DEF NoGap
  <2>3. n + 1 <= e + 1 + (m + 1) + ev
    BY <2>2
  <2> QED
    BY <1>1, <2>1, <2>3
<1>5. n + 1 <= FirstCached(last, old) + Len(bl) + Count(r) + ev
  BY <1>1 DEF NoGap
<1> QED
  BY <1>3, <1>4, <1>5 DEF NoGap, r

(* _put_finish_signal: the oldest entry of a full queue is the one event more *)
(* that may be missing.                                                       *)
LEMMA GapSignal ==
  ASSUME NEW last \in Nat, NEW bl \in Seq(Nat), NEW q \in Seq(Nat), NEW n \in Nat,
         NEW old \in Nat,
         ~ HasSignal(q), HasSignal(Signalled(q)), NoGap(last, bl, q, n, old, 0)
  PROVE  NoGap(last, bl, Signalled(q), n, old, 1)
<1> DEFINE s == Signalled(q)
<1>0. PICK m \in Nat : m = Len(q)
  OBVIOUS
<1>1. Len(bl) \in Nat /\ FirstCached(last, old) \in Nat /\ Count(q) = m
  BY <1>0 DEF Count, FirstCached
<1>2. bl # << >> => bl[Len(bl)] \in Nat
  BY EmptySeq
<1>3. \/ Count(s) = m /\ \A k \in 1 .. m : s[k] = q[k]
      \/ Count(s) = m - 1 /\ m >= 1 /\ \A k \in 1 .. m - 1 : s[k] = q[k + 1]
  <2>1. CASE Len(q) = QueueCap
    <3>1. q # << >> /\ m >= 1
      BY <1>0, <2>1, EmptySeq
    <3> DEFINE r == Tail(q)
    <3>2. r \in Seq(Nat) /\ Len(r) = m - 1 /\ \A k \in 1 .. m - 1 : r[k] = q[k + 1]
      BY <1>0, <3>1, TailEntries
    <3>3. s = Append(r, FinishSignal)
      BY <2>1 DEF Signalled
    <3> HIDE DEF r
    <3>4. Len(s) = m /\ \A k \in 1 .. m - 1 : s[k] = r[k]
      BY <1>1, <3>2, <3>3
    <3> QED
      BY <3>1, <3>2, <3>4 DEF Count
  <2>2. CASE Len(q) # QueueCap
    <3>1. s = Append(q, FinishSignal)
      BY <2>2 DEF Signalled
    <3>2. Len(s) = m + 1 /\ \A k \in 1 .. m : s[k] = q[k]
      BY <1>0, <3>1
    <3>3. Count(s) = m
      BY <3>2 DEF Count
    <3> QED
      BY <3>2, <3>3
  <2> QED
    BY <2>1, <2>2
<1>4. \A k \in 1 .. m : q[k] \in Nat /\ q[k] + m + 1 = n + k
  BY <1>0, <1>1 DEF NoGap
<1> HIDE DEF s
<1>5. \A k \in 1 .. Count(s) : s[k] + Count(s) + 1 = n + k
  <2>1. CASE Count(s) = m /\ \A k \in 1 .. m : s[k] = q[k]
    BY <1>1, <1>4, <2>1
  <2>2. CASE Count(s) = m - 1 /\ m >= 1 /\ \A k \in 1 .. m - 1 : s[k] = q[k + 1]
    <3> TAKE k \in 1 .. Count(s)
    <3>1. k \in 1 .. m - 1 /\ k + 1 \in 1 .. m
      BY <1>1, <2>2
    <3>2. s[k] = q[k + 1] /\ q[k + 1] \in Nat /\ q[k + 1] + m + 1 = n + (k + 1)
      BY <1>4, <2>2, <3>1
    <3>3. \A e \in Nat : e + m + 1 = n + (k + 1) => e + (m - 1) + 1 = n + k
      OBVIOUS
    <3> QED
      BY <2>2, <3>2, <3>3
  <2> QED
    BY <1>3, <2>1, <2>2
<1>6. Count(s) \in Nat /\ m <= Count(s) + 1
  BY <1>1, <1>3
<1>7. bl # << >> => n <= bl[Len(bl)] + 1 + Count(s) + 1
  <2> HAVE bl # << >>
  <2>1. PICK e \in Nat : e = bl[Len(bl)]
    BY <1>2
  <2>2. PICK t \in Nat : t = Count(s)
    BY <1>6
  <2>3. n <= e + 1 + m + 0
    BY <1>1, <2>1 DEF NoGap
  <2>4. n <= e + 1 + t + 1
    BY <1>6, <2>2, <2>3
  <2> QED
    BY <2>1, <2>2, <2>4
<1>8. n <= FirstCached(last, old) + Len(bl) + Count(s) + 1
  BY <1>1, <1>6 DEF NoGap
<1> QED
  BY <1>5, <1>7, <1>8 DEF NoGap, s

(* The generator yields a cached event: what lies behind it is consecutive   *)
(* up to the handover to the queue.                                          *)
LEMMA GapDeliverCached ==
  ASSUME NEW last \in Nat, NEW bl \in Seq(Nat), NEW q \in Seq(Nat), NEW n \in Nat,
         NEW old \in Nat, NEW ev \in Nat,
         bl # << >>, NoGap(last, bl, q, n, old, ev)
  PROVE  NoGap(Head(bl), Tail(bl), q, n, old, ev)
<1> DEFINE r == Tail(bl)
<1>1. PICK h \in Nat : h = Head(bl)
  BY TailEntries
<1>2. PICK b \in Nat : b = Len(bl)
  OBVIOUS
<1>3. PICK m \in Nat : m = Count(q)
  BY CountType
<1>4. /\ Len(r) = b - 1 /\ b >= 1
      /\ \A i \in 1 .. b - 1 : r[i] = bl[i + 1]
      /\ h = bl[1]
      /\ r = << >> <=> b = 1
  BY <1>1, <1>2, TailEntries
<1>5. \A i \in 1 .. b : bl[i] = h + i - 1
  BY <1>4, <1>2 DEF NoGap
<1>6. bl[b] = h + b - 1
  BY <1>4, <1>5
<1>7. n <= (h + b - 1) + 1 + m + ev
  BY <1>3, <1>6, <1>2 DEF NoGap
<1>8. \A k \in 1 .. m : q[k] + m + 1 = n + k
  BY <1>3 DEF NoGap
<1> HIDE DEF r
<1>9. \A i \in 1 .. b - 1 : r[i] = h + i
  <2> TAKE i \in 1 .. b - 1
  <2>1. i + 1 \in 1 .. b /\ i \in Nat
    BY <1>4
  <2>2. bl[i + 1] = h + (i + 1) - 1
    BY <1>5, <2>1
  <2> QED
    BY <1>4, <2>1, <2>2
<1>10. \A i \in 1 .. Len(r) : r[i] = r[1] + i - 1
  <2> TAKE i \in 1 .. Len(r)
  <2>1. i \in 1 .. b - 1 /\ 1 \in 1 .. b - 1 /\ i \in Nat
    BY <1>4
  <2>2. r[i] = h + i /\ r[1] = h + 1
    BY <1>9, <2>1
  <2> QED
    BY <1>4, <2>1, <2>2
<1>11. r # << >> => n <= r[Len(r)] + 1 + m + ev
  <2> HAVE r # << >>
  <2>1. b - 1 \in 1 .. b - 1
    BY <1>4
  <2>2. r[b - 1] = h + (b - 1)
    BY <1>9, <2>1
  <2>3. n <= (h + (b - 1)) + 1 + m + ev
    BY <1>7
  <2> QED
    BY <1>4, <2>2, <2>3
<1>12. n <= FirstCached(h, old) + Len(r) + m + ev
  <2>1. PICK f \in Nat : f = FirstCached(h, old) /\ h + 1 <= f
    BY DEF FirstCached
  <2>2. n <= f + (b - 1) + m + ev
    <3>1. h + 1 <= f
      BY <2>1
    <3> QED
      BY <1>7, <3>1
  <2> QED
    BY <1>4, <2>1, <2>2
<1> QED
  BY <1>3, <1>8, <1>10, <1>11, <1>12, <1>1 DEF NoGap, r

(* The generator yields an event of the queue: nothing is missing behind it. *)
LEMMA GapDeliverQueued ==
  ASSUME NEW last \in Nat, NEW q \in Seq(Nat), NEW n \in Nat, NEW old \in Nat,
         NEW ev \in Nat, NEW bl, bl = << >>,
         q # << >>, Head(q) # FinishSignal, HasSignal(Tail(q)) <=> HasSignal(q),
         NoGap(last, bl, q, n, old, ev)
  PROVE  NoGap(Head(q), bl, Tail(q), n, old, ev)
<1> DEFINE r == Tail(q)
<1>1. PICK h \in Nat : h = Head(q)
  BY TailEntries
<1>2. PICK m \in Nat : m = Count(q)
  BY CountType
<1>3. /\ Len(q) \in Nat /\ Len(q) >= 1
      /\ Len(r) = Len(q) - 1
      /\ \A i \in 1 .. Len(q) - 1 : r[i] = q[i + 1]
      /\ h = q[1]
  BY <1>1, TailEntries
<1>4. m \in Nat /\ m <= Len(q) /\ m >= 1
  <2>1. m <= Len(q)
    BY <1>2, CountType
  <2>2. HasSignal(q) => Len(q) # 1
    BY <1>3 DEF HasSignal
  <2>3. m = Len(q) \/ (HasSignal(q) /\ m = Len(q) - 1)
    BY <1>2 DEF Count
  <2>4. Len(q) # 1 => Len(q) - 1 >= 1
    BY <1>3
  <2> QED
    BY <1>3, <2>1, <2>2, <2>3, <2>4
<1>5. Count(r) = m - 1
  BY <1>3, <1>2 DEF Count
<1>6. \A k \in 1 .. m : q[k] + m + 1 = n + k
  BY <1>2 DEF NoGap
<1>7. \A k \in 1 .. m - 1 : q[k + 1] \in Nat
  BY <1>3, <1>4
<1>8. Len(bl) = 0
  OBVIOUS
<1> HIDE DEF r
<1>9. h + m = n
  <2>1. 1 \in 1 .. m
    BY <1>4
  <2>2. h + m + 1 = n + 1
    BY <1>3, <1>6, <2>1
  <2> QED
    BY <2>2
<1>10. \A k \in 1 .. Count(r) : r[k] + Count(r) + 1 = n + k
  <2> TAKE k \in 1 .. Count(r)
  <2>1. k \in 1 .. m - 1 /\ k + 1 \in 1 .. m /\ k \in 1 .. Len(q) - 1 /\ k \in Nat
    BY <1>3, <1>4, <1>5
  <2>2. q[k + 1] + m + 1 = n + (k + 1) /\ r[k] = q[k + 1] /\ q[k + 1] \in Nat
    BY <1>3, <1>6, <1>7, <2>1
  <2>3. \A e \in Nat : e + m + 1 = n + (k + 1) => e + (m - 1) + 1 = n + k
    BY <2>1
  <2> QED
    BY <1>5, <2>2, <2>3
<1>11. n <= FirstCached(h, old) + Len(bl) + Count(r) + ev
  <2>1. PICK f \in Nat : f = FirstCached(h, old) /\ h + 1 <= f
    BY DEF FirstCached
  <2>2. n <= f + 0 + (m - 1) + ev
    BY <1>4, <1>9, <2>1
  <2> QED
    BY <1>5, <1>8, <2>1, <2>2
<1> QED
  BY <1>8, <1>10, <1>11, <1>1 DEF NoGap, r

(* What a new subscriber is given misses only what the cache has dropped. *)
LEMMA GapSubscribe ==
  ASSUME NEW j \in Jobs, NEW last \in Nat, TypeOK, last < nextSeq[j],
         oldest[j] < nextSeq[j] \/ nextSeq[j] = 1
  PROVE  NoGap(last, CachedAfter(j, last), << >>, nextSeq[j], oldest[j], 0)
<1> DEFINE lo == FirstCached(last, oldest[j])
           n == nextSeq[j]
           hi == n - 1
           len == IF lo <= hi THEN hi - lo + 1 ELSE 0
           s == CachedAfter(j, last)
<1>1. /\ oldest[j] \in Nat \ {0} /\ n \in Nat \ {0}
      /\ lo \in Nat \ {0} /\ hi \in Nat /\ len \in Nat
      /\ lo <= n
  BY DEF TypeOK, FirstCached
<1>2. s = Interval(lo, hi) /\ s \in Seq(Nat)
  BY <1>1, IntervalType DEF CachedAfter, FirstCached
<1>3. Len(s) = len /\ \A i \in 1 .. len : s[i] = lo + i - 1
  BY <1>1, <1>2 DEF Interval
<1>4. Count(<< >>) = 0
  BY DEF Count, HasSignal
<1>5. len = n - lo
  BY <1>1
<1> HIDE DEF s, lo, n, hi, len
<1>6. \A i \in 1 .. Len(s) : s[i] = s[1] + i - 1
  <2> TAKE i \in 1 .. Len(s)
  <2>1. i \in 1 .. len /\ 1 \in 1 .. len
    BY <1>1, <1>3
  <2>2. s[i] = lo + i - 1 /\ s[1] = lo + 1 - 1
    BY <1>3, <2>1
  <2> QED
    BY <1>1, <2>1, <2>2
<1>7. s # << >> => n <= s[Len(s)] + 1 + 0 + 0
  <2> HAVE s # << >>
  <2>1. len \in 1 .. len
    BY <1>1, <1>2, <1>3, EmptySeq
  <2>2. s[len] = lo + len - 1
    BY <1>3, <2>1
  <2> QED
    BY <1>1, <1>3, <1>5, <2>2
<1>8. n <= lo + Len(s) + 0 + 0
  BY <1>1, <1>3, <1>5
<1> QED
  BY <1>4, <1>6, <1>7, <1>8 DEF NoGap, s, lo, n

(* At first nobody is registered. *)
LEMMA GapInit == Init => GapInv
  BY DEF Init, GapInv

(* A registered stream: its variables have their types, and no other job's   *)
(* step touches it.                                                          *)
LEMMA RegisteredStream ==
  ASSUME AllInv, NEW j \in Jobs, NEW c \in subscribers[j]
  PROVE  /\ c \in Clients /\ open[c] /\ watching[c] = j
         /\ lastId[c][j] \in Nat /\ nextSeq[j] \in Nat /\ oldest[j] \in Nat
         /\ backlog[c] \in Seq(Nat) /\ queue[c] \in Seq(Nat)
         /\ Evicted(c, j) \in Nat
         /\ InOrder(lastId[c][j], backlog[c], queue[c], nextSeq[j])
         /\ Newest(lastId[c][j], backlog[c], queue[c]) = nextSeq[j] - 1
         /\ ~ Finished(j) => ~ HasSignal(queue[c]) /\ ~ isFinished[c] /\ Evicted(c, j) = 0
         /\ Finished(j) /\ ~ isFinished[c] => HasSignal(queue[c])
         /\ \A k \in Jobs : k # j => c \notin subscribers[k]
<1>1. TypeOK /\ StreamInv
  BY DEF AllInv, TypeInv
<1>2. c \in Clients /\ open[c] /\ watching[c] = j
  BY <1>1 DEF TypeOK, StreamInv, RegisteredIsOpen
<1>3. StreamOK(c)
  BY <1>1, <1>2 DEF StreamInv
<1>4. \A k \in Jobs : k # j => c \notin subscribers[k]
  BY <1>1, <1>2 DEF StreamInv, RegisteredIsOpen
<1>5. Evicted(c, j) \in Nat /\ (~ Finished(j) => Evicted(c, j) = 0)
  BY DEF Evicted
<1> QED
  BY <1>1, <1>2, <1>3, <1>4, <1>5 DEF TypeOK, StreamOK

(* Steps that touch no stream and finish no job. *)
LEMMA GapStatusStep ==
  ASSUME AllInv, GapInv,
         UNCHANGED <<nextSeq, oldest, subscribers, queue, backlog, isFinished, lastId>>,
         \A j \in Jobs : Finished(j)' <=> Finished(j)
  PROVE  GapInv'
  BY DEF GapInv, Evicted

(* The log of a job only grows, and its cache only moves on. *)
LEMMA RecordedNumbers ==
  ASSUME TypeOK, NEW j \in Jobs, Record(j)
  PROVE  /\ nextSeq'[j] = nextSeq[j] + 1
         /\ oldest'[j] \in Nat /\ oldest[j] <= oldest'[j]
         /\ \A k \in Jobs : k # j => nextSeq'[k] = nextSeq[k] /\ oldest'[k] = oldest[k]
  BY DEF TypeOK, Record

(* _emit: those that stay registered are given the new event, so nothing     *)
(* more is missing, whatever the cache drops.                                *)
LEMMA GapYieldStep ==
  ASSUME AllInv, GapInv, NEW j \in Jobs, RunnerYields(j)
  PROVE  GapInv'
<1> USE DEF streamVars, clientVars
<1>1. TypeOK /\ ~ Finished(j)
  BY DEF AllInv, TypeInv, JobInv, StatusMatchesTask, RunnerYields, Finished, FinishedStatus
<1>2. /\ nextSeq'[j] = nextSeq[j] + 1
      /\ oldest'[j] \in Nat /\ oldest[j] <= oldest'[j]
      /\ \A k \in Jobs : k # j => nextSeq'[k] = nextSeq[k] /\ oldest'[k] = oldest[k]
  BY <1>1, RecordedNumbers DEF RunnerYields
<1>3. /\ \A k \in Jobs : k # j => subscribers'[k] = subscribers[k]
      /\ subscribers'[j] = Kept(j)
      /\ \A c \in Clients : queue'[c] = Offered(j, c)
      /\ \A k \in Jobs : \A c \in Clients : Evicted(c, k)' = Evicted(c, k)
      /\ UNCHANGED <<backlog, lastId>>
  BY <1>1 DEF RunnerYields, TypeOK, Evicted, Finished
<1> SUFFICES ASSUME NEW k \in Jobs, NEW c \in subscribers'[k]
             PROVE  NoGap(lastId[c][k], backlog[c], queue'[c], nextSeq'[k], oldest'[k],
                          Evicted(c, k)')
  BY <1>3 DEF GapInv
<1>4. c \in subscribers[k]
  BY <1>3 DEF Kept
<1>5. NoGap(lastId[c][k], backlog[c], queue[c], nextSeq[k], oldest[k], Evicted(c, k))
  BY <1>4 DEF GapInv
<1>6. CASE k # j
  <2>1. queue'[c] = queue[c]
    BY <1>3, <1>4, <1>6, RegisteredStream DEF Offered
  <2> QED
    BY <1>2, <1>3, <1>4, <1>5, <1>6, <2>1, RegisteredStream
<1>7. CASE k = j
  <2> DEFINE q == Append(queue[c], nextSeq[j])
  <2>1. queue'[c] = q
    BY <1>3, <1>4, <1>7, RegisteredStream DEF Offered, Kept
  <2>2. ~ HasSignal(queue[c]) /\ ~ HasSignal(q)
    BY <1>1, <1>4, <1>7, RegisteredStream, AppendNumber DEF TypeOK
  <2>3. NoGap(lastId[c][j], backlog[c], q, nextSeq[j] + 1, oldest[j], Evicted(c, j))
    BY <1>4, <1>5, <1>7, <2>2, RegisteredStream, GapAppend
  <2>4. q \in Seq(Nat) /\ nextSeq[j] + 1 \in Nat
    BY <1>4, <1>7, RegisteredStream
  <2> HIDE DEF q
  <2>5. NoGap(lastId[c][j], backlog[c], q, nextSeq[j] + 1, oldest'[j], Evicted(c, j))
    BY <1>2, <1>4, <1>7, <2>3, <2>4, RegisteredStream, GapOlderCache
  <2> QED
    BY <1>2, <1>3, <1>4, <1>7, <2>1, <2>5, RegisteredStream
<1> QED
  BY <1>6, <1>7

(* The end of a job: only now may the signal push an event out.              *)
LEMMA GapFinishStep ==
  ASSUME AllInv, GapInv, NEW j \in Jobs, NEW st \in FinishedStatus,
         task[j] = "running", Finish(j, st)
  PROVE  GapInv'
<1> USE DEF streamVars, clientVars
<1>1. TypeOK /\ ~ Finished(j)
  BY DEF AllInv, TypeInv, JobInv, StatusMatchesTask, Finished, FinishedStatus
<1>2. /\ \A c \in Clients :
           queue'[c] = IF c \in subscribers[j] THEN Signalled(queue[c]) ELSE queue[c]
      /\ \A k \in Jobs : k # j => \A c \in Clients : Evicted(c, k)' = Evicted(c, k)
      /\ \A c \in Clients : ~ isFinished[c] => Evicted(c, j)' = 1
      /\ UNCHANGED <<nextSeq, oldest, subscribers, backlog, lastId>>
  BY <1>1 DEF Finish, TypeOK, Finished, Evicted
<1> SUFFICES ASSUME NEW k \in Jobs, NEW c \in subscribers[k]
             PROVE  NoGap(lastId[c][k], backlog[c], queue'[c], nextSeq[k], oldest[k],
                          Evicted(c, k)')
  BY <1>2 DEF GapInv
<1>3. NoGap(lastId[c][k], backlog[c], queue[c], nextSeq[k], oldest[k], Evicted(c, k))
  BY DEF GapInv
<1>4. CASE k # j
  BY <1>2, <1>3, <1>4, RegisteredStream
<1>5. CASE k = j
  <2>1. queue'[c] = Signalled(queue[c]) /\ Evicted(c, j)' = 1 /\ Evicted(c, j) = 0
    BY <1>1, <1>2, <1>5, RegisteredStream
  <2>2. ~ HasSignal(queue[c]) /\ HasSignal(Signalled(queue[c]))
    BY <1>1, <1>5, RegisteredStream, SignalInOrder
  <2> QED
    BY <1>3, <1>5, <2>1, <2>2, RegisteredStream, GapSignal
<1> QED
  BY <1>4, <1>5

(* SYNC_FAILED, then the signal: a queue that took the event as its last may *)
(* give up its oldest for the signal, and no more than that.                 *)
LEMMA GapRaiseStep ==
  ASSUME AllInv, GapInv, NEW j \in Jobs, RunnerRaises(j)
  PROVE  GapInv'
<1> USE DEF streamVars, clientVars
<1>1. TypeOK /\ ~ Finished(j)
  BY DEF AllInv, TypeInv, JobInv, StatusMatchesTask, RunnerRaises, Finished, FinishedStatus
<1>2. /\ nextSeq'[j] = nextSeq[j] + 1
      /\ oldest'[j] \in Nat /\ oldest[j] <= oldest'[j]
      /\ \A k \in Jobs : k # j => nextSeq'[k] = nextSeq[k] /\ oldest'[k] = oldest[k]
  BY <1>1, RecordedNumbers DEF RunnerRaises
<1>3. /\ \A k \in Jobs : k # j => subscribers'[k] = subscribers[k]
      /\ subscribers'[j] = Kept(j)
      /\ \A c \in Clients :
           queue'[c] = IF c \in Kept(j) THEN Signalled(Offered(j, c)) ELSE queue[c]
      /\ \A k \in Jobs : k # j => \A c \in Clients : Evicted(c, k)' = Evicted(c, k)
      /\ \A c \in Clients : ~ isFinished[c] => Evicted(c, j)' = 1
      /\ UNCHANGED <<backlog, lastId>>
  BY <1>1 DEF RunnerRaises, TypeOK, Evicted, Finished, FinishedStatus
<1> SUFFICES ASSUME NEW k \in Jobs, NEW c \in subscribers'[k]
             PROVE  NoGap(lastId[c][k], backlog[c], queue'[c], nextSeq'[k], oldest'[k],
                          Evicted(c, k)')
  BY <1>3 DEF GapInv
<1>4. c \in subscribers[k]
  BY <1>3 DEF Kept
<1>5. NoGap(lastId[c][k], backlog[c], queue[c], nextSeq[k], oldest[k], Evicted(c, k))
  BY <1>4 DEF GapInv
<1>6. CASE k # j
  <2>1. queue'[c] = queue[c]
    BY <1>3, <1>4, <1>6, RegisteredStream DEF Kept
  <2> QED
    BY <1>2, <1>3, <1>4, <1>5, <1>6, <2>1, RegisteredStream
<1>7. CASE k = j
  <2> DEFINE q == Append(queue[c], nextSeq[j])
  <2>1. q \in Seq(Nat) /\ nextSeq[j] + 1 \in Nat
    BY <1>4, <1>7, RegisteredStream
  <2>2. queue'[c] = Signalled(q) /\ Evicted(c, j)' = 1 /\ Evicted(c, j) = 0
    BY <1>1, <1>3, <1>4, <1>7, RegisteredStream DEF Offered, Kept
  <2>3. /\ ~ HasSignal(queue[c]) /\ ~ HasSignal(q)
        /\ InOrder(lastId[c][j], backlog[c], q, nextSeq[j] + 1)
    BY <1>1, <1>4, <1>7, RegisteredStream, AppendNumber DEF TypeOK
  <2>4. NoGap(lastId[c][j], backlog[c], q, nextSeq[j] + 1, oldest[j], 0)
    BY <1>4, <1>5, <1>7, <2>2, <2>3, RegisteredStream, GapAppend
  <2> HIDE DEF q
  <2>5. NoGap(lastId[c][j], backlog[c], q, nextSeq[j] + 1, oldest'[j], 0)
    BY <1>2, <1>4, <1>7, <2>1, <2>4, RegisteredStream, GapOlderCache
  <2>6. HasSignal(Signalled(q))
    BY <1>4, <1>7, <2>1, <2>3, RegisteredStream, SignalInOrder
  <2> QED
    BY <1>2, <1>4, <1>7, <2>1, <2>2, <2>3, <2>5, <2>6, RegisteredStream, GapSignal
<1> QED
  BY <1>6, <1>7

(* A new stream starts where the cache and the client's last id meet. *)
LEMMA GapSubscribeStep ==
  ASSUME AllInv, GapInv, NEW c \in Clients, NEW j \in Jobs, Subscribe(c, j)
  PROVE  GapInv'
<1> USE DEF managerVars, clientVars
<1>1. TypeOK /\ StreamInv /\ ~ open[c]
  BY DEF AllInv, TypeInv, Subscribe
<1>2. /\ queue'[c] = << >>
      /\ backlog'[c] = CachedAfter(j, lastId[c][j])
      /\ isFinished'[c] = Finished(j)
      /\ \A k \in Jobs : subscribers'[k] = IF k = j THEN subscribers[k] \cup {c} ELSE subscribers[k]
      /\ \A d \in Clients : d # c =>
           queue'[d] = queue[d] /\ backlog'[d] = backlog[d] /\ isFinished'[d] = isFinished[d]
      /\ UNCHANGED <<status, nextSeq, oldest, lastId>>
  BY <1>1 DEF Subscribe, TypeOK
<1> SUFFICES ASSUME NEW k \in Jobs, NEW d \in subscribers'[k]
             PROVE  NoGap(lastId[d][k], backlog'[d], queue'[d], nextSeq[k], oldest[k],
                          Evicted(d, k)')
  BY <1>2 DEF GapInv
<1>3. \A h \in Jobs : c \notin subscribers[h]
  BY <1>1 DEF StreamInv, RegisteredIsOpen
<1>4. CASE d = c
  <2>1. k = j
    BY <1>2, <1>3, <1>4
  <2>2. Evicted(c, j)' = 0
    BY <1>2 DEF Evicted, Finished
  <2>3. /\ lastId[c][j] \in Nat /\ lastId[c][j] < nextSeq[j]
        /\ oldest[j] < nextSeq[j] \/ nextSeq[j] = 1
    BY <1>1 DEF TypeOK, StreamInv, NumbersMatchJob
  <2> QED
    BY <1>1, <1>2, <1>4, <2>1, <2>2, <2>3, GapSubscribe
<1>5. CASE d # c
  <2>1. d \in subscribers[k]
    BY <1>2, <1>5
  <2>2. d \in Clients
    BY <2>1, RegisteredStream
  <2>3. Evicted(d, k)' = Evicted(d, k)
    BY <1>2, <1>5, <2>2 DEF Evicted, Finished
  <2> QED
    BY <1>2, <1>5, <2>1, <2>2, <2>3 DEF GapInv
<1> QED
  BY <1>4, <1>5

(* Yielding an event closes the gap in front of it for good. *)
LEMMA GapDeliverStep ==
  ASSUME AllInv, GapInv, NEW c \in Clients, YieldCached(c) \/ YieldQueued(c)
  PROVE  GapInv'
<1> USE DEF managerVars, streamVars
<1>1. TypeOK
  BY DEF AllInv, TypeInv
<1>2. /\ UNCHANGED <<status, nextSeq, oldest, subscribers, isFinished>>
      /\ \A d \in Clients : d # c =>
           lastId'[d] = lastId[d] /\ backlog'[d] = backlog[d] /\ queue'[d] = queue[d]
  BY <1>1 DEF YieldCached, YieldQueued, Deliver, TypeOK
<1>3. \A d \in Clients, k \in Jobs : Evicted(d, k)' = Evicted(d, k)
  BY <1>2 DEF Evicted, Finished
<1> SUFFICES ASSUME NEW k \in Jobs, NEW d \in subscribers[k]
             PROVE  NoGap(lastId'[d][k], backlog'[d], queue'[d], nextSeq[k], oldest[k],
                          Evicted(d, k))
  BY <1>2, <1>3, RegisteredStream DEF GapInv
<1>4. NoGap(lastId[d][k], backlog[d], queue[d], nextSeq[k], oldest[k], Evicted(d, k))
  BY DEF GapInv
<1>5. CASE d # c
  BY <1>2, <1>4, <1>5, RegisteredStream
<1>6. CASE d = c /\ YieldCached(c)
  <2>1. /\ lastId'[c][k] = Head(backlog[c]) /\ backlog'[c] = Tail(backlog[c])
        /\ queue'[c] = queue[c] /\ backlog[c] # << >>
    BY <1>1, <1>6, RegisteredStream DEF YieldCached, Deliver, TypeOK
  <2> QED
    BY <1>4, <1>6, <2>1, RegisteredStream, GapDeliverCached, SMTT(30)
<1>7. CASE d = c /\ YieldQueued(c)
  <2>1. /\ lastId'[c][k] = Head(queue[c]) /\ queue'[c] = Tail(queue[c])
        /\ backlog[c] = << >> /\ backlog'[c] = << >> /\ queue[c] # << >>
        /\ Head(queue[c]) # FinishSignal
    BY <1>1, <1>7, RegisteredStream DEF YieldQueued, Listening, Deliver, TypeOK
  <2>2. HasSignal(Tail(queue[c])) <=> HasSignal(queue[c])
    BY <1>7, <2>1, RegisteredStream, DeliverQueued, SMTT(30)
  <2> QED
    BY <1>4, <1>7, <2>1, <2>2, RegisteredStream, GapDeliverQueued, SMTT(30)
<1> QED
  BY <1>5, <1>6, <1>7

(* A stream that closes is not registered any more. *)
LEMMA GapCloseStep ==
  ASSUME AllInv, GapInv, NEW c \in Clients, open[c], CloseStream(c),
         UNCHANGED <<managerVars, lastId>>
  PROVE  GapInv'
<1> USE DEF managerVars
<1>1. TypeOK /\ StreamInv /\ watching[c] \in Jobs
  BY DEF AllInv, TypeInv, OpenStreamHasJob
<1>2. /\ \A k \in Jobs : subscribers'[k] = IF k = watching[c] THEN subscribers[k] \ {c}
                                            ELSE subscribers[k]
      /\ \A d \in Clients : d # c =>
           queue'[d] = queue[d] /\ backlog'[d] = backlog[d] /\ isFinished'[d] = isFinished[d]
  BY <1>1 DEF CloseStream, TypeOK
<1> SUFFICES ASSUME NEW k \in Jobs, NEW d \in subscribers'[k]
             PROVE  NoGap(lastId[d][k], backlog'[d], queue'[d], nextSeq[k], oldest[k],
                          Evicted(d, k)')
  BY DEF GapInv
<1>3. d \in subscribers[k]
  BY <1>2
<1>4. d \in Clients /\ d # c
  <2>1. d \in Clients /\ watching[d] = k
    BY <1>3, RegisteredStream
  <2>2. CASE d = c
    BY <1>2, <2>1, <2>2
  <2> QED
    BY <2>1, <2>2
<1>5. Evicted(d, k)' = Evicted(d, k)
  BY <1>2, <1>4 DEF Evicted, Finished
<1> QED
  BY <1>2, <1>3, <1>4, <1>5 DEF GapInv

(* Every step keeps the gaps explained. *)
LEMMA GapNext == AllInv /\ GapInv /\ [Next]_vars => GapInv'
<1> SUFFICES ASSUME AllInv, GapInv, [Next]_vars
             PROVE  GapInv'
  OBVIOUS
<1>1. TypeOK /\ JobInv /\ StreamInv
  BY DEF AllInv, TypeInv
<1>2. ASSUME NEW j \in Jobs, NEW g \in Groups \cup {NoGroup}, StartJob(j, g)
      PROVE  GapInv'
  BY <1>1, <1>2, GapStatusStep
  DEF StartJob, CreateJob, TypeOK, Finished, FinishedStatus, streamVars, clientVars
<1>3. ASSUME NEW j \in Jobs, TaskStarts(j) \/ TaskNeverStarts(j)
      PROVE  GapInv'
  BY <1>1, <1>3, GapStatusStep
  DEF TaskStarts, TaskNeverStarts, TypeOK, JobInv, StatusMatchesTask, Finished, FinishedStatus,
      streamVars, clientVars
<1>4. ASSUME NEW j \in Jobs, RunnerYields(j)
      PROVE  GapInv'
  BY <1>4, GapYieldStep
<1>5. ASSUME NEW j \in Jobs, RunnerReturns(j) \/ RunnerCancelled(j)
      PROVE  GapInv'
  BY <1>5, GapFinishStep DEF RunnerReturns, RunnerCancelled, FinishedStatus
<1>6. ASSUME NEW j \in Jobs, RunnerRaises(j)
      PROVE  GapInv'
  BY <1>6, GapRaiseStep
<1>7. ASSUME Shutdown \/ ShutdownReturns
      PROVE  GapInv'
  BY <1>7, GapStatusStep DEF Shutdown, ShutdownReturns, Finished, streamVars, clientVars
<1>8. ASSUME NEW c \in Clients, NEW j \in Jobs, Subscribe(c, j)
      PROVE  GapInv'
  BY <1>8, GapSubscribeStep
<1>9. ASSUME NEW c \in Clients, YieldCached(c) \/ YieldQueued(c)
      PROVE  GapInv'
  BY <1>9, GapDeliverStep
<1>10. ASSUME NEW c \in Clients, ReturnAfterCache(c) \/ ReturnOnSignal(c) \/ Disconnect(c)
       PROVE  GapInv'
  <2>1. open[c] /\ CloseStream(c) /\ UNCHANGED <<managerVars, lastId>>
    BY <1>10
    DEF ReturnAfterCache, ReturnOnSignal, Listening, EndStream, Disconnect, clientVars
  <2> QED
    BY <2>1, GapCloseStep
<1>11. ASSUME NEW c \in Clients, Reload(c)
       PROVE  GapInv'
  <2>1. /\ ~ open[c] /\ \A d \in Clients : d # c => lastId'[d] = lastId[d]
        /\ UNCHANGED <<status, nextSeq, oldest, subscribers, backlog, isFinished, queue>>
    BY <1>1, <1>11 DEF Reload, TypeOK, managerVars, streamVars
  <2>2. \A j \in Jobs : \A d \in subscribers[j] :
          lastId'[d] = lastId[d] /\ Evicted(d, j)' = Evicted(d, j)
    BY <2>1, RegisteredStream DEF Evicted, Finished
  <2> QED
    BY <2>1, <2>2 DEF GapInv
<1>12. CASE UNCHANGED vars \/ \E g \in Groups : ReuseJob(g)
  BY <1>12, GapStatusStep DEF ReuseJob, vars, Finished, streamVars, clientVars
<1> QED
  BY <1>2, <1>3, <1>4, <1>5, <1>6, <1>7, <1>8, <1>9, <1>10, <1>11, <1>12
  DEF Next, TaskStep, StreamStep

(* The queue without its signal, counted: as many numbers as Count says, the *)
(* newest of them last.                                                      *)
LEMMA CountNumbers ==
  ASSUME NEW last \in Nat, NEW bl \in Seq(Nat), NEW q \in Seq(Nat), NEW n \in Nat,
         InOrder(last, bl, q, n)
  PROVE  Len(Numbers(q)) = Count(q)
<1>1. CASE q = << >>
  BY <1>1 DEF Numbers, Count, HasSignal
<1>2. CASE q # << >> /\ q[Len(q)] = FinishSignal
  <2>1. Len(q) \in Nat /\ Len(q) >= 1
    BY <1>2, TailEntries
  <2>2. HasSignal(q)
    BY <1>2, <2>1 DEF HasSignal
  <2> DEFINE r == Len(q) - 1
  <2>3. r \in Nat /\ r <= Len(q)
    BY <2>1
  <2>4. Numbers(q) = SubSeq(q, 1, r) /\ Count(q) = r
    BY <1>2, <2>2 DEF Numbers, Count
  <2> HIDE DEF r
  <2>5. Len(SubSeq(q, 1, r)) = r
    BY <2>3, PrefixEntries
  <2> QED
    BY <2>4, <2>5
<1>3. CASE q # << >> /\ q[Len(q)] # FinishSignal
  <2>1. Len(q) \in Nat /\ Len(q) >= 1 /\ Numbers(q) = q
    BY <1>3, TailEntries DEF Numbers
  <2>2. \A i \in 1 .. Len(q) : i = Len(q) \/ (Len(q) \in 1 .. Len(q) /\ i < Len(q))
    BY <2>1
  <2>3. ~ HasSignal(q)
    BY <1>3, <2>2 DEF InOrder, HasSignal
  <2> QED
    BY <2>1, <2>3 DEF Count
<1> QED
  BY <1>1, <1>2, <1>3

(* The newest number of a stream is the last one counted. *)
LEMMA CountNewest ==
  ASSUME NEW last \in Nat, NEW bl \in Seq(Nat), NEW q \in Seq(Nat), NEW n \in Nat,
         InOrder(last, bl, q, n)
  PROVE  /\ Count(q) >= 1 => Newest(last, bl, q) = q[Count(q)]
         /\ Count(q) = 0 => Newest(last, bl, q) = NewestCached(last, bl)
<1>1. CASE q = << >>
  BY <1>1 DEF Newest, Count, HasSignal
<1>2. CASE q # << >> /\ q[Len(q)] = FinishSignal
  <2>1. Len(q) \in Nat /\ Len(q) >= 1
    BY <1>2, TailEntries
  <2>2. HasSignal(q)
    BY <1>2, <2>1 DEF HasSignal
  <2> QED
    BY <1>2, <2>1, <2>2 DEF Count, Newest
<1>3. CASE q # << >> /\ q[Len(q)] # FinishSignal
  <2>1. Len(q) \in Nat /\ Len(q) >= 1
    BY <1>3, TailEntries
  <2>2. \A i \in 1 .. Len(q) : i = Len(q) \/ (Len(q) \in 1 .. Len(q) /\ i < Len(q))
    BY <2>1
  <2>3. ~ HasSignal(q)
    BY <1>3, <2>2 DEF InOrder, HasSignal
  <2> QED
    BY <1>3, <2>1, <2>3 DEF Count, Newest
<1> QED
  BY <1>1, <1>2, <1>3

(* The invariant says what RegisteredStreamComplete promises: the feed ends  *)
(* with the newest event, and its length leaves no room for more gaps.       *)
LEMMA GapsExplained ==
  ASSUME AllInv, GapInv, NEW j \in Jobs, NEW c \in subscribers[j]
  PROVE  /\ Len(Feed(c)) \in Nat /\ Feed(c)[Len(Feed(c))] = nextSeq[j] - 1
         /\ nextSeq[j] <= FirstCached(lastId[c][j], oldest[j]) + (Len(Feed(c)) - 1) + Evicted(c, j)
<1> DEFINE last == lastId[c][j]
           bl == backlog[c]
           q == queue[c]
           n == nextSeq[j]
           nq == Numbers(q)
           e == <<last>> \o bl \o nq
<1>1. /\ last \in Nat /\ n \in Nat /\ bl \in Seq(Nat) /\ q \in Seq(Nat)
      /\ oldest[j] \in Nat /\ Evicted(c, j) \in Nat
      /\ InOrder(last, bl, q, n) /\ Newest(last, bl, q) = n - 1
      /\ NoGap(last, bl, q, n, oldest[j], Evicted(c, j))
  BY RegisteredStream DEF GapInv
<1>2. Feed(c) = e
  BY RegisteredStream DEF Feed
<1> HIDE DEF last, bl, q, n
<1>3. nq \in Seq(Nat) /\ \A i \in 1 .. Len(nq) : nq[i] = q[i]
  BY <1>1, NumbersOfQueue
<1>4. PICK m \in Nat : m = Count(q)
  BY <1>1, CountType
<1>5. PICK b \in Nat : b = Len(bl)
  BY <1>1
<1>6. Len(nq) = m
  BY <1>1, <1>4, CountNumbers
<1>7. /\ m >= 1 => Newest(last, bl, q) = q[m]
      /\ m = 0 => Newest(last, bl, q) = NewestCached(last, bl)
  BY <1>1, <1>4, CountNewest
<1> HIDE DEF nq
<1>8. /\ Len(e) = 1 + Len(bl) + Len(nq)
      /\ e[1] = last
      /\ \A k \in 1 .. Len(bl) : e[1 + k] = bl[k]
      /\ \A k \in 1 .. Len(nq) : e[1 + Len(bl) + k] = nq[k]
  BY <1>1, <1>3, FeedEntries
<1> HIDE DEF e
<1>9. e[1 + b + m] = n - 1
  <2>1. CASE m >= 1
    <3>1. m \in 1 .. m
      BY <2>1
    <3>2. e[1 + b + m] = nq[m] /\ nq[m] = q[m]
      BY <1>3, <1>5, <1>6, <1>8, <3>1
    <3> QED
      BY <1>1, <1>7, <2>1, <3>2
  <2>2. CASE m = 0 /\ bl # << >>
    <3>1. b \in 1 .. b /\ 1 + b + m = 1 + b
      BY <1>1, <1>5, <2>2, EmptySeq
    <3>2. e[1 + b] = bl[b]
      BY <1>5, <1>8, <3>1
    <3> QED
      BY <1>1, <1>5, <1>7, <2>2, <3>1, <3>2 DEF NewestCached
  <2>3. CASE m = 0 /\ bl = << >>
    <3>1. b = 0 /\ 1 + b + m = 1
      BY <1>5, <2>3
    <3> QED
      BY <1>1, <1>7, <1>8, <2>3, <3>1 DEF NewestCached
  <2> QED
    BY <2>1, <2>2, <2>3
<1>10. n <= FirstCached(last, oldest[j]) + (1 + b + m - 1) + Evicted(c, j)
  <2>1. n <= FirstCached(last, oldest[j]) + b + m + Evicted(c, j)
    BY <1>1, <1>4, <1>5 DEF NoGap
  <2>2. 1 + b + m - 1 = b + m
    OBVIOUS
  <2>3. PICK f \in Nat : f = FirstCached(last, oldest[j])
    BY <1>1 DEF FirstCached
  <2>4. PICK v \in Nat : v = Evicted(c, j)
    BY <1>1
  <2>5. n <= f + (b + m) + v
    BY <2>1, <2>3, <2>4
  <2> QED
    BY <2>2, <2>3, <2>4, <2>5
<1>11. Len(e) = 1 + b + m
  BY <1>5, <1>6, <1>8
<1> QED
  BY <1>2, <1>9, <1>10, <1>11 DEF n, last

(* A registered stream leads to the newest event of its job and misses only  *)
(* what the cache had dropped when it subscribed, and the one event the      *)
(* finish signal may push out of a full queue.                               *)
THEOREM RegisteredStreamsAreComplete == Spec => []RegisteredStreamComplete
<1>1. Init => GapInv
  BY GapInit
<1>2. AllInv /\ GapInv /\ [Next]_vars => GapInv'
  BY GapNext
<1>3. AllInv /\ GapInv => RegisteredStreamComplete
  <2> SUFFICES ASSUME AllInv, GapInv, NEW j \in Jobs, NEW c \in subscribers[j]
               PROVE  LET truncated == IF oldest[j] > lastId[c][j] + 1
                                       THEN oldest[j] - (lastId[c][j] + 1) ELSE 0
                          evicted   == IF Finished(j) /\ ~ isFinished[c] THEN 1 ELSE 0
                      IN  /\ Feed(c)[Len(Feed(c))] = nextSeq[j] - 1
                          /\ Missing(c, j) <= truncated + evicted
    BY DEF RegisteredStreamComplete
  <2>1. /\ lastId[c][j] \in Nat /\ nextSeq[j] \in Nat /\ oldest[j] \in Nat
        /\ Evicted(c, j) \in Nat
    BY RegisteredStream
  <2>2. Len(Feed(c)) \in Nat /\ Feed(c)[Len(Feed(c))] = nextSeq[j] - 1
    BY GapsExplained
  <2>3. nextSeq[j] <= FirstCached(lastId[c][j], oldest[j]) + (Len(Feed(c)) - 1) + Evicted(c, j)
    BY GapsExplained
  <2>4. \A n, l, o, f, e \in Nat :
          n <= FirstCached(l, o) + (f - 1) + e =>
          (n - 1 - l) - (f - 1) <= (IF o > l + 1 THEN o - (l + 1) ELSE 0) + e
    BY DEF FirstCached
  <2> QED
    BY <2>1, <2>2, <2>3, <2>4 DEF Missing, Evicted
<1> QED
  BY <1>1, <1>2, <1>3, AllInvariant, PTL DEF Spec

-----------------------------------------------------------------------------
(* The streams implement JobFeed. *)

LEMMA PromiseInit == Init => Promise!Init
<1> SUFFICES ASSUME Init PROVE Promise!Init
  OBVIOUS
<1>1. \A j \in Jobs : nextSeq[j] - 1 = 0 /\ Finished(j) = FALSE
  BY DEF Init, Finished, FinishedStatus
<1>2. /\ [j \in Jobs |-> nextSeq[j] - 1] = [j \in Jobs |-> 0]
      /\ [j \in Jobs |-> Finished(j)] = [j \in Jobs |-> FALSE]
  BY <1>1, Zenon
<1>3. /\ watching = [c \in Clients |-> NoJob]
      /\ lastId = [c \in Clients |-> [j \in Jobs |-> 0]]
      /\ ended = [c \in Clients |-> {}]
  BY DEF Init
<1> QED
  BY <1>2, <1>3, Zenon DEF Promise!Init

(* The mapped variables length and closed, in terms of the manager's.        *)
LEMMA MappedVariables ==
  ASSUME TypeOK, TypeOK'
  PROVE  /\ nextSeq' = nextSeq =>
              [j \in Jobs |-> nextSeq[j] - 1]' = [j \in Jobs |-> nextSeq[j] - 1]
         /\ \A j \in Jobs : nextSeq' = [nextSeq EXCEPT ![j] = @ + 1] =>
              [k \in Jobs |-> nextSeq[k] - 1]'
                = [[k \in Jobs |-> nextSeq[k] - 1] EXCEPT ![j] = @ + 1]
         /\ (\A k \in Jobs : Finished(k)' <=> Finished(k)) =>
              [k \in Jobs |-> Finished(k)]' = [k \in Jobs |-> Finished(k)]
         /\ \A j \in Jobs :
              (Finished(j)' /\ \A k \in Jobs : k # j => (Finished(k)' <=> Finished(k))) =>
              [k \in Jobs |-> Finished(k)]' = [[k \in Jobs |-> Finished(k)] EXCEPT ![j] = TRUE]
<1> DEFINE L == [j \in Jobs |-> nextSeq[j] - 1]
           C == [j \in Jobs |-> Finished(j)]
<1>1. \A k \in Jobs : Finished(k) \in BOOLEAN /\ Finished(k)' \in BOOLEAN
  BY DEF Finished
<1>2. nextSeq' = nextSeq => L' = L
  OBVIOUS
<1>3. ASSUME NEW j \in Jobs, nextSeq' = [nextSeq EXCEPT ![j] = @ + 1]
      PROVE  L' = [L EXCEPT ![j] = @ + 1]
  <2>1. nextSeq \in [Jobs -> Nat \ {0}]
    BY DEF TypeOK
  <2>2. \A k \in Jobs : nextSeq'[k] - 1 = IF k = j THEN (nextSeq[k] - 1) + 1 ELSE nextSeq[k] - 1
    BY <1>3, <2>1
  <2>3. L' = [k \in Jobs |-> nextSeq'[k] - 1]
    OBVIOUS
  <2>4. [L EXCEPT ![j] = @ + 1]
          = [k \in Jobs |-> IF k = j THEN (nextSeq[k] - 1) + 1 ELSE nextSeq[k] - 1]
    OBVIOUS
  <2> QED
    BY <2>2, <2>3, <2>4, Zenon
<1>4. ASSUME \A k \in Jobs : Finished(k)' <=> Finished(k)
      PROVE  C' = C
  <2>1. \A k \in Jobs : Finished(k)' = Finished(k)
    BY <1>1, <1>4
  <2> QED
    BY <2>1, Zenon
<1>5. ASSUME NEW j \in Jobs, Finished(j)',
             \A k \in Jobs : k # j => (Finished(k)' <=> Finished(k))
      PROVE  C' = [C EXCEPT ![j] = TRUE]
  <2>1. \A k \in Jobs : Finished(k)' = IF k = j THEN TRUE ELSE Finished(k)
    BY <1>1, <1>5
  <2>2. C' = [k \in Jobs |-> Finished(k)']
    OBVIOUS
  <2>3. [C EXCEPT ![j] = TRUE] = [k \in Jobs |-> IF k = j THEN TRUE ELSE Finished(k)]
    BY Zenon
  <2> QED
    BY <2>1, <2>2, <2>3, Zenon
<1> QED
  BY <1>2, <1>3, <1>4, <1>5

LEMMA PromiseNext == AllInv /\ AllInv' /\ [Next]_vars => [Promise!Next]_(Promise!vars)
<1> SUFFICES ASSUME AllInv, AllInv', [Next]_vars
             PROVE  Promise!Next \/ UNCHANGED Promise!vars
  OBVIOUS
<1>1. TypeOK /\ TypeOK' /\ JobInv /\ OpenStreamHasJob
  BY DEF AllInv, TypeInv
<1> DEFINE L == [k \in Jobs |-> nextSeq[k] - 1]
           C == [k \in Jobs |-> Finished(k)]
<1>0. /\ nextSeq' = nextSeq => L' = L
      /\ \A j \in Jobs : nextSeq' = [nextSeq EXCEPT ![j] = @ + 1] => L' = [L EXCEPT ![j] = @ + 1]
      /\ (\A k \in Jobs : Finished(k)' <=> Finished(k)) => C' = C
      /\ \A j \in Jobs :
           (Finished(j)' /\ \A k \in Jobs : k # j => (Finished(k)' <=> Finished(k))) =>
           C' = [C EXCEPT ![j] = TRUE]
  BY <1>1, MappedVariables
<1>2. ASSUME UNCHANGED <<nextSeq, watching, lastId, ended>>,
             \A j \in Jobs : Finished(j)' <=> Finished(j)
      PROVE  UNCHANGED Promise!vars
  <2>1. L' = L /\ C' = C
    BY <1>0, <1>2
  <2> QED
    BY <1>2, <2>1 DEF Promise!vars
<1>3. ASSUME NEW j \in Jobs, NEW g \in Groups \cup {NoGroup}, StartJob(j, g)
      PROVE  UNCHANGED Promise!vars
  BY <1>1, <1>2, <1>3
  DEF StartJob, CreateJob, TypeOK, Finished, FinishedStatus, streamVars, clientVars
<1>4. ASSUME NEW j \in Jobs, TaskStarts(j) \/ TaskNeverStarts(j)
      PROVE  UNCHANGED Promise!vars
  BY <1>1, <1>2, <1>4
  DEF TaskStarts, TaskNeverStarts, TypeOK, JobInv, StatusMatchesTask, Finished, FinishedStatus,
      streamVars, clientVars
<1>5. ASSUME NEW j \in Jobs, RunnerYields(j)
      PROVE  Promise!Publish(j)
  <2>1. /\ ~ Finished(j) /\ \A k \in Jobs : Finished(k)' <=> Finished(k)
        /\ nextSeq' = [nextSeq EXCEPT ![j] = @ + 1]
        /\ UNCHANGED <<watching, lastId, ended>>
    BY <1>1, <1>5
    DEF RunnerYields, Record, JobInv, StatusMatchesTask, Finished, FinishedStatus, streamVars,
        clientVars
  <2>2. L' = [L EXCEPT ![j] = @ + 1] /\ C' = C
    BY <1>0, <2>1
  <2>3. ~ C[j]
    BY <2>1
  <2> HIDE DEF L, C
  <2> QED
    BY <2>1, <2>2, <2>3 DEF Promise!Publish, L, C
<1>6. ASSUME NEW j \in Jobs, RunnerReturns(j) \/ RunnerCancelled(j) \/ RunnerRaises(j)
      PROVE  Promise!Close(j)
  <2>1. /\ ~ Finished(j) /\ Finished(j)'
        /\ \A k \in Jobs : k # j => (Finished(k)' <=> Finished(k))
        /\ UNCHANGED <<watching, lastId, ended>>
    BY <1>1, <1>6
    DEF RunnerReturns, RunnerCancelled, RunnerRaises, Finish, TypeOK, JobInv,
        StatusMatchesTask, Finished, FinishedStatus, streamVars, clientVars
  <2>2. nextSeq' = nextSeq \/ nextSeq' = [nextSeq EXCEPT ![j] = @ + 1]
    BY <1>6 DEF RunnerReturns, RunnerCancelled, RunnerRaises, Finish, Record
  <2>3. L' = L \/ L' = [L EXCEPT ![j] = @ + 1]
    BY <1>0, <2>2
  <2>4. C' = [C EXCEPT ![j] = TRUE]
    BY <1>0, <2>1
  <2>5. ~ C[j]
    BY <2>1
  <2> QED
    BY <2>1, <2>3, <2>4, <2>5 DEF Promise!Close
<1>7. ASSUME Shutdown \/ ShutdownReturns
      PROVE  UNCHANGED Promise!vars
  BY <1>2, <1>7 DEF Shutdown, ShutdownReturns, Finished, streamVars, clientVars
<1>8. ASSUME NEW c \in Clients, NEW j \in Jobs, Subscribe(c, j)
      PROVE  Promise!Connect(c, j)
  BY <1>1, <1>8
  DEF Subscribe, TypeOK, OpenStreamHasJob, Finished, Promise!Connect, managerVars, clientVars
<1>9. ASSUME NEW c \in Clients, YieldCached(c) \/ YieldQueued(c)
      PROVE  Promise!Receive(c)
  <2> DEFINE j == watching[c]
             new == lastId'[c][j]
  <2>1. /\ j \in Jobs /\ lastId' = [lastId EXCEPT ![c][j] = new]
        /\ UNCHANGED <<status, nextSeq, watching, ended>>
    BY <1>1, <1>9, SMTT(30)
    DEF YieldCached, YieldQueued, Listening, Deliver, TypeOK, OpenStreamHasJob, managerVars,
        streamVars
  <2>2. /\ lastId[c][j] < new /\ new < nextSeq[j]
        /\ lastId[c][j] \in Nat /\ new \in Nat /\ nextSeq[j] \in Nat
    BY <1>1, <1>9, <2>1, DeliverStep DEF AllInv, TypeInv, TypeOK, StreamInv, NumbersMatchJob
  <2>3. new \in (lastId[c][j] + 1) .. (nextSeq[j] - 1)
    <3> HIDE DEF new
    <3> QED
      BY <2>2
  <2>4. UNCHANGED <<L, C>>
    BY <1>0, <2>1 DEF Finished
  <2> QED
    BY <2>1, <2>3, <2>4 DEF Promise!Receive
<1>10. ASSUME NEW c \in Clients, ReturnAfterCache(c) \/ ReturnOnSignal(c)
       PROVE  Promise!ToldEnd(c)
  <2>1. /\ watching[c] \in Jobs /\ Finished(watching[c])
        /\ lastId[c][watching[c]] = nextSeq[watching[c]] - 1
        /\ EndStream(c)
    BY <1>1, <1>10, EndStep DEF OpenStreamHasJob
  <2> QED
    BY <2>1 DEF EndStream, CloseStream, Promise!ToldEnd, Finished, managerVars
<1>11. ASSUME NEW c \in Clients, Disconnect(c)
       PROVE  Promise!Leave(c)
  BY <1>1, <1>11
  DEF Disconnect, CloseStream, OpenStreamHasJob, Promise!Leave, Finished, managerVars, clientVars
<1>12. ASSUME NEW c \in Clients, Reload(c)
       PROVE  Promise!Forget(c)
  BY <1>1, <1>12
  DEF Reload, OpenStreamHasJob, Promise!Forget, Finished, managerVars, streamVars
<1>13. CASE UNCHANGED vars \/ \E g \in Groups : ReuseJob(g)
  BY <1>2, <1>13 DEF ReuseJob, vars, Finished
<1> QED
  BY <1>3, <1>4, <1>5, <1>6, <1>7, <1>8, <1>9, <1>10, <1>11, <1>12, <1>13
  DEF Next, TaskStep, StreamStep, Promise!Next

(* Queues, caches, eviction, reconnection and shutdown together keep the     *)
(* promise of the observation interface.                                     *)
THEOREM StreamsKeepPromise == Spec => KeepsPromise
<1>1. Spec => Promise!Init
  BY PromiseInit DEF Spec
<1>2. AllInv /\ AllInv' /\ [Next]_vars => [Promise!Next]_(Promise!vars)
  BY PromiseNext
<1> QED
  BY <1>1, <1>2, AllInvariant, PTL DEF Spec, KeepsPromise, Promise!Spec
=============================================================================
