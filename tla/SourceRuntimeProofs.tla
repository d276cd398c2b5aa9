-------------------------- MODULE SourceRuntimeProofs --------------------------
(***************************************************************************)
(* The source page of SourceRuntime, proved for any number of sources,     *)
(* items, jobs, streams and loads: a running job has one stream, which its *)
(* controller reaches; the sync panel is open only with a stream to close  *)
(* it; and once nothing is under way the rows are what is stored and no    *)
(* bar is left, but for those whose change or end nobody could tell the    *)
(* page about.                                                             *)
(***************************************************************************)
EXTENDS SourceRuntime, SequenceTheorems, TLAPS

-----------------------------------------------------------------------------
(* How jobs, streams and the maps of the page fit together. *)

Exists(j) == jobs[j].kind # "none"

JobsFit ==
  /\ \A j \in Jobs : ~ Exists(j) => jobs[j] = NoJob
  /\ \A j \in Jobs : Exists(j) => jobs[j].source \in Sources
  /\ \A j \in Jobs : jobs[j].left \subseteq ItemsOf(jobs[j].source)
  /\ \A j \in Jobs : \A n \in 1..Len(log[j]) :
       log[j][n].item # None => log[j][n].item \in ItemsOf(jobs[j].source)

(* What a stream can be in while its job runs or is over.                    *)
StreamsFit ==
  \A j \in Jobs, k \in Copies :
    /\ stream[j][k].phase # "idle" => Exists(j)
    /\ stream[j][k].phase \in Reads => ~ stream[j][k].aborted
    /\ stream[j][k].phase \in Reloads => jobs[j].over
    /\ Running(j) /\ stream[j][k].phase # "idle" => controllers[j] = k

(* An entry of the maps belongs to a stream that is not aborted.             *)
MapsFit ==
  \A j \in Jobs :
    /\ controllers[j] = None => jobSource[j] = None
    /\ controllers[j] # None => jobSource[j] = jobs[j].source /\ Live(j, controllers[j])

RequestPlaced == request.state # "free" => request.source \in Sources

RequestFits ==
  /\ RequestPlaced
  /\ request.items \subseteq ItemsOf(request.source)
  /\ \A j \in request.job : Exists(j) /\ jobs[j].source = request.source
  /\ request.job # {} => request.state = "served" /\ request.kind \in Starts
  /\ request.state = "served" /\ request.kind \in Starts => request.job # {}

Wired == JobsFit /\ StreamsFit /\ MapsFit /\ RequestFits

-----------------------------------------------------------------------------
(* What will still tell the page of an item. *)

Refreshing(j, k) == stream[j][k].phase \in Reads \cup {"asksItems", "hasItems"}

StreamTells(i) == \E j \in Jobs, k \in Copies :
  jobs[j].source = SourceOf[i] /\ Refreshing(j, k)

LoadTells(i) == \E l \in Loads :
  load[l].source = SourceOf[i] /\ load[l].phase \in {"asksItems", "hasItems"}

(* The job of an answer to a start is followed once the answer arrives.      *)
Waits(j) == controllers[j] = None \/ Refreshing(j, controllers[j])

AnswerTells(i) ==
  /\ request.state = "served"
  /\ \/ /\ request.kind \in Starts /\ request.source = SourceOf[i]
        /\ \E j \in request.job : Waits(j)
     \/ request.kind \in {"upload", "rename", "delete", "pause"} /\ i \in request.items

Tells(i) == StreamTells(i) \/ LoadTells(i) \/ AnswerTells(i)
Told(i)  == i \in unsure \/ shown[i] = Row(i)

ItemsTold == \A i \in Items : Current(i) => Told(i) \/ Tells(i)

AnswersStand ==
  /\ request.state = "served" /\ request.kind = "delete" =>
       \A i \in request.items : stored[i] = "gone"
  /\ request.state = "served" /\ request.kind = "drop" => request.source \in dropped

RowsTold == ItemsTold /\ AnswersStand

RuntimeInv == RuntimeTypeOK /\ Wired /\ RowsTold
-----------------------------------------------------------------------------
(* Types. *)

StreamRecs == [phase : {"idle"} \cup Reads \cup Reloads, at : Nat, aborted : BOOLEAN,
               statuses : [Items -> Status], listed : SUBSET Jobs]
LoadRecs == [phase : {"idle"} \cup Reloads, source : Sources \cup {None}, whole : BOOLEAN,
             statuses : [Items -> Status], listed : SUBSET Jobs]
RequestRecs == [kind : {"none"} \cup Kinds, state : {"free", "sent", "served", "refused"},
                source : Sources \cup {None}, items : SUBSET Items,
                job : SUBSET Jobs, fresh : BOOLEAN, statuses : [Items -> Status]]
JobRecs == [kind : {"none"} \cup Starts, source : Sources \cup {None},
            items : SUBSET Items, left : SUBSET Items, over : BOOLEAN]
Events == [name : EventNames, item : Items \cup {None}, status : Status \cup {None}]

(* RuntimeTypeOK in the terms of these sets, in groups of variables.         *)
ServerTypes ==
  /\ stored \in [Items -> Status \cup {"gone"}] /\ dropped \subseteq Sources
  /\ jobs \in [Jobs -> JobRecs] /\ log \in [Jobs -> Seq(Events)]
StreamTypes ==
  /\ stream \in [Jobs -> [Copies -> StreamRecs]]
  /\ controllers \in [Jobs -> Copies \cup {None}] /\ jobSource \in [Jobs -> Sources \cup {None}]
PageTypes ==
  /\ page \in Sources \cup {None} /\ shown \in [Items -> Status]
  /\ active \in [Sources -> SUBSET Jobs] /\ lastId \in [Jobs -> Nat]
  /\ bar \in [Items -> {"none", "shown", "closing"}]
  /\ unsure \in SUBSET Items /\ missed \in SUBSET Items
PanelTypes == panel \in [Sources -> {"hidden", "shown", "closing"}]
CallTypes == load \in [Loads -> LoadRecs] /\ request \in RequestRecs
CountTypes == count \in [{"requests", "visits", "failures"} -> Nat]

LEMMA TypesInGroups ==
  RuntimeTypeOK <=> ServerTypes /\ StreamTypes /\ PageTypes /\ PanelTypes /\ CallTypes
                    /\ CountTypes
  BY DEF RuntimeTypeOK, ServerTypes, StreamTypes, PageTypes, PanelTypes, CallTypes, CountTypes,
         StreamRecs, LoadRecs, RequestRecs, JobRecs, Events

LEMMA TypesInGroupsPrime ==
  RuntimeTypeOK' <=> ServerTypes' /\ StreamTypes' /\ PageTypes' /\ PanelTypes' /\ CallTypes'
                     /\ CountTypes'
  BY DEF RuntimeTypeOK, ServerTypes, StreamTypes, PageTypes, PanelTypes, CallTypes, CountTypes,
         StreamRecs, LoadRecs, RequestRecs, JobRecs, Events

LEMMA EmptyRecords ==
  /\ NoStream \in StreamRecs /\ NoLoad \in LoadRecs /\ NoRequest \in RequestRecs
  /\ NoJob \in JobRecs
  BY DEF NoStream, NoLoad, NoRequest, NoJob, StreamRecs, LoadRecs, RequestRecs, JobRecs, Status,
         Starts

LEMMA SnapshotTyped ==
  ASSUME ServerTypes, NEW s PROVE Snapshot(s) \in [Items -> Status]
  BY DEF ServerTypes, Snapshot, Row, Status

LEMMA SetStreamTyped ==
  ASSUME StreamTypes, NEW j \in Jobs, NEW k \in Copies, NEW x \in StreamRecs, SetStream(j, k, x),
         UNCHANGED mapVars
  PROVE  StreamTypes'
  BY DEF StreamTypes, SetStream, mapVars

LEMMA FinallyTyped ==
  ASSUME StreamTypes, NEW j \in Jobs, NEW k \in Copies, Finally(j, k)
  PROVE  StreamTypes'
  BY EmptyRecords DEF StreamTypes, SetStream, Finally

LEMMA ClosesTyped ==
  ASSUME PanelTypes, NEW s PROVE Closes(s) \in [Sources -> {"hidden", "shown", "closing"}]
  BY DEF PanelTypes, Closes

LEMMA ConnectTyped ==
  ASSUME StreamTypes, PanelTypes, PageTypes, ServerTypes, NEW S \in SUBSET Jobs, Connect(S)
  PROVE  StreamTypes' /\ PanelTypes'
<1> DEFINE new == {j \in S : controllers[j] = None}
<1>1. PICK copy \in [new -> Copies] :
         /\ controllers' = [j \in Jobs |-> IF j \in new THEN copy[j] ELSE controllers[j]]
         /\ jobSource' = [j \in Jobs |-> IF j \in new THEN jobs[j].source ELSE jobSource[j]]
         /\ stream' = [j \in Jobs |->
               IF j \in new
               THEN [stream[j] EXCEPT ![copy[j]] = [NoStream EXCEPT !.phase = "opening",
                                                                    !.at = lastId[j]]]
               ELSE stream[j]]
  BY DEF Connect
<1>2. ASSUME NEW j \in Jobs
      PROVE  [NoStream EXCEPT !.phase = "opening", !.at = lastId[j]] \in StreamRecs
  BY EmptyRecords DEF StreamRecs, Reads, PageTypes
<1>3. stream' \in [Jobs -> [Copies -> StreamRecs]]
  BY <1>1, <1>2 DEF StreamTypes
<1>4. controllers' \in [Jobs -> Copies \cup {None}]
  BY <1>1 DEF StreamTypes
<1>5. jobSource' \in [Jobs -> Sources \cup {None}]
  BY <1>1 DEF StreamTypes, ServerTypes, JobRecs
<1>6. PanelTypes'
  BY DEF Connect, ShowPanels, PanelTypes
<1>. QED BY <1>3, <1>4, <1>5, <1>6 DEF StreamTypes

LEMMA DisconnectTyped ==
  ASSUME StreamTypes, PanelTypes, NEW s, Disconnect(s), PageTypes
  PROVE  StreamTypes' /\ PanelTypes' /\ unsure' \in SUBSET Items
<1> DEFINE cut == {j \in Jobs : jobSource[j] = s}
           after(x) == IF x.phase \in Reads THEN NoStream ELSE [x EXCEPT !.aborted = TRUE]
<1>1. ASSUME NEW x \in StreamRecs PROVE after(x) \in StreamRecs
  BY EmptyRecords DEF StreamRecs
<1>2. stream' = [j \in Jobs |->
           IF j \in cut /\ controllers[j] # None
           THEN [stream[j] EXCEPT ![controllers[j]] = after(@)] ELSE stream[j]]
  BY DEF Disconnect
<1>3. ASSUME NEW j \in Jobs, j \in cut, controllers[j] # None
      PROVE  [stream[j] EXCEPT ![controllers[j]] = after(@)] \in [Copies -> StreamRecs]
  <2> DEFINE k == controllers[j]
  <2>1. k \in Copies /\ stream[j] \in [Copies -> StreamRecs]
    BY <1>3 DEF StreamTypes
  <2>2. after(stream[j][k]) \in StreamRecs
    BY <2>1, <1>1
  <2> HIDE DEF after
  <2>. QED BY <2>1, <2>2
<1>4. stream' \in [Jobs -> [Copies -> StreamRecs]]
  <2> HIDE DEF after, cut
  <2>. QED BY <1>2, <1>3 DEF StreamTypes
<1>. QED BY <1>4 DEF Disconnect, StreamTypes, PanelTypes, PageTypes, ItemsOf

LEMMA ClearTyped ==
  ASSUME StreamTypes, PanelTypes, PageTypes, NEW s, Clear(s)
  PROVE  /\ StreamTypes' /\ PanelTypes' /\ unsure' \in SUBSET Items
         /\ bar' \in [Items -> {"none", "shown", "closing"}] /\ missed' \in SUBSET Items
<1>1. bar' \in [Items -> {"none", "shown", "closing"}] /\ missed' \in SUBSET Items
  BY DEF Clear, PageTypes, ItemsOf
<1>. QED BY <1>1, DisconnectTyped DEF Clear

LEMMA SetItemsTyped ==
  ASSUME PageTypes, NEW s, NEW statuses \in [Items -> Status], SetItems(s, statuses)
  PROVE  shown' \in [Items -> Status] /\ unsure' \in SUBSET Items
  BY DEF SetItems, PageTypes, ItemsOf

LEMMA SetActiveTyped ==
  ASSUME NEW listed \in SUBSET Jobs, SetActive(listed) PROVE active' \in [Sources -> SUBSET Jobs]
  BY DEF SetActive

LEMMA ApplyTyped ==
  ASSUME PageTypes, PanelTypes, NEW j, NEW event \in Events, Apply(j, event)
  PROVE  /\ shown' \in [Items -> Status] /\ PanelTypes'
         /\ bar' \in [Items -> {"none", "shown", "closing"}]
<1>1. shown' \in [Items -> Status]
  BY DEF Apply, PageTypes, Events, Status
<1>2. ASSUME NEW old \in {"none", "shown", "closing"}
      PROVE  BarAfter(event, old) \in {"none", "shown", "closing"}
  BY DEF BarAfter
<1>3. bar' \in [Items -> {"none", "shown", "closing"}]
  BY <1>2 DEF Apply, PageTypes, Events
<1>4. PanelTypes'
  BY DEF Apply, PanelTypes
<1>. QED BY <1>1, <1>3, <1>4

LEMMA CountsTyped ==
  ASSUME CountTypes, NEW n \in {"requests", "visits", "failures"}, NEW max, Counts(n, max)
  PROVE  CountTypes'
  BY DEF CountTypes, Counts

LEMMA BreaksTyped ==
  ASSUME CountTypes, NEW s, Breaks(s) PROVE CountTypes'
  BY CountsTyped DEF Breaks, CountTypes

LEMMA StartedTyped ==
  ASSUME NEW kind \in Starts, NEW s \in Sources \cup {None}, NEW items \in SUBSET Items
  PROVE  Started(kind, s, items) \in JobRecs
  BY DEF Started, JobRecs, ItemsOf

LEMMA InitTyped == Init => RuntimeTypeOK
<1> SUFFICES ASSUME Init PROVE RuntimeTypeOK
  OBVIOUS
<1>1. jobs \in [Jobs -> JobRecs]
  <2>1. CASE jobs = [j \in Jobs |-> NoJob]
    BY <2>1, EmptyRecords
  <2>2. ASSUME NEW j \in Jobs, NEW s \in Sources, NEW items \in SUBSET Items,
               jobs = [[x \in Jobs |-> NoJob] EXCEPT ![j] = Started("index", s, items)]
        PROVE  jobs \in [Jobs -> JobRecs]
    <3>1. Started("index", s, items) \in JobRecs
      BY StartedTyped DEF Starts
    <3>. QED BY <3>1, <2>2, EmptyRecords
  <2>. QED BY <2>1, <2>2, SourceRuntimeAssumption DEF Init
<1>2. ServerTypes
  BY <1>1, SourceRuntimeAssumption DEF Init, ServerTypes, Status, Claimable
<1>3. StreamTypes
  BY EmptyRecords DEF Init, StreamTypes
<1>4. load \in [Loads -> LoadRecs]
  <2>1. PICK l \in Loads :
          load = [m \in Loads |-> IF m = l THEN [NoLoad EXCEPT !.phase = "asksItems",
                                                               !.source = page, !.whole = TRUE]
                                  ELSE NoLoad]
    BY DEF Init
  <2>2. [NoLoad EXCEPT !.phase = "asksItems", !.source = page, !.whole = TRUE] \in LoadRecs
    BY EmptyRecords DEF LoadRecs, Reloads, Init
  <2>. QED BY <2>1, <2>2, EmptyRecords
<1>5. CallTypes
  BY <1>4, EmptyRecords DEF Init, CallTypes
<1>6. PageTypes /\ PanelTypes /\ CountTypes
  BY SourceRuntimeAssumption DEF Init, PageTypes, PanelTypes, CountTypes, Status
<1>. QED BY <1>2, <1>3, <1>5, <1>6, TypesInGroups

LEMMA EventTyped ==
  ASSUME NEW name \in EventNames, NEW i \in Items \cup {None}, NEW status \in Status \cup {None}
  PROVE  Event(name, i, status) \in Events
  BY DEF Event, Events

LEMMA ReportsTyped ==
  ASSUME RuntimeTypeOK, NEW j \in Jobs, NEW i \in Items, NEW status \in Status \cup {"gone"},
         NEW event \in Events, NEW left \in SUBSET Items, Reports(j, i, status, event, left)
  PROVE  RuntimeTypeOK'
<1>1. [jobs[j] EXCEPT !.left = left] \in JobRecs
  BY TypesInGroups DEF ServerTypes, JobRecs
<1>2. jobs' \in [Jobs -> JobRecs]
  BY <1>1, TypesInGroups DEF Reports, ServerTypes
<1>3. log' \in [Jobs -> Seq(Events)]
  BY TypesInGroups DEF Reports, ServerTypes
<1>4. ServerTypes'
  BY <1>2, <1>3, TypesInGroups DEF Reports, ServerTypes
<1>5. unsure' \in SUBSET Items
  BY TypesInGroups DEF Reports, PageTypes
<1>. QED BY <1>4, <1>5, TypesInGroups, TypesInGroupsPrime
         DEF Reports, StreamTypes, PageTypes, PanelTypes, CallTypes, CountTypes, mapVars

LEMMA JobStepTyped ==
  ASSUME RuntimeTypeOK, NEW j \in Jobs,
         EndsJob(j) \/ \E i \in Items : IndexesItem(j, i) \/ CrawlsItem(j, i)
  PROVE  RuntimeTypeOK'
<1>0. /\ jobs[j].left \in SUBSET Items /\ stored \in [Items -> Status \cup {"gone"}]
      /\ jobs[j] \in JobRecs /\ log[j] \in Seq(Events)
  BY TypesInGroups DEF ServerTypes, JobRecs
<1>1. CASE EndsJob(j)
  <2>1. [jobs[j] EXCEPT !.over = TRUE] \in JobRecs
    BY <1>0 DEF JobRecs
  <2>2. Event("sync_complete", None, None) \in Events
    BY EventTyped DEF EventNames, Status, Busy, Claimable
  <2>3. ServerTypes'
    BY <1>1, <2>1, <2>2, TypesInGroups DEF EndsJob, ServerTypes
  <2>. QED BY <1>1, <2>3, TypesInGroups, TypesInGroupsPrime
           DEF EndsJob, StreamTypes, PageTypes, PanelTypes, CallTypes, CountTypes, mapVars
<1>2. ASSUME NEW i \in Items, IndexesItem(j, i) PROVE RuntimeTypeOK'
  <2>. jobs[j].left \ {i} \in SUBSET Items
    BY <1>0
  <2>1. CASE Claims(j, i)
    <3>1. Event("item_progress", i, "processing") \in Events
      BY EventTyped DEF EventNames, Status, Busy, Claimable
    <3>. QED BY <2>1, <3>1, <1>0, ReportsTyped DEF Claims, Status, Busy
  <2>2. CASE Skips(j, i)
    <3>1. Event("item_skipped", i, stored[i]) \in Events
      BY <1>0, <2>2, EventTyped DEF EventNames, Skips, NoRow
    <3>. QED BY <2>2, <3>1, <1>0, ReportsTyped DEF Skips
  <2>3. CASE Misses(j, i)
    <3>1. Event("item_failed", i, "failed") \in Events
      BY EventTyped DEF EventNames, Status, Busy, Claimable
    <3>. QED BY <2>3, <3>1, <1>0, ReportsTyped DEF Misses
  <2>4. CASE Pauses(j, i)
    <3>1. Event("item_paused", i, "paused") \in Events
      BY EventTyped DEF EventNames, Status, Busy, Claimable
    <3>. QED BY <2>4, <3>1, <1>0, ReportsTyped DEF Pauses, Status, Claimable
  <2>5. CASE Settles(j, i)
    <3>1. /\ Event("item_completed", i, "completed") \in Events
          /\ Event("item_failed", i, "failed") \in Events
      BY EventTyped DEF EventNames, Status, Busy, Claimable
    <3>. QED BY <2>5, <3>1, <1>0, ReportsTyped DEF Settles, Status, Claimable
  <2>. QED BY <1>2, <2>1, <2>2, <2>3, <2>4, <2>5 DEF IndexesItem
<1>3. ASSUME NEW i \in Items, CrawlsItem(j, i) PROVE RuntimeTypeOK'
  <2>1. /\ Event("item_upserted", i, "pending") \in Events
        /\ Event("item_skipped", None, None) \in Events
        /\ Event("item_deleted", i, None) \in Events
    BY EventTyped DEF EventNames, Status, Busy, Claimable
  <2>2. jobs[j].left \ {i} \in SUBSET Items
    BY <1>0
  <2>3. stored[i] \in Status \cup {"gone"} /\ "pending" \in Status
    BY <1>0 DEF Status, Claimable
  <2>. QED BY <1>3, <2>1, <2>2, <2>3, ReportsTyped DEF CrawlsItem
<1>. QED BY <1>1, <1>2, <1>3

LEMMA ServeTyped ==
  ASSUME RuntimeTypeOK, RequestPlaced,
         \/ ServeStart \/ ServePause \/ ServeUpload \/ ServeRename \/ ServeDelete \/ ServeDrop
         \/ Refuse
  PROVE  RuntimeTypeOK'
<1>0. /\ request \in RequestRecs /\ jobs \in [Jobs -> JobRecs]
      /\ stored \in [Items -> Status \cup {"gone"}]
  BY TypesInGroups DEF CallTypes, ServerTypes
<1>1. ASSUME ServerTypes', request' \in RequestRecs, UNCHANGED viewVars PROVE RuntimeTypeOK'
  BY <1>1, TypesInGroups, TypesInGroupsPrime
  DEF StreamTypes, PageTypes, PanelTypes, CallTypes, CountTypes, viewVars, mapVars
<1>2. ASSUME NEW statuses \in [Items -> Status \cup {"gone"}], Answers(statuses),
             \A i \in request.items : statuses[i] # "gone"
      PROVE  request' \in RequestRecs
  <2>1. [i \in Items |-> IF i \in request.items THEN statuses[i] ELSE request.statuses[i]]
          \in [Items -> Status]
    BY <1>0, <1>2 DEF RequestRecs
  <2>. QED BY <1>0, <1>2, <2>1 DEF Answers, RequestRecs
<1>10. [request EXCEPT !.state = "served"] \in RequestRecs
  BY <1>0 DEF RequestRecs
<1>3. CASE ServeStart
  <2>1. ActiveJob \in SUBSET Jobs
    BY DEF ActiveJob, ActiveJobs
  <2>2. CASE ActiveJob # {}
    <3>1. request' \in RequestRecs
      BY <1>0, <1>3, <2>1, <2>2 DEF ServeStart, RequestRecs
    <3>. QED BY <1>1, <1>3, <2>2, <3>1, TypesInGroups DEF ServeStart, ServerTypes
  <2>3. CASE ActiveJob = {}
    <3>1. PICK j \in Jobs :
            /\ jobs' = [jobs EXCEPT ![j] = Started(request.kind, request.source, request.items)]
            /\ request' = [request EXCEPT !.state = "served", !.job = {j}, !.fresh = TRUE]
      BY <1>3, <2>3 DEF ServeStart
    <3>2. Started(request.kind, request.source, request.items) \in JobRecs
      BY <1>0, <1>3, StartedTyped DEF ServeStart, Serves, RequestRecs
    <3>3. jobs' \in [Jobs -> JobRecs]
      BY <1>0, <3>1, <3>2
    <3>4. request' \in RequestRecs
      BY <1>0, <3>1 DEF RequestRecs
    <3>. QED BY <1>1, <1>3, <3>3, <3>4, TypesInGroups DEF ServeStart, ServerTypes
  <2>. QED BY <2>2, <2>3
<1>4. CASE ServePause
  <2>1. stored' \in [Items -> Status \cup {"gone"}]
    BY <1>0, <1>4 DEF ServePause, Status, Busy
  <2>2. \A i \in request.items : stored'[i] # "gone"
    BY <1>0, <1>4 DEF ServePause, Serves, Accepted, Found, NoRow, RequestRecs
  <2>3. request' \in RequestRecs
    BY <1>4, <2>1, <2>2, <1>2 DEF ServePause
  <2>. QED BY <1>1, <1>4, <2>1, <2>3, TypesInGroups DEF ServePause, ServerTypes
<1>5. CASE ServeUpload
  <2>1. stored' \in [Items -> Status \cup {"gone"}]
    BY <1>0, <1>5 DEF ServeUpload, Status, Claimable
  <2>2. \A i \in request.items : stored'[i] # "gone"
    BY <1>0, <1>5 DEF ServeUpload, RequestRecs
  <2>3. request' \in RequestRecs
    BY <1>5, <2>1, <2>2, <1>2 DEF ServeUpload
  <2>. QED BY <1>1, <1>5, <2>1, <2>3, TypesInGroups DEF ServeUpload, ServerTypes
<1>6. CASE ServeRename
  <2>1. \A i \in request.items : stored[i] # "gone"
    BY <1>0, <1>6 DEF ServeRename, Serves, Accepted, Found, NoRow, RequestRecs
  <2>2. request' \in RequestRecs
    BY <1>0, <1>6, <2>1, <1>2 DEF ServeRename
  <2>. QED BY <1>1, <1>6, <2>2, TypesInGroups DEF ServeRename, ServerTypes, serverVars
<1>7. CASE ServeDelete
  <2>1. stored' \in [Items -> Status \cup {"gone"}] /\ request' \in RequestRecs
    BY <1>0, <1>7, <1>10 DEF ServeDelete
  <2>. QED BY <1>1, <1>7, <2>1, TypesInGroups DEF ServeDelete, ServerTypes
<1>8. CASE ServeDrop
  <2>0. stored' \in [Items -> Status \cup {"gone"}]
    BY <1>0, <1>8 DEF ServeDrop
  <2>1. request' \in RequestRecs
    <3>1. request' = [request EXCEPT !.state = "served"]
      BY <1>8 DEF ServeDrop
    <3>. QED BY <1>10, <3>1
  <2>2. dropped' \subseteq Sources
    BY <1>8, TypesInGroups DEF ServeDrop, Serves, ServerTypes, RequestPlaced
  <2>. QED BY <1>1, <1>8, <2>0, <2>1, <2>2, TypesInGroups DEF ServeDrop, ServerTypes
<1>9. CASE Refuse
  <2>1. request' \in RequestRecs
    BY <1>0, <1>9 DEF Refuse, RequestRecs
  <2>. QED BY <1>1, <1>9, <2>1, TypesInGroups DEF Refuse, ServerTypes, serverVars
<1>. QED BY <1>3, <1>4, <1>5, <1>6, <1>7, <1>8, <1>9

LEMMA StreamTyped ==
  ASSUME RuntimeTypeOK, NEW j \in Jobs, NEW k \in Copies, StreamNext(j, k)
  PROVE  RuntimeTypeOK'
<1>0. /\ ServerTypes /\ StreamTypes /\ PageTypes /\ PanelTypes /\ CallTypes /\ CountTypes
      /\ stream[j][k] \in StreamRecs /\ log[j] \in Seq(Events) /\ ActiveJobs \in SUBSET Jobs
  BY TypesInGroups DEF StreamTypes, ServerTypes, ActiveJobs
<1>. USE DEF mapVars, serverVars
<1>1. CASE StreamOpens(j, k)
  <2>1. [stream[j][k] EXCEPT !.phase = "reading"] \in StreamRecs
    BY <1>0 DEF StreamRecs, Reads
  <2>2. StreamTypes'
    BY <1>0, <1>1, <2>1, SetStreamTyped DEF StreamOpens
  <2>. QED BY <1>0, <1>1, <2>2, TypesInGroupsPrime
           DEF StreamOpens, ServerTypes, PageTypes, PanelTypes, CallTypes, CountTypes
<1>2. CASE StreamEvent(j, k)
  <2>1. PICK n \in (stream[j][k].at + 1)..Len(log[j]) :
          /\ SetStream(j, k, [stream[j][k] EXCEPT !.at = n])
          /\ lastId' = [lastId EXCEPT ![j] = n]
          /\ Apply(j, log[j][n])
          /\ missed' = missed \cup
               ({log[j][m].item : m \in (stream[j][k].at + 1)..(n - 1)} \ {None})
    BY <1>2 DEF StreamEvent
  <2>2. stream[j][k].at \in Nat
    BY <1>0 DEF StreamRecs
  <2>3. n \in Nat /\ n \in 1..Len(log[j])
    BY <1>0, <2>1, <2>2
  <2>4. \A m \in (stream[j][k].at + 1)..(n - 1) : log[j][m] \in Events
    BY <1>0, <2>1, <2>2
  <2>5. missed' \in SUBSET Items
    BY <1>0, <2>1, <2>4 DEF PageTypes, Events
  <2>6. [stream[j][k] EXCEPT !.at = n] \in StreamRecs
    BY <1>0, <2>3 DEF StreamRecs
  <2>7. StreamTypes'
    BY <1>0, <1>2, <2>1, <2>6, SetStreamTyped DEF StreamEvent
  <2>8. log[j][n] \in Events
    BY <1>0, <2>3
  <2>9. /\ shown' \in [Items -> Status] /\ PanelTypes'
        /\ bar' \in [Items -> {"none", "shown", "closing"}]
    BY <1>0, <2>1, <2>8, ApplyTyped
  <2>10. lastId' \in [Jobs -> Nat]
    BY <1>0, <2>1, <2>3 DEF PageTypes
  <2>. QED BY <1>0, <1>2, <2>5, <2>7, <2>9, <2>10, TypesInGroupsPrime
           DEF StreamEvent, ServerTypes, PageTypes, CallTypes, CountTypes
<1>3. CASE StreamEnds(j, k)
  <2>1. [stream[j][k] EXCEPT !.phase = "asksItems"] \in StreamRecs
    BY <1>0 DEF StreamRecs, Reloads
  <2>2. StreamTypes'
    BY <1>0, <1>3, <2>1, SetStreamTyped DEF StreamEnds
  <2>. QED BY <1>0, <1>3, <2>2, TypesInGroupsPrime
           DEF StreamEnds, ServerTypes, PageTypes, PanelTypes, CallTypes, CountTypes
<1>4. CASE StreamAsks(j, k)
  <2>1. [stream[j][k] EXCEPT !.phase = "hasItems", !.statuses = Snapshot(jobs[j].source)]
          \in StreamRecs
    BY <1>0, SnapshotTyped DEF StreamRecs, Reloads
  <2>2. [stream[j][k] EXCEPT !.phase = "hasJobs", !.listed = ActiveJobs] \in StreamRecs
    BY <1>0 DEF StreamRecs, Reloads
  <2>3. StreamTypes'
    BY <1>0, <1>4, <2>1, <2>2, SetStreamTyped DEF StreamAsks
  <2>. QED BY <1>0, <1>4, <2>3, TypesInGroupsPrime
           DEF StreamAsks, ServerTypes, PageTypes, PanelTypes, CallTypes, CountTypes
<1>5. CASE StreamShowsItems(j, k)
  <2>1. [NoStream EXCEPT !.phase = "asksJobs", !.aborted = stream[j][k].aborted] \in StreamRecs
    BY <1>0, EmptyRecords DEF StreamRecs, Reloads
  <2>2. StreamTypes'
    BY <1>0, <1>5, <2>1, SetStreamTyped DEF StreamShowsItems
  <2>3. stream[j][k].statuses \in [Items -> Status]
    BY <1>0 DEF StreamRecs
  <2>4. shown' \in [Items -> Status] /\ unsure' \in SUBSET Items
    BY <1>0, <1>5, <2>3, SetItemsTyped DEF StreamShowsItems
  <2>. QED BY <1>0, <1>5, <2>2, <2>4, TypesInGroupsPrime
           DEF StreamShowsItems, ServerTypes, PageTypes, PanelTypes, CallTypes, CountTypes
<1>6. CASE StreamShowsJobs(j, k)
  <2>1. StreamTypes'
    BY <1>0, <1>6, FinallyTyped DEF StreamShowsJobs
  <2>2. stream[j][k].listed \in SUBSET Jobs
    BY <1>0 DEF StreamRecs
  <2>3. active' \in [Sources -> SUBSET Jobs]
    BY <1>6, <2>2, SetActiveTyped DEF StreamShowsJobs
  <2>4. PanelTypes'
    BY <1>0, <1>6, ClosesTyped DEF StreamShowsJobs, PanelTypes
  <2>. QED BY <1>0, <1>6, <2>1, <2>3, <2>4, TypesInGroupsPrime
           DEF StreamShowsJobs, ServerTypes, PageTypes, CallTypes, CountTypes
<1>7. CASE StreamFails(j, k)
  <2>1. StreamTypes'
    BY <1>0, <1>7, FinallyTyped DEF StreamFails
  <2>2. PanelTypes'
    BY <1>0, <1>7, ClosesTyped DEF StreamFails, PanelTypes
  <2>3. CountTypes'
    BY <1>0, <1>7, BreaksTyped DEF StreamFails
  <2>4. unsure' \in SUBSET Items /\ missed' \in SUBSET Items
    BY <1>0, <1>7 DEF StreamFails, PageTypes, ItemsOf
  <2>. QED BY <1>0, <1>7, <2>1, <2>2, <2>3, <2>4, TypesInGroupsPrime
           DEF StreamFails, ServerTypes, PageTypes, CallTypes
<1>. QED BY <1>1, <1>2, <1>3, <1>4, <1>5, <1>6, <1>7 DEF StreamNext

LEMMA SetLoadTyped ==
  ASSUME CallTypes, NEW l \in Loads, NEW x \in LoadRecs, SetLoad(l, x)
  PROVE  load' \in [Loads -> LoadRecs]
  BY DEF CallTypes, SetLoad

LEMMA LoadingTyped ==
  ASSUME CallTypes, NEW l \in Loads, NEW s \in Sources \cup {None}, NEW whole \in BOOLEAN,
         Loading(l, s, whole)
  PROVE  load' \in [Loads -> LoadRecs]
<1>1. [NoLoad EXCEPT !.phase = "asksItems", !.source = s, !.whole = whole] \in LoadRecs
  BY EmptyRecords DEF LoadRecs, Reloads
<1>. QED BY <1>1, SetLoadTyped DEF Loading

LEMMA LoadTyped ==
  ASSUME RuntimeTypeOK, NEW l \in Loads, LoadNext(l) PROVE RuntimeTypeOK'
<1>0. /\ ServerTypes /\ StreamTypes /\ PageTypes /\ PanelTypes /\ CallTypes /\ CountTypes
      /\ load[l] \in LoadRecs /\ ActiveJobs \in SUBSET Jobs
  BY TypesInGroups DEF CallTypes, ActiveJobs
<1>. USE DEF mapVars, serverVars
<1>1. CASE LoadAsks(l)
  <2>1. [load[l] EXCEPT !.phase = "hasItems", !.statuses = Snapshot(load[l].source)] \in LoadRecs
    BY <1>0, SnapshotTyped DEF LoadRecs, Reloads
  <2>2. [load[l] EXCEPT !.phase = "hasJobs", !.listed = ActiveJobs] \in LoadRecs
    BY <1>0 DEF LoadRecs, Reloads
  <2>3. load' \in [Loads -> LoadRecs]
    BY <1>0, <1>1, <2>1, <2>2, SetLoadTyped DEF LoadAsks
  <2>. QED BY <1>0, <1>1, <2>3, TypesInGroupsPrime
           DEF LoadAsks, ServerTypes, PageTypes, PanelTypes, CallTypes, CountTypes, StreamTypes
<1>2. CASE LoadShowsItems(l)
  <2>1. [NoLoad EXCEPT !.phase = "asksJobs", !.source = load[l].source, !.whole = TRUE] \in LoadRecs
    BY <1>0, EmptyRecords DEF LoadRecs, Reloads
  <2>2. load' \in [Loads -> LoadRecs]
    <3> DEFINE x == [NoLoad EXCEPT !.phase = "asksJobs", !.source = load[l].source, !.whole = TRUE]
    <3>1. \/ SetLoad(l, x)
          \/ SetLoad(l, NoLoad)
      BY <1>2 DEF LoadShowsItems
    <3> HIDE DEF x
    <3>. QED BY <1>0, <2>1, <3>1, SetLoadTyped, EmptyRecords DEF x
  <2>3. load[l].statuses \in [Items -> Status]
    BY <1>0 DEF LoadRecs
  <2>4. shown' \in [Items -> Status] /\ unsure' \in SUBSET Items
    BY <1>0, <1>2, <2>3, SetItemsTyped DEF LoadShowsItems
  <2>. QED BY <1>0, <1>2, <2>2, <2>4, TypesInGroupsPrime
           DEF LoadShowsItems, ServerTypes, PageTypes, PanelTypes, CallTypes, CountTypes,
               StreamTypes
<1>3. CASE LoadShowsJobs(l)
  <2>1. load[l].listed \in SUBSET Jobs
    BY <1>0 DEF LoadRecs
  <2>2. active' \in [Sources -> SUBSET Jobs]
    BY <1>3, <2>1, SetActiveTyped DEF LoadShowsJobs
  <2>3. (IF page = None THEN {} ELSE active'[page]) \in SUBSET Jobs
    BY <1>0, <2>2 DEF PageTypes
  <2>4. StreamTypes' /\ PanelTypes'
    BY <1>0, <1>3, <2>3, ConnectTyped DEF LoadShowsJobs
  <2>5. load' \in [Loads -> LoadRecs]
    BY <1>0, <1>3, SetLoadTyped, EmptyRecords DEF LoadShowsJobs
  <2>. QED BY <1>0, <1>3, <2>2, <2>4, <2>5, TypesInGroupsPrime
           DEF LoadShowsJobs, ServerTypes, PageTypes, CallTypes, CountTypes
<1>4. CASE LoadFails(l)
  <2>1. load' \in [Loads -> LoadRecs]
    BY <1>0, <1>4, SetLoadTyped, EmptyRecords DEF LoadFails
  <2>2. CountTypes'
    BY <1>0, <1>4, BreaksTyped DEF LoadFails
  <2>3. unsure' \in SUBSET Items
    BY <1>0, <1>4 DEF LoadFails, PageTypes, ItemsOf
  <2>. QED BY <1>0, <1>4, <2>1, <2>2, <2>3, TypesInGroupsPrime
           DEF LoadFails, ServerTypes, PageTypes, PanelTypes, CallTypes, StreamTypes
<1>. QED BY <1>1, <1>2, <1>3, <1>4 DEF LoadNext

LEMMA AsksTyped ==
  ASSUME CallTypes, CountTypes, PageTypes, NEW kind, NEW items \in SUBSET Items, Asks(kind, items)
  PROVE  request' \in RequestRecs /\ CountTypes'
<1>1. request' \in RequestRecs
  BY EmptyRecords DEF Asks, RequestRecs, PageTypes
<1>. QED BY <1>1, CountsTyped DEF Asks

LEMMA AskTyped ==
  ASSUME RuntimeTypeOK, AskStart \/ AskPause \/ AskDrop \/ AskOther
  PROVE  RuntimeTypeOK'
<1>0. /\ ServerTypes /\ StreamTypes /\ PageTypes /\ PanelTypes /\ CallTypes /\ CountTypes
  BY TypesInGroups
<1>. USE DEF mapVars, serverVars
<1>1. CASE AskStart
  <2>1. request' \in RequestRecs /\ CountTypes'
    <3>1. PICK kind \in {"index", "resume"}, items \in SUBSET Items : Asks(kind, items)
      BY <1>1 DEF AskStart, Rows
    <3>. QED BY <1>0, <3>1, AsksTyped
  <2>2. bar' \in [Items -> {"none", "shown", "closing"}] /\ missed' \in SUBSET Items
    BY <1>0, <1>1 DEF AskStart, PageTypes
  <2>. QED BY <1>0, <1>1, <2>1, <2>2, TypesInGroupsPrime
           DEF AskStart, ServerTypes, PageTypes, PanelTypes, CallTypes, StreamTypes
<1>2. CASE AskPause
  <2>1. PICK i \in Items : /\ Asks("pause", {i})
                           /\ shown' = [shown EXCEPT ![i] = "pause_requested"]
                           /\ unsure' = unsure \cup {i}
    BY <1>2 DEF AskPause, Rows
  <2>2. request' \in RequestRecs /\ CountTypes'
    BY <1>0, <2>1, AsksTyped
  <2>3. shown' \in [Items -> Status] /\ unsure' \in SUBSET Items
    BY <1>0, <2>1 DEF PageTypes, Status, Busy
  <2>. QED BY <1>0, <1>2, <2>2, <2>3, TypesInGroupsPrime
           DEF AskPause, ServerTypes, PageTypes, PanelTypes, CallTypes, StreamTypes
<1>3. CASE AskDrop
  <2>1. request' \in RequestRecs /\ CountTypes'
    BY <1>0, <1>3, AsksTyped DEF AskDrop
  <2>2. /\ StreamTypes' /\ PanelTypes' /\ unsure' \in SUBSET Items
        /\ bar' \in [Items -> {"none", "shown", "closing"}] /\ missed' \in SUBSET Items
    BY <1>0, <1>3, ClearTyped DEF AskDrop
  <2>. QED BY <1>0, <1>3, <2>1, <2>2, TypesInGroupsPrime
           DEF AskDrop, ServerTypes, PageTypes, CallTypes
<1>4. CASE AskOther
  <2>1. \E kind, items : items \in SUBSET Items /\ Asks(kind, items)
    BY <1>4 DEF AskOther, Rows, ItemsOf
  <2>2. request' \in RequestRecs /\ CountTypes'
    BY <1>0, <2>1, AsksTyped
  <2>. QED BY <1>0, <1>4, <2>2, TypesInGroupsPrime
           DEF AskOther, ServerTypes, PageTypes, PanelTypes, CallTypes, StreamTypes
<1>. QED BY <1>1, <1>2, <1>3, <1>4

LEMMA AnswerTyped ==
  ASSUME RuntimeTypeOK,
         AnswerStart \/ AnswerPause \/ AnswerRows \/ AnswerDelete \/ AnswerDrop \/ RequestFails
  PROVE  RuntimeTypeOK'
<1>0. /\ ServerTypes /\ StreamTypes /\ PageTypes /\ PanelTypes /\ CallTypes /\ CountTypes
      /\ request \in RequestRecs
  BY TypesInGroups DEF CallTypes
<1>1. request' \in RequestRecs
  BY EmptyRecords DEF AnswerStart, AnswerPause, AnswerRows, AnswerDelete, AnswerDrop,
                      RequestFails, Answered
<1>2. request.items \in SUBSET Items /\ request.statuses \in [Items -> Status]
      /\ request.job \in SUBSET Jobs /\ request.source \in Sources \cup {None}
  BY <1>0 DEF RequestRecs
<1>. USE DEF mapVars, serverVars
<1>3. CASE AnswerStart
  <2>1. shown' \in [Items -> Status] /\ active' \in [Sources -> SUBSET Jobs]
        /\ unsure' \in SUBSET Items /\ missed' \in SUBSET Items
    BY <1>0, <1>2, <1>3 DEF AnswerStart, PageTypes, Status, Busy
  <2>2. StreamTypes' /\ PanelTypes'
    BY <1>0, <1>2, <1>3, ConnectTyped DEF AnswerStart
  <2>. QED BY <1>0, <1>1, <1>3, <2>1, <2>2, TypesInGroupsPrime
           DEF AnswerStart, ServerTypes, PageTypes, CallTypes, CountTypes
<1>4. CASE AnswerPause
  <2>1. shown' \in [Items -> Status] /\ unsure' \in SUBSET Items
    BY <1>0, <1>2, <1>4 DEF AnswerPause, PageTypes
  <2>. QED BY <1>0, <1>1, <1>4, <2>1, TypesInGroupsPrime
           DEF AnswerPause, ServerTypes, PageTypes, PanelTypes, CallTypes, CountTypes, StreamTypes
<1>5. CASE AnswerRows
  <2>1. shown' \in [Items -> Status] /\ unsure' \in SUBSET Items
    BY <1>0, <1>2, <1>5 DEF AnswerRows, PageTypes
  <2>2. load' \in [Loads -> LoadRecs]
    BY <1>0, <1>2, <1>5, LoadingTyped DEF AnswerRows, CallTypes, PageTypes
  <2>. QED BY <1>0, <1>1, <1>5, <2>1, <2>2, TypesInGroupsPrime
           DEF AnswerRows, ServerTypes, PageTypes, PanelTypes, CallTypes, CountTypes, StreamTypes
<1>6. CASE AnswerDelete
  <2>1. shown' \in [Items -> Status] /\ bar' \in [Items -> {"none", "shown", "closing"}]
    BY <1>0, <1>6 DEF AnswerDelete, PageTypes, Status
  <2>. QED BY <1>0, <1>1, <1>6, <2>1, TypesInGroupsPrime
           DEF AnswerDelete, ServerTypes, PageTypes, PanelTypes, CallTypes, CountTypes,
               StreamTypes
<1>7. CASE AnswerDrop
  <2>1. shown' \in [Items -> Status] /\ active' \in [Sources -> SUBSET Jobs]
    BY <1>0, <1>7 DEF AnswerDrop, PageTypes, Status
  <2>. QED BY <1>0, <1>1, <1>7, <2>1, TypesInGroupsPrime
           DEF AnswerDrop, ServerTypes, PageTypes, PanelTypes, CallTypes, CountTypes, StreamTypes
<1>8. CASE RequestFails
  <2>1. CountTypes'
    <3>1. UNCHANGED count \/ Counts("failures", MaxFailures)
      BY <1>8 DEF RequestFails
    <3>. QED BY <1>0, <3>1, CountsTyped DEF CountTypes
  <2>2. unsure' \in SUBSET Items /\ missed' \in SUBSET Items
    BY <1>0, <1>8 DEF RequestFails, PageTypes, ItemsOf
  <2>. QED BY <1>0, <1>1, <1>8, <2>1, <2>2, TypesInGroupsPrime
           DEF RequestFails, ServerTypes, PageTypes, PanelTypes, CallTypes, StreamTypes
<1>. QED BY <1>3, <1>4, <1>5, <1>6, <1>7, <1>8

LEMMA ViewTyped ==
  ASSUME RuntimeTypeOK,
         \/ \E s \in Sources : Visit(s) \/ PanelCloses(s)
         \/ Unmount
         \/ \E i \in Items : BarCloses(i)
  PROVE  RuntimeTypeOK'
<1>0. /\ ServerTypes /\ StreamTypes /\ PageTypes /\ PanelTypes /\ CallTypes /\ CountTypes
  BY TypesInGroups
<1>. USE DEF mapVars, serverVars
<1>1. ASSUME NEW s \in Sources, Visit(s) PROVE RuntimeTypeOK'
  <2>1. /\ StreamTypes' /\ PanelTypes' /\ unsure' \in SUBSET Items
        /\ bar' \in [Items -> {"none", "shown", "closing"}] /\ missed' \in SUBSET Items
    BY <1>0, <1>1, ClearTyped DEF Visit
  <2>2. load' \in [Loads -> LoadRecs]
    BY <1>0, <1>1, LoadingTyped DEF Visit
  <2>3. CountTypes'
    BY <1>0, <1>1, CountsTyped DEF Visit
  <2>. QED BY <1>0, <1>1, <2>1, <2>2, <2>3, TypesInGroupsPrime
           DEF Visit, ServerTypes, PageTypes, CallTypes
<1>2. CASE Unmount
  <2>1. /\ StreamTypes' /\ PanelTypes' /\ unsure' \in SUBSET Items
        /\ bar' \in [Items -> {"none", "shown", "closing"}] /\ missed' \in SUBSET Items
    <3>1. CASE Clear(page)
      BY <1>0, <3>1, ClearTyped
    <3>2. CASE UNCHANGED <<stream, mapVars, panel, unsure, bar, missed>>
      BY <1>0, <3>2 DEF StreamTypes, PanelTypes, PageTypes
    <3>. QED BY <1>2, <3>1, <3>2 DEF Unmount
  <2>. QED BY <1>0, <1>2, <2>1, TypesInGroupsPrime
           DEF Unmount, ServerTypes, PageTypes, CallTypes, CountTypes
<1>3. ASSUME NEW s \in Sources, PanelCloses(s) PROVE RuntimeTypeOK'
  BY <1>0, <1>3, TypesInGroupsPrime
  DEF PanelCloses, ServerTypes, PageTypes, PanelTypes, CallTypes, CountTypes, StreamTypes
<1>4. ASSUME NEW i \in Items, BarCloses(i) PROVE RuntimeTypeOK'
  BY <1>0, <1>4, TypesInGroupsPrime
  DEF BarCloses, ServerTypes, PageTypes, PanelTypes, CallTypes, CountTypes, StreamTypes
<1>. QED BY <1>1, <1>2, <1>3, <1>4

(* A request in flight is one of the page of a source. *)
LEMMA StepPlaced ==
  ASSUME RuntimeTypeOK, RequestPlaced, [Next]_vars PROVE RequestPlaced'
<1>0. request \in RequestRecs /\ page \in Sources \cup {None}
  BY TypesInGroups DEF CallTypes, PageTypes
<1>1. CASE UNCHANGED request
  BY <1>1 DEF RequestPlaced
<1>2. CASE request' = NoRequest
  BY <1>2 DEF RequestPlaced, NoRequest
<1>4. ASSUME NEW kind, NEW items, Asks(kind, items) PROVE RequestPlaced'
  BY <1>0, <1>4 DEF Asks, RequestPlaced, NoRequest
<1>5. CASE ServerNext
  <2>1. ASSUME NEW j \in Jobs,
               EndsJob(j) \/ \E i \in Items : IndexesItem(j, i) \/ CrawlsItem(j, i)
        PROVE  UNCHANGED request
    BY <2>1 DEF EndsJob, IndexesItem, CrawlsItem, Claims, Skips, Misses, Pauses, Settles, Reports
  <2>2. CASE \/ ServeStart \/ ServePause \/ ServeUpload \/ ServeRename \/ ServeDelete \/ ServeDrop
             \/ Refuse
    <3>1. request.state # "free"
      BY <2>2 DEF ServeStart, ServePause, ServeUpload, ServeRename, ServeDelete, ServeDrop, Refuse,
                  Serves
    <3>2. request'.source = request.source
      BY <1>0, <2>2 DEF ServeStart, ServePause, ServeUpload, ServeRename, ServeDelete, ServeDrop,
                        Refuse, Answers, RequestRecs
    <3>. QED BY <3>1, <3>2 DEF RequestPlaced
  <2>. QED BY <1>1, <1>5, <2>1, <2>2 DEF ServerNext
<1>6. CASE PageNext
  <2>1. CASE AskStart \/ AskPause \/ AskDrop \/ AskOther
    BY <1>4, <2>1 DEF AskStart, AskPause, AskDrop, AskOther
  <2>2. CASE AnswerStart \/ AnswerPause \/ AnswerRows \/ AnswerDelete \/ AnswerDrop \/ RequestFails
    BY <1>2, <2>2 DEF AnswerStart, AnswerPause, AnswerRows, AnswerDelete, AnswerDrop,
                      RequestFails, Answered
  <2>3. CASE \/ \E s \in Sources : Visit(s) \/ PanelCloses(s)
             \/ Unmount
             \/ \E i \in Items : BarCloses(i)
    BY <1>1, <2>3 DEF Visit, PanelCloses, Unmount, BarCloses
  <2>. QED BY <1>6, <2>1, <2>2, <2>3 DEF PageNext
<1>7. CASE \E j \in Jobs, k \in Copies : StreamNext(j, k)
  BY <1>1, <1>7 DEF StreamNext, StreamOpens, StreamEvent, StreamEnds, StreamAsks,
                    StreamShowsItems, StreamShowsJobs, StreamFails
<1>8. CASE \E l \in Loads : LoadNext(l)
  BY <1>1, <1>8 DEF LoadNext, LoadAsks, LoadShowsItems, LoadShowsJobs, LoadFails
<1>9. CASE UNCHANGED vars
  BY <1>1, <1>9 DEF vars
<1>. QED BY <1>5, <1>6, <1>7, <1>8, <1>9 DEF Next

LEMMA StepTyped ==
  ASSUME RuntimeTypeOK, RequestPlaced, [Next]_vars PROVE RuntimeTypeOK'
<1>1. CASE ServerNext
  BY <1>1, JobStepTyped, ServeTyped DEF ServerNext
<1>2. CASE PageNext
  BY <1>2, AskTyped, AnswerTyped, ViewTyped DEF PageNext
<1>3. CASE \E j \in Jobs, k \in Copies : StreamNext(j, k)
  BY <1>3, StreamTyped
<1>4. CASE \E l \in Loads : LoadNext(l)
  BY <1>4, LoadTyped
<1>5. CASE UNCHANGED vars
  BY <1>5, TypesInGroups, TypesInGroupsPrime
  DEF ServerTypes, PageTypes, PanelTypes, CallTypes, CountTypes, StreamTypes, vars, mapVars
<1>. QED BY <1>1, <1>2, <1>3, <1>4, <1>5 DEF Next

(* Every variable keeps its type: useSourceItemsRuntime.ts, stores/source.ts *)
(* and the endpoints of source.py.                                           *)
THEOREM RuntimeTypesAreCorrect == Spec => []RuntimeTypeOK
<1>1. Init => RuntimeTypeOK /\ RequestPlaced
  <2>1. Init => request = NoRequest
    BY DEF Init
  <2>. QED BY <2>1, InitTyped DEF RequestPlaced, NoRequest
<1>2. RuntimeTypeOK /\ RequestPlaced /\ [Next]_vars => (RuntimeTypeOK /\ RequestPlaced)'
  BY StepTyped, StepPlaced
<1>. QED BY <1>1, <1>2, PTL DEF Spec

-----------------------------------------------------------------------------
(* The wiring: jobs, streams and maps fit together. *)

(* What the streams and the maps of a job are, in parts.                     *)
StreamFits(j, k) ==
  /\ stream[j][k].phase # "idle" => Exists(j)
  /\ stream[j][k].phase \in Reads => ~ stream[j][k].aborted
  /\ stream[j][k].phase \in Reloads => jobs[j].over
  /\ Running(j) /\ stream[j][k].phase # "idle" => controllers[j] = k

MapFits(j) ==
  /\ controllers[j] = None => jobSource[j] = None
  /\ controllers[j] # None => jobSource[j] = jobs[j].source /\ Live(j, controllers[j])

LEMMA FitEach ==
  /\ StreamsFit <=> \A j \in Jobs, k \in Copies : StreamFits(j, k)
  /\ MapsFit <=> \A j \in Jobs : MapFits(j)
BY DEF StreamsFit, MapsFit, StreamFits, MapFits

LEMMA FitEachPrime ==
  /\ StreamsFit' <=> \A j \in Jobs, k \in Copies : StreamFits(j, k)'
  /\ MapsFit' <=> \A j \in Jobs : MapFits(j)'
BY DEF StreamsFit, MapsFit, StreamFits, MapFits

LEMMA PhasesApart ==
  /\ Reads \cap Reloads = {} /\ "idle" \notin Reads \cup Reloads
  /\ \A p : p \in Reads \/ p \in Reloads => p # "idle"
BY DEF Reads, Reloads

(* A stream goes on, or begins to reload the page. *)
LEMMA StreamGoesOn ==
  ASSUME StreamTypes, StreamsFit, MapsFit, NEW j \in Jobs, NEW k \in Copies, NEW x \in StreamRecs,
         stream[j][k].phase # "idle", x.phase # "idle", x.aborted = stream[j][k].aborted,
         x.phase \in Reads => stream[j][k].phase \in Reads, x.phase \in Reloads => jobs[j].over,
         SetStream(j, k, x), UNCHANGED <<jobs, mapVars>>
  PROVE  StreamsFit' /\ MapsFit'
<1>0. stream'[j][k] = x
  BY DEF SetStream, StreamTypes
<1>1. ASSUME NEW j1 \in Jobs, NEW k1 \in Copies PROVE StreamFits(j1, k1)'
  <2>0. StreamFits(j1, k1) /\ StreamFits(j, k)
    BY FitEach
  <2>1. CASE j1 = j /\ k1 = k
    BY <1>0, <2>0, <2>1 DEF StreamFits, Exists, Running, mapVars
  <2>2. CASE j1 # j \/ k1 # k
    <3>1. stream'[j1][k1] = stream[j1][k1]
      BY <2>2 DEF SetStream, StreamTypes
    <3>. QED BY <2>0, <3>1 DEF StreamFits, Exists, Running, mapVars
  <2>. QED BY <2>1, <2>2
<1>2. ASSUME NEW j1 \in Jobs PROVE MapFits(j1)'
  <2>0. MapFits(j1) /\ controllers[j1] \in Copies \cup {None}
    BY FitEach DEF StreamTypes
  <2>1. CASE j1 = j /\ controllers[j1] = k
    BY <1>0, <2>0, <2>1 DEF MapFits, Live, mapVars
  <2>2. CASE j1 # j \/ controllers[j1] # k
    <3>1. controllers[j1] # None => stream'[j1][controllers[j1]] = stream[j1][controllers[j1]]
      BY <2>0, <2>2 DEF SetStream, StreamTypes
    <3>. QED BY <2>0, <3>1 DEF MapFits, Live, mapVars
  <2>. QED BY <2>1, <2>2
<1>. QED BY <1>1, <1>2, FitEachPrime

(* A stream ends. *)
LEMMA StreamIsOver ==
  ASSUME StreamTypes, StreamsFit, MapsFit, NEW j \in Jobs, NEW k \in Copies,
         stream[j][k].phase # "idle", Finally(j, k), UNCHANGED jobs
  PROVE  StreamsFit' /\ MapsFit'
<1>0. /\ stream'[j][k] = NoStream /\ controllers'[j] = None /\ jobSource'[j] = None
      /\ \A j1 \in Jobs, k1 \in Copies :
           j1 # j \/ k1 # k => stream'[j1][k1] = stream[j1][k1]
      /\ \A j1 \in Jobs : j1 # j => /\ controllers'[j1] = controllers[j1]
                                   /\ jobSource'[j1] = jobSource[j1]
  BY DEF Finally, SetStream, StreamTypes
<1>1. ASSUME NEW j1 \in Jobs, NEW k1 \in Copies PROVE StreamFits(j1, k1)'
  <2>0. StreamFits(j1, k1) /\ StreamFits(j, k)
    BY FitEach
  <2>1. CASE j1 = j /\ k1 = k
    BY <1>0, <2>1, PhasesApart DEF StreamFits, NoStream
  <2>2. CASE j1 = j /\ k1 # k
    BY <1>0, <2>0, <2>2 DEF StreamFits, Exists, Running
  <2>3. CASE j1 # j
    BY <1>0, <2>0, <2>3 DEF StreamFits, Exists, Running
  <2>. QED BY <2>1, <2>2, <2>3
<1>2. ASSUME NEW j1 \in Jobs PROVE MapFits(j1)'
  <2>0. MapFits(j1) /\ controllers[j1] \in Copies \cup {None}
    BY FitEach DEF StreamTypes
  <2>. QED BY <1>0, <2>0 DEF MapFits, Live
<1>. QED BY <1>1, <1>2, FitEachPrime

(* Jobs are connected. *)
LEMMA ConnectFits ==
  ASSUME StreamTypes, StreamsFit, MapsFit, NEW S \in SUBSET Jobs, \A j \in S : Exists(j),
         Connect(S), UNCHANGED jobs
  PROVE  StreamsFit' /\ MapsFit'
<1> DEFINE new == {j \in S : controllers[j] = None}
<1>1. PICK copy \in [new -> Copies] :
         /\ \A j \in new : stream[j][copy[j]].phase = "idle"
         /\ controllers' = [j \in Jobs |-> IF j \in new THEN copy[j] ELSE controllers[j]]
         /\ jobSource' = [j \in Jobs |-> IF j \in new THEN jobs[j].source ELSE jobSource[j]]
         /\ stream' = [j \in Jobs |->
               IF j \in new
               THEN [stream[j] EXCEPT ![copy[j]] = [NoStream EXCEPT !.phase = "opening",
                                                                    !.at = lastId[j]]]
               ELSE stream[j]]
  BY DEF Connect
<1>2. ASSUME NEW j \in new
      PROVE  /\ j \in Jobs /\ Exists(j) /\ copy[j] \in Copies /\ controllers[j] = None
             /\ controllers'[j] = copy[j] /\ copy[j] # None /\ jobSource'[j] = jobs[j].source
             /\ stream'[j][copy[j]].phase = "opening" /\ ~ stream'[j][copy[j]].aborted
             /\ \A k \in Copies : k # copy[j] => stream'[j][k] = stream[j][k]
  <2>1. /\ j \in Jobs /\ Exists(j) /\ copy[j] \in Copies /\ controllers[j] = None
        /\ controllers'[j] = copy[j] /\ jobSource'[j] = jobs[j].source
        /\ stream[j] \in [Copies -> StreamRecs]
    BY <1>1 DEF StreamTypes
  <2>2. copy[j] # None
    BY <2>1, SourceRuntimeAssumption
  <2>3. stream'[j] = [stream[j] EXCEPT ![copy[j]] = [NoStream EXCEPT !.phase = "opening",
                                                                   !.at = lastId[j]]]
    BY <1>1, <2>1
  <2>4. stream'[j][copy[j]] = [NoStream EXCEPT !.phase = "opening", !.at = lastId[j]]
    BY <2>1, <2>3
  <2>. QED BY <2>1, <2>2, <2>3, <2>4 DEF NoStream
<1>3. ASSUME NEW j \in Jobs, j \notin new
      PROVE  /\ controllers'[j] = controllers[j] /\ jobSource'[j] = jobSource[j]
             /\ stream'[j] = stream[j]
  BY <1>1, <1>3
<1> HIDE DEF new
<1>4. ASSUME NEW j \in Jobs, NEW k \in Copies PROVE StreamFits(j, k)'
  <2>0. StreamFits(j, k)
    BY FitEach
  <2>1. CASE j \in new /\ k = copy[j]
    BY <1>2, <2>1 DEF StreamFits, Exists, Running, Reloads
  <2>2. CASE j \in new /\ k # copy[j]
    BY <1>2, <2>0, <2>2, SourceRuntimeAssumption DEF StreamFits, Exists, Running
  <2>3. CASE j \notin new
    BY <1>3, <2>0, <2>3 DEF StreamFits, Exists, Running
  <2>. QED BY <2>1, <2>2, <2>3
<1>5. ASSUME NEW j \in Jobs PROVE MapFits(j)'
  <2>0. MapFits(j)
    BY FitEach
  <2>1. CASE j \in new
    BY <1>2, <2>1 DEF MapFits, Live
  <2>2. CASE j \notin new
    BY <1>3, <2>0, <2>2 DEF MapFits, Live
  <2>. QED BY <2>1, <2>2
<1>. QED BY <1>4, <1>5, FitEachPrime

(* The streams of a source are disconnected. *)
LEMMA DisconnectFits ==
  ASSUME StreamTypes, StreamsFit, MapsFit, NEW s, Disconnect(s), UNCHANGED jobs
  PROVE  StreamsFit' /\ MapsFit'
<1> DEFINE cut == {j \in Jobs : jobSource[j] = s}
           after(x) == IF x.phase \in Reads THEN NoStream ELSE [x EXCEPT !.aborted = TRUE]
<1>1. /\ stream' = [j \in Jobs |->
           IF j \in cut /\ controllers[j] # None
           THEN [stream[j] EXCEPT ![controllers[j]] = after(@)] ELSE stream[j]]
      /\ controllers' = [j \in Jobs |-> IF j \in cut THEN None ELSE controllers[j]]
      /\ jobSource' = [j \in Jobs |-> IF j \in cut THEN None ELSE jobSource[j]]
  BY DEF Disconnect
<1>2. ASSUME NEW j \in Jobs, NEW k \in Copies, j \in cut, controllers[j] = k
      PROVE  stream'[j][k] = after(stream[j][k])
  <2> HIDE DEF after, cut
  <2>1. k # None /\ stream[j] \in [Copies -> StreamRecs]
    BY SourceRuntimeAssumption DEF StreamTypes
  <2>2. stream'[j] = [stream[j] EXCEPT ![k] = after(stream[j][k])]
    BY <1>1, <1>2, <2>1
  <2>. QED BY <2>1, <2>2
<1>3. ASSUME NEW j \in Jobs, NEW k \in Copies, j \notin cut \/ controllers[j] # k
      PROVE  stream'[j][k] = stream[j][k]
  <2> HIDE DEF after, cut
  <2>1. stream[j] \in [Copies -> StreamRecs]
    BY DEF StreamTypes
  <2>2. CASE j \in cut /\ controllers[j] # None
    <3>1. stream'[j] = [stream[j] EXCEPT ![controllers[j]] = after(@)]
      BY <1>1, <2>2
    <3>. QED BY <1>3, <2>1, <2>2, <3>1
  <2>3. CASE ~ (j \in cut /\ controllers[j] # None)
    BY <1>1, <2>3
  <2>. QED BY <2>2, <2>3
<1>4. ASSUME NEW j \in Jobs, NEW k \in Copies PROVE StreamFits(j, k)'
  <2>0. StreamFits(j, k) /\ MapFits(j) /\ stream[j][k] \in StreamRecs
    BY FitEach DEF StreamTypes
  <2>1. CASE j \in cut /\ controllers[j] = k
    <3>0. stream'[j][k] = after(stream[j][k])
      BY <1>2, <2>1
    <3>1. CASE stream[j][k].phase \in Reads
      BY <3>0, <3>1, PhasesApart DEF StreamFits, NoStream
    <3>2. CASE stream[j][k].phase \notin Reads
      <4>1. stream'[j][k].phase = stream[j][k].phase
        BY <2>0, <3>0, <3>2 DEF StreamRecs
      <4>2. stream[j][k].phase \in Reloads \cup {"idle"}
        BY <2>0, <3>2 DEF StreamRecs
      <4>. QED BY <2>0, <3>2, <4>1, <4>2, PhasesApart DEF StreamFits, Exists, Running
    <3>. QED BY <3>1, <3>2
  <2>2. CASE j \in cut /\ controllers[j] # k
    BY <1>1, <1>3, <2>0, <2>2 DEF StreamFits, Exists, Running
  <2>3. CASE j \notin cut
    BY <1>1, <1>3, <2>0, <2>3 DEF StreamFits, Exists, Running
  <2>. QED BY <2>1, <2>2, <2>3
<1>5. ASSUME NEW j \in Jobs PROVE MapFits(j)'
  <2>0. MapFits(j) /\ controllers[j] \in Copies \cup {None}
    BY FitEach DEF StreamTypes
  <2>1. CASE j \in cut
    BY <1>1, <2>1 DEF MapFits
  <2>2. CASE j \notin cut
    <3>1. controllers'[j] = controllers[j] /\ jobSource'[j] = jobSource[j]
      BY <1>1, <2>2
    <3>. QED BY <1>3, <2>0, <2>2, <3>1 DEF MapFits, Live
  <2>. QED BY <2>1, <2>2
<1>. QED BY <1>4, <1>5, FitEachPrime

Servers == <<jobs, log>>
Wiring  == <<stream, controllers, jobSource>>

LEMMA WiringKept ==
  ASSUME StreamsFit, MapsFit, UNCHANGED Wiring, UNCHANGED jobs PROVE StreamsFit' /\ MapsFit'
BY DEF StreamsFit, MapsFit, Wiring, Exists, Running, Live

LEMMA JobsKept ==
  ASSUME JobsFit, UNCHANGED Servers PROVE JobsFit'
BY DEF JobsFit, Servers, Exists

LEMMA RequestKept ==
  ASSUME RequestFits, UNCHANGED <<jobs, request>> PROVE RequestFits'
BY DEF RequestFits, RequestPlaced, Exists

LEMMA NoRequestFits == ASSUME request' = NoRequest PROVE RequestFits'
BY DEF RequestFits, RequestPlaced, NoRequest, Starts

LEMMA ReportsFit ==
  ASSUME RuntimeTypeOK, Wired, NEW j \in Jobs, NEW i \in Items, NEW status, NEW event,
         NEW left \in SUBSET jobs[j].left, Reports(j, i, status, event, left),
         event.item # None => event.item \in jobs[j].left
  PROVE  Wired'
<1>0. /\ jobs \in [Jobs -> JobRecs] /\ log \in [Jobs -> Seq(Events)] /\ JobsFit
  BY TypesInGroups DEF ServerTypes, Wired
<1>1. /\ \A x \in Jobs : /\ jobs'[x].kind = jobs[x].kind /\ jobs'[x].source = jobs[x].source
                         /\ jobs'[x].over = jobs[x].over
                         /\ x # j => jobs'[x] = jobs[x] /\ log'[x] = log[x]
      /\ jobs'[j].left = left /\ log'[j] = Append(log[j], event) /\ Running(j)
      /\ UNCHANGED <<Wiring, request>>
  BY <1>0 DEF Reports, JobRecs, mapVars, Wiring
<1>2. JobsFit'
  <2>1. ASSUME NEW x \in Jobs
        PROVE  /\ Exists(x)' <=> Exists(x)
               /\ ~ Exists(x)' => jobs'[x] = NoJob
               /\ Exists(x)' => jobs'[x].source \in Sources
               /\ jobs'[x].left \subseteq ItemsOf(jobs'[x].source)
    BY <1>0, <1>1 DEF JobsFit, Exists, Running
  <2>2. ASSUME NEW x \in Jobs, NEW n \in 1..Len(log'[x]), log'[x][n].item # None
        PROVE  log'[x][n].item \in ItemsOf(jobs'[x].source)
    <3>1. CASE x # j
      BY <1>0, <1>1, <2>2, <3>1 DEF JobsFit
    <3>2. CASE x = j /\ n \in 1..Len(log[j])
      <4>1. log'[x][n] = log[j][n]
        BY <1>0, <1>1, <3>2
      <4>. QED BY <1>0, <1>1, <2>2, <3>2, <4>1 DEF JobsFit
    <3>3. CASE x = j /\ n \notin 1..Len(log[j])
      <4>1. n = Len(log[j]) + 1 /\ log'[x][n] = event
        BY <1>0, <1>1, <3>3
      <4>. QED BY <1>0, <1>1, <2>2, <3>3, <4>1 DEF JobsFit
    <3>. QED BY <3>1, <3>2, <3>3
  <2>. QED BY <2>1, <2>2 DEF JobsFit
<1>3. StreamsFit' /\ MapsFit'
  BY <1>1 DEF Wired, StreamsFit, MapsFit, Wiring, Exists, Running, Live
<1>4. RequestFits'
  <2>1. request.job \in SUBSET Jobs
    BY TypesInGroups DEF CallTypes, RequestRecs
  <2>. QED BY <1>1, <2>1 DEF Wired, RequestFits, RequestPlaced, Exists
<1>. QED BY <1>2, <1>3, <1>4 DEF Wired

LEMMA JobStepWired ==
  ASSUME RuntimeTypeOK, Wired, NEW j \in Jobs,
         EndsJob(j) \/ \E i \in Items : IndexesItem(j, i) \/ CrawlsItem(j, i)
  PROVE  Wired'
<1>1. CASE EndsJob(j)
  <2>0. /\ jobs \in [Jobs -> JobRecs] /\ log \in [Jobs -> Seq(Events)] /\ JobsFit
    BY TypesInGroups DEF ServerTypes, Wired
  <2>1. /\ \A x \in Jobs : /\ jobs'[x].kind = jobs[x].kind /\ jobs'[x].source = jobs[x].source
                           /\ jobs'[x].left = jobs[x].left
                           /\ jobs[x].over => jobs'[x].over
                           /\ x # j => jobs'[x] = jobs[x] /\ log'[x] = log[x]
        /\ log'[j] = Append(log[j], Event("sync_complete", None, None)) /\ Running(j)
        /\ UNCHANGED <<Wiring, request>>
    BY <1>1, <2>0 DEF EndsJob, JobRecs, mapVars, Wiring
  <2>2. JobsFit'
    <3>1. ASSUME NEW x \in Jobs
          PROVE  /\ Exists(x)' <=> Exists(x)
                 /\ ~ Exists(x)' => jobs'[x] = NoJob
                 /\ Exists(x)' => jobs'[x].source \in Sources
                 /\ jobs'[x].left \subseteq ItemsOf(jobs'[x].source)
      BY <2>0, <2>1 DEF JobsFit, Exists, Running
    <3>2. ASSUME NEW x \in Jobs, NEW n \in 1..Len(log'[x]), log'[x][n].item # None
          PROVE  log'[x][n].item \in ItemsOf(jobs'[x].source)
      <4>1. CASE x # j
        BY <2>0, <2>1, <3>2, <4>1 DEF JobsFit
      <4>2. CASE x = j
        <5>1. n \in 1..Len(log[j]) /\ log'[x][n] = log[j][n]
          BY <2>0, <2>1, <3>2, <4>2 DEF Event
        <5>. QED BY <2>0, <2>1, <3>2, <4>2, <5>1 DEF JobsFit
      <4>. QED BY <4>1, <4>2
    <3>. QED BY <3>1, <3>2 DEF JobsFit
  <2>3. StreamsFit' /\ MapsFit'
    BY <2>1 DEF Wired, StreamsFit, MapsFit, Wiring, Exists, Running, Live
  <2>4. RequestFits'
    <3>1. request.job \in SUBSET Jobs
      BY TypesInGroups DEF CallTypes, RequestRecs
    <3>. QED BY <2>1, <3>1 DEF Wired, RequestFits, RequestPlaced, Exists
  <2>. QED BY <2>2, <2>3, <2>4 DEF Wired
<1>2. ASSUME NEW i \in Items, IndexesItem(j, i) \/ CrawlsItem(j, i) PROVE Wired'
  <2>1. i \in jobs[j].left /\ jobs[j].left \ {i} \in SUBSET jobs[j].left
    BY <1>2 DEF IndexesItem, CrawlsItem
  <2>2. ASSUME NEW status, NEW name, NEW x \in {i, None}, NEW told,
               NEW left \in {jobs[j].left, jobs[j].left \ {i}},
               Reports(j, i, status, Event(name, x, told), left)
        PROVE  Wired'
    <3>1. Event(name, x, told).item = x
      BY DEF Event
    <3>. HIDE DEF Event
    <3>. QED BY <2>1, <2>2, <3>1, ReportsFit
  <2>. HIDE DEF Wired
  <2>3. CASE Claims(j, i)
    BY <2>2, <2>3 DEF Claims
  <2>4. CASE Skips(j, i)
    BY <2>2, <2>4 DEF Skips
  <2>5. CASE Misses(j, i)
    BY <2>2, <2>5 DEF Misses
  <2>6. CASE Pauses(j, i)
    BY <2>2, <2>6 DEF Pauses
  <2>7. CASE Settles(j, i)
    BY <2>2, <2>7 DEF Settles
  <2>8. CASE CrawlsItem(j, i)
    BY <2>2, <2>8 DEF CrawlsItem
  <2>. QED BY <1>2, <2>3, <2>4, <2>5, <2>6, <2>7, <2>8 DEF IndexesItem
<1>. QED BY <1>1, <1>2

LEMMA ServeWired ==
  ASSUME RuntimeTypeOK, Wired,
         \/ ServeStart \/ ServePause \/ ServeUpload \/ ServeRename \/ ServeDelete \/ ServeDrop
         \/ Refuse
  PROVE  Wired'
<1>0. /\ request \in RequestRecs /\ jobs \in [Jobs -> JobRecs] /\ request.state = "sent"
      /\ request.job = {} /\ request.source \in Sources /\ UNCHANGED <<Wiring, log>>
      /\ request.items \subseteq ItemsOf(request.source)
  <2>1. request.state = "sent" /\ UNCHANGED <<Wiring, log>>
    BY DEF ServeStart, ServePause, ServeUpload, ServeRename, ServeDelete, ServeDrop, Refuse, Serves,
           Wiring, viewVars, mapVars, serverVars
  <2>2. request \in RequestRecs /\ jobs \in [Jobs -> JobRecs]
    BY TypesInGroups DEF CallTypes, ServerTypes
  <2>. QED BY <2>1, <2>2 DEF Wired, RequestFits, RequestPlaced
<1>1. CASE ServeStart /\ ActiveJob = {}
  <2>1. PICK j \in Jobs :
          /\ jobs[j].kind = "none"
          /\ jobs' = [jobs EXCEPT ![j] = Started(request.kind, request.source, request.items)]
          /\ request' = [request EXCEPT !.state = "served", !.job = {j}, !.fresh = TRUE]
    BY <1>1 DEF ServeStart
  <2>2. /\ jobs'[j] = Started(request.kind, request.source, request.items)
        /\ \A x \in Jobs : x # j => jobs'[x] = jobs[x]
    BY <1>0, <2>1
  <2>3. /\ jobs'[j].kind \in Starts /\ jobs'[j].source = request.source
        /\ jobs'[j].left \subseteq ItemsOf(request.source)
    <3>1. request.kind \in Starts
      BY <1>1 DEF ServeStart, Serves
    <3>2. \A x \in Items : request.kind # "sync" /\ x \in jobs'[j].left => x \in request.items
      BY <2>2 DEF Started
    <3>3. \A x : request.kind = "sync" /\ x \in jobs'[j].left => x \in ItemsOf(request.source)
      BY <2>2 DEF Started
    <3>4. jobs'[j].kind = request.kind /\ jobs'[j].source = request.source
      BY <2>2 DEF Started
    <3>5. jobs'[j].left \subseteq Items
      BY <1>0, <2>2 DEF Started, ItemsOf
    <3>. QED BY <1>0, <3>1, <3>2, <3>3, <3>4, <3>5
  <2>4. ~ Exists(j) /\ jobs[j] = NoJob /\ Exists(j)'
    BY <2>1, <2>3 DEF Exists, Wired, JobsFit, Starts
  <2>5. ASSUME NEW n \in 1..Len(log[j]) PROVE log[j][n].item = None
    BY <2>4, SourceRuntimeAssumption DEF Wired, JobsFit, NoJob, ItemsOf
  <2>6. JobsFit'
    <3>1. ASSUME NEW x \in Jobs
          PROVE  /\ ~ Exists(x)' => jobs'[x] = NoJob
                 /\ Exists(x)' => jobs'[x].source \in Sources
                 /\ jobs'[x].left \subseteq ItemsOf(jobs'[x].source)
      BY <1>0, <2>2, <2>3, <2>4 DEF Wired, JobsFit, Exists
    <3>2. ASSUME NEW x \in Jobs, NEW n \in 1..Len(log'[x]), log'[x][n].item # None
          PROVE  log'[x][n].item \in ItemsOf(jobs'[x].source)
      BY <1>0, <2>2, <2>5, <3>2 DEF Wired, JobsFit
    <3>. QED BY <3>1, <3>2 DEF JobsFit
  <2>7. StreamsFit'
    BY <1>0, <2>2, <2>4, PhasesApart DEF Wired, StreamsFit, Wiring, Exists, Running
  <2>8. MapsFit'
    <3>1. ASSUME NEW x \in Jobs PROVE MapFits(x)'
      <4>0. MapFits(x) /\ controllers[x] \in Copies \cup {None}
        BY FitEach, TypesInGroups DEF Wired, StreamTypes
      <4>1. CASE x = j
        <5>1. controllers[j] = None
          BY <2>4, <4>0, <4>1 DEF MapFits, Live, Wired, StreamsFit
        <5>. QED BY <1>0, <4>0, <4>1, <5>1 DEF MapFits, Wiring
      <4>2. CASE x # j
        BY <1>0, <2>2, <4>0, <4>2 DEF MapFits, Live, Wiring
      <4>. QED BY <4>1, <4>2
    <3>. QED BY <3>1, FitEachPrime
  <2>9. RequestFits'
    <3>1. /\ request'.source = request.source /\ request'.items = request.items
          /\ request'.state = "served" /\ request'.kind = request.kind /\ request'.job = {j}
      BY <1>0, <2>1 DEF RequestRecs
    <3>2. request.kind \in Starts
      BY <1>1 DEF ServeStart, Serves
    <3>. QED BY <1>0, <2>2, <2>3, <2>4, <3>1, <3>2 DEF RequestFits, RequestPlaced, ItemsOf
  <2>. QED BY <2>6, <2>7, <2>8, <2>9 DEF Wired
<1>2. CASE ServeStart /\ ActiveJob # {}
  <2>1. request' = [request EXCEPT !.state = "served", !.job = ActiveJob] /\ UNCHANGED jobs
    BY <1>2 DEF ServeStart
  <2>2. /\ request'.source = request.source /\ request'.items = request.items
        /\ request'.state = "served" /\ request'.kind = request.kind /\ request'.job = ActiveJob
    BY <1>0, <2>1 DEF RequestRecs
  <2>3. \A j \in ActiveJob : Exists(j) /\ jobs[j].source = request.source
    BY DEF ActiveJob, ActiveJobs, Running, Exists
  <2>4. request.kind \in Starts
    BY <1>2 DEF ServeStart, Serves
  <2>5. RequestFits'
    BY <1>0, <1>2, <2>1, <2>2, <2>3, <2>4 DEF RequestFits, RequestPlaced, Exists, ItemsOf
  <2>. QED BY <1>0, <2>1, <2>5, WiringKept, JobsKept DEF Wired, Servers
<1>3. CASE ServePause \/ ServeUpload \/ ServeRename \/ ServeDelete \/ ServeDrop \/ Refuse
  <2>1. UNCHANGED jobs
    BY <1>3 DEF ServePause, ServeUpload, ServeRename, ServeDelete, ServeDrop, Refuse, serverVars
  <2>2. /\ request'.source = request.source /\ request'.items = request.items
        /\ request'.kind = request.kind /\ request'.job = {}
    BY <1>0, <1>3 DEF ServePause, ServeUpload, ServeRename, ServeDelete, ServeDrop, Refuse,
                      Answers, RequestRecs
  <2>3. request'.state = "served" => request.kind \notin Starts
    BY <1>0, <1>3 DEF ServePause, ServeUpload, ServeRename, ServeDelete, ServeDrop, Refuse,
                      Serves, Starts, RequestRecs
  <2>4. RequestFits'
    BY <1>0, <2>1, <2>2, <2>3 DEF RequestFits, RequestPlaced, ItemsOf
  <2>. QED BY <1>0, <2>1, <2>4, WiringKept, JobsKept DEF Wired, Servers
<1>. QED BY <1>1, <1>2, <1>3

LEMMA StreamWired ==
  ASSUME RuntimeTypeOK, Wired, NEW j \in Jobs, NEW k \in Copies, StreamNext(j, k)
  PROVE  Wired'
<1>0. /\ StreamTypes /\ ServerTypes /\ stream[j][k] \in StreamRecs /\ StreamsFit /\ MapsFit
      /\ ActiveJobs \in SUBSET Jobs
  BY TypesInGroups DEF StreamTypes, Wired, ActiveJobs
<1>1. UNCHANGED <<Servers, jobs, request>>
  BY DEF StreamNext, StreamOpens, StreamEvent, StreamEnds, StreamAsks, StreamShowsItems,
         StreamShowsJobs, StreamFails, serverVars, Servers
<1>2. JobsFit' /\ RequestFits'
  BY <1>1, JobsKept, RequestKept DEF Wired
<1>3. ASSUME StreamsFit' /\ MapsFit' PROVE Wired'
  BY <1>2, <1>3 DEF Wired
<1>4. CASE StreamOpens(j, k)
  <2> DEFINE x == [stream[j][k] EXCEPT !.phase = "reading"]
  <2>1. x \in StreamRecs /\ x.phase = "reading" /\ x.aborted = stream[j][k].aborted
    BY <1>0 DEF StreamRecs, Reads
  <2>2. stream[j][k].phase = "opening" /\ SetStream(j, k, x) /\ UNCHANGED mapVars
    BY <1>4 DEF StreamOpens
  <2>. HIDE DEF x
  <2>. QED BY <1>0, <1>1, <1>3, <2>1, <2>2, StreamGoesOn DEF Reads, Reloads
<1>5. CASE StreamEvent(j, k)
  <2>1. PICK n \in (stream[j][k].at + 1)..Len(log[j]) :
          SetStream(j, k, [stream[j][k] EXCEPT !.at = n])
    BY <1>5 DEF StreamEvent
  <2> DEFINE x == [stream[j][k] EXCEPT !.at = n]
  <2>2. n \in Nat
    BY <1>0, <2>1 DEF ServerTypes, StreamRecs
  <2>3. x \in StreamRecs /\ x.phase = stream[j][k].phase /\ x.aborted = stream[j][k].aborted
    BY <1>0, <2>2 DEF StreamRecs
  <2>4. stream[j][k].phase = "reading" /\ SetStream(j, k, x) /\ UNCHANGED mapVars
    BY <1>5, <2>1 DEF StreamEvent
  <2>. HIDE DEF x
  <2>. QED BY <1>0, <1>1, <1>3, <2>3, <2>4, StreamGoesOn DEF Reads, Reloads
<1>6. CASE StreamEnds(j, k)
  <2> DEFINE x == [stream[j][k] EXCEPT !.phase = "asksItems"]
  <2>1. x \in StreamRecs /\ x.phase = "asksItems" /\ x.aborted = stream[j][k].aborted
    BY <1>0 DEF StreamRecs, Reloads
  <2>2. stream[j][k].phase = "reading" /\ SetStream(j, k, x) /\ UNCHANGED mapVars /\ jobs[j].over
    BY <1>6 DEF StreamEnds
  <2>. HIDE DEF x
  <2>. QED BY <1>0, <1>1, <1>3, <2>1, <2>2, StreamGoesOn DEF Reads, Reloads
<1>7. CASE StreamAsks(j, k)
  <2>0. stream[j][k].phase \in {"asksItems", "asksJobs"} /\ UNCHANGED mapVars
    BY <1>7 DEF StreamAsks
  <2>1. jobs[j].over
    BY <1>0, <2>0 DEF StreamsFit, Reloads
  <2>2. PICK x \in {[stream[j][k] EXCEPT !.phase = "hasItems",
                                         !.statuses = Snapshot(jobs[j].source)],
                    [stream[j][k] EXCEPT !.phase = "hasJobs", !.listed = ActiveJobs]} :
          SetStream(j, k, x)
    BY <1>7 DEF StreamAsks
  <2>3. ASSUME NEW statuses \in [Items -> Status], NEW listed \in SUBSET Jobs,
               \/ x = [stream[j][k] EXCEPT !.phase = "hasItems", !.statuses = statuses]
               \/ x = [stream[j][k] EXCEPT !.phase = "hasJobs", !.listed = listed]
        PROVE  /\ x \in StreamRecs /\ x.phase \in {"hasItems", "hasJobs"}
               /\ x.aborted = stream[j][k].aborted
    BY <1>0, <2>3 DEF StreamRecs, Reloads
  <2>4. /\ x \in StreamRecs /\ x.phase \in {"hasItems", "hasJobs"}
        /\ x.aborted = stream[j][k].aborted
    BY <1>0, <2>2, <2>3, SnapshotTyped
  <2>. QED BY <1>0, <1>1, <1>3, <2>0, <2>1, <2>2, <2>4, StreamGoesOn DEF Reads, Reloads
<1>8. CASE StreamShowsItems(j, k)
  <2> DEFINE x == [NoStream EXCEPT !.phase = "asksJobs", !.aborted = stream[j][k].aborted]
  <2>1. x \in StreamRecs /\ x.phase = "asksJobs" /\ x.aborted = stream[j][k].aborted
    BY <1>0, EmptyRecords DEF StreamRecs, Reloads
  <2>2. stream[j][k].phase = "hasItems" /\ SetStream(j, k, x) /\ UNCHANGED mapVars
    BY <1>8 DEF StreamShowsItems
  <2>3. jobs[j].over
    BY <1>0, <2>2 DEF StreamsFit, Reloads
  <2>. HIDE DEF x
  <2>. QED BY <1>0, <1>1, <1>3, <2>1, <2>2, <2>3, StreamGoesOn DEF Reads, Reloads
<1>9. CASE StreamShowsJobs(j, k) \/ StreamFails(j, k)
  BY <1>0, <1>1, <1>3, <1>9, StreamIsOver DEF StreamShowsJobs, StreamFails
<1>. QED BY <1>4, <1>5, <1>6, <1>7, <1>8, <1>9 DEF StreamNext

LEMMA LoadWired ==
  ASSUME RuntimeTypeOK, Wired, NEW l \in Loads, LoadNext(l) PROVE Wired'
<1>0. /\ StreamTypes /\ StreamsFit /\ MapsFit /\ page \in Sources \cup {None}
      /\ load[l].listed \in SUBSET Jobs
  BY TypesInGroups DEF PageTypes, Wired, CallTypes, LoadRecs
<1>1. UNCHANGED <<Servers, jobs, request>>
  BY DEF LoadNext, LoadAsks, LoadShowsItems, LoadShowsJobs, LoadFails, serverVars, Servers
<1>2. JobsFit' /\ RequestFits'
  BY <1>1, JobsKept, RequestKept DEF Wired
<1>3. CASE LoadShowsJobs(l)
  <2> DEFINE S == IF page = None THEN {} ELSE active'[page]
  <2>1. ASSUME NEW j \in S PROVE j \in Jobs /\ Exists(j)
    <3>1. page \in Sources /\ j \in load[l].listed /\ jobs[j].source = page
      BY <1>0, <1>3, <2>1 DEF LoadShowsJobs, SetActive
    <3>2. j \in Jobs
      BY <1>0, <3>1
    <3>. QED BY <3>1, <3>2, SourceRuntimeAssumption DEF Wired, JobsFit, NoJob, Exists
  <2>2. Connect(S)
    BY <1>3 DEF LoadShowsJobs
  <2>. HIDE DEF S
  <2>3. S \in SUBSET Jobs /\ \A j \in S : Exists(j)
    BY <2>1
  <2>4. StreamsFit' /\ MapsFit'
    BY <1>0, <1>1, <2>2, <2>3, ConnectFits
  <2>. QED BY <1>2, <2>4 DEF Wired
<1>4. CASE LoadAsks(l) \/ LoadShowsItems(l) \/ LoadFails(l)
  <2>1. UNCHANGED Wiring
    BY <1>4 DEF LoadAsks, LoadShowsItems, LoadFails, Wiring, mapVars
  <2>. QED BY <1>1, <1>2, <2>1, WiringKept DEF Wired
<1>. QED BY <1>3, <1>4 DEF LoadNext

LEMMA AsksFit ==
  ASSUME NEW kind, NEW items \in SUBSET ItemsOf(page), page \in Sources \cup {None},
         Asks(kind, items)
  PROVE  RequestFits'
<1>1. /\ request'.state = "sent" /\ request'.source = page /\ request'.items = items
      /\ request'.job = {} /\ page # None
  BY DEF Asks, NoRequest
<1>. QED BY <1>1 DEF RequestFits, RequestPlaced, ItemsOf

LEMMA AskWired ==
  ASSUME RuntimeTypeOK, Wired, AskStart \/ AskPause \/ AskDrop \/ AskOther PROVE Wired'
<1>0. StreamTypes /\ StreamsFit /\ MapsFit /\ page \in Sources \cup {None}
  BY TypesInGroups DEF PageTypes, Wired
<1>1. UNCHANGED <<Servers, jobs>>
  BY DEF AskStart, AskPause, AskDrop, AskOther, serverVars, Servers
<1>2. JobsFit'
  BY <1>1, JobsKept DEF Wired
<1>3. RequestFits'
  <2>1. \A kind, items : items \subseteq ItemsOf(page) /\ Asks(kind, items) => RequestFits'
    BY <1>0, AsksFit
  <2>2. \A statuses : Rows(statuses) \subseteq ItemsOf(page)
    BY DEF Rows, ItemsOf
  <2>. HIDE DEF RequestFits
  <2>3. CASE AskStart
    BY <2>1, <2>2, <2>3 DEF AskStart
  <2>4. CASE AskPause
    BY <2>1, <2>2, <2>4 DEF AskPause
  <2>5. CASE AskDrop
    BY <2>1, <2>5 DEF AskDrop
  <2>6. CASE AskOther
    BY <2>1, <2>2, <2>6 DEF AskOther
  <2>. QED BY <2>3, <2>4, <2>5, <2>6
<1>4. CASE AskDrop
  <2>1. StreamsFit' /\ MapsFit'
    BY <1>0, <1>1, <1>4, DisconnectFits DEF AskDrop, Clear
  <2>. QED BY <1>2, <1>3, <2>1 DEF Wired
<1>5. CASE AskStart \/ AskPause \/ AskOther
  <2>1. UNCHANGED Wiring
    BY <1>5 DEF AskStart, AskPause, AskOther, Wiring, mapVars
  <2>. QED BY <1>1, <1>2, <1>3, <2>1, WiringKept DEF Wired
<1>. QED BY <1>4, <1>5

LEMMA AnswerWired ==
  ASSUME RuntimeTypeOK, Wired,
         AnswerStart \/ AnswerPause \/ AnswerRows \/ AnswerDelete \/ AnswerDrop \/ RequestFails
  PROVE  Wired'
<1>0. StreamTypes /\ StreamsFit /\ MapsFit /\ request.job \in SUBSET Jobs
  BY TypesInGroups DEF CallTypes, RequestRecs, Wired
<1>1. UNCHANGED <<Servers, jobs>>
  BY DEF AnswerStart, AnswerPause, AnswerRows, AnswerDelete, AnswerDrop, RequestFails, serverVars,
         Servers
<1>2. JobsFit' /\ RequestFits'
  <2>1. request' = NoRequest
    BY DEF AnswerStart, AnswerPause, AnswerRows, AnswerDelete, AnswerDrop, RequestFails, Answered
  <2>. QED BY <1>1, <2>1, JobsKept, NoRequestFits DEF Wired
<1>3. CASE AnswerStart
  <2>1. \A j \in request.job : Exists(j)
    BY DEF Wired, RequestFits
  <2>2. StreamsFit' /\ MapsFit'
    BY <1>0, <1>1, <1>3, <2>1, ConnectFits DEF AnswerStart
  <2>. QED BY <1>2, <2>2 DEF Wired
<1>4. CASE AnswerPause \/ AnswerRows \/ AnswerDelete \/ AnswerDrop \/ RequestFails
  <2>1. UNCHANGED Wiring
    BY <1>4 DEF AnswerPause, AnswerRows, AnswerDelete, AnswerDrop, RequestFails, Wiring, mapVars
  <2>. QED BY <1>1, <1>2, <2>1, WiringKept DEF Wired
<1>. QED BY <1>3, <1>4

LEMMA ViewWired ==
  ASSUME RuntimeTypeOK, Wired,
         \/ \E s \in Sources : Visit(s) \/ PanelCloses(s)
         \/ Unmount
         \/ \E i \in Items : BarCloses(i)
  PROVE  Wired'
<1>0. StreamTypes /\ StreamsFit /\ MapsFit
  BY TypesInGroups DEF Wired
<1>1. UNCHANGED <<Servers, jobs, request>>
  BY DEF Visit, PanelCloses, Unmount, BarCloses, serverVars, Servers
<1>2. JobsFit' /\ RequestFits'
  BY <1>1, JobsKept, RequestKept DEF Wired
<1>3. CASE Disconnect(page)
  <2>1. StreamsFit' /\ MapsFit'
    BY <1>0, <1>1, <1>3, DisconnectFits
  <2>. QED BY <1>2, <2>1 DEF Wired
<1>4. CASE UNCHANGED Wiring
  BY <1>1, <1>2, <1>4, WiringKept DEF Wired
<1>. QED BY <1>3, <1>4 DEF Visit, PanelCloses, Unmount, BarCloses, Clear, Wiring, mapVars

LEMMA StepWired ==
  ASSUME RuntimeTypeOK, Wired, [Next]_vars PROVE Wired'
<1>1. CASE ServerNext
  BY <1>1, JobStepWired, ServeWired DEF ServerNext
<1>2. CASE PageNext
  BY <1>2, AskWired, AnswerWired, ViewWired DEF PageNext
<1>3. CASE \E j \in Jobs, k \in Copies : StreamNext(j, k)
  BY <1>3, StreamWired
<1>4. CASE \E l \in Loads : LoadNext(l)
  BY <1>4, LoadWired
<1>5. CASE UNCHANGED vars
  <2>1. UNCHANGED <<Wiring, Servers, jobs, request>>
    BY <1>5 DEF vars, mapVars, Wiring, Servers
  <2>. QED BY <2>1, WiringKept, JobsKept, RequestKept DEF Wired
<1>. QED BY <1>1, <1>2, <1>3, <1>4, <1>5 DEF Next

LEMMA InitWired == Init => Wired
<1> SUFFICES ASSUME Init PROVE Wired
  OBVIOUS
<1>1. JobsFit
  <2>0. log = [j \in Jobs |-> <<>>]
    BY DEF Init
  <2>1. CASE jobs = [j \in Jobs |-> NoJob]
    BY <2>0, <2>1 DEF JobsFit, Exists, NoJob
  <2>2. ASSUME NEW j \in Jobs, NEW s \in Sources, NEW items \in SUBSET ItemsOf(s),
               jobs = [[x \in Jobs |-> NoJob] EXCEPT ![j] = Started("index", s, items)]
        PROVE  JobsFit
    <3>1. /\ jobs[j].kind = "index" /\ jobs[j].source = s /\ jobs[j].left = items
          /\ \A x \in Jobs : x # j => jobs[x] = NoJob
      BY <2>2 DEF Started
    <3>2. NoJob.kind = "none" /\ NoJob.left = {}
      BY DEF NoJob
    <3>. QED BY <2>0, <3>1, <3>2 DEF JobsFit, Exists
  <2>. QED BY <2>1, <2>2 DEF Init, ItemsOf
<1>2. StreamsFit /\ MapsFit
  BY PhasesApart DEF Init, StreamsFit, MapsFit, NoStream
<1>3. RequestFits
  <2>1. request = NoRequest
    BY DEF Init
  <2>. QED BY <2>1 DEF RequestFits, RequestPlaced, NoRequest, Starts
<1>. QED BY <1>1, <1>2, <1>3 DEF Wired

(* The stream of a running job is the one its controller aborts, under the   *)
(* source of the job, whatever was connected and disconnected before:        *)
(* useSourceItemsRuntime.ts:266-345.                                         *)
THEOREM RunningJobsAreReachable == Spec => []StreamsReachable
<1>1. Init => RuntimeTypeOK /\ Wired
  BY InitTyped, InitWired
<1>2. RuntimeTypeOK /\ Wired /\ [Next]_vars => (RuntimeTypeOK /\ Wired)'
  BY StepTyped, StepWired DEF Wired, RequestFits
<1>3. RuntimeTypeOK /\ Wired => StreamsReachable
  <2> SUFFICES ASSUME Wired, NEW j \in ActiveJobs, NEW k \in Copies, Reading(j, k)
               PROVE  controllers[j] = k /\ jobSource[j] = jobs[j].source
    BY DEF StreamsReachable
  <2>1. controllers[j] = k
    BY PhasesApart DEF Wired, StreamsFit, ActiveJobs, Reading
  <2>. QED BY <2>1, SourceRuntimeAssumption DEF Wired, MapsFit, ActiveJobs
<1>. QED BY <1>1, <1>2, <1>3, PTL DEF Spec

-----------------------------------------------------------------------------
(* The sync panel. *)

Follows(s) == \E j \in Jobs, k \in Copies :
  Live(j, k) /\ jobs[j].kind = "sync" /\ jobs[j].source = s

LEMMA SettlesByFollowing == PanelSettles <=> \A s \in Sources : panel[s] = "shown" => Follows(s)
BY DEF PanelSettles, Follows

LEMMA SettlesByFollowingPrime ==
  PanelSettles' <=> \A s \in Sources : panel'[s] = "shown" => Follows(s)'
BY DEF PanelSettles, Follows

JobsSame == \A j \in Jobs :
  Exists(j) => jobs'[j].kind = jobs[j].kind /\ jobs'[j].source = jobs[j].source

(* What a step keeps for the panels: the live streams, but for those of the  *)
(* source whose panel it closes.                                             *)
GoOn(lost) ==
  /\ \A j \in Jobs, k \in Copies : Live(j, k) /\ jobs[j].source # lost => Live(j, k)'
  /\ \A s \in Sources :
       panel'[s] = "shown" => (panel[s] = "shown" /\ s # lost) \/ Follows(s)'

LEMMA PanelsKept ==
  ASSUME StreamsFit, PanelSettles, JobsSame, NEW lost, GoOn(lost) PROVE PanelSettles'
<1> SUFFICES ASSUME NEW s \in Sources, panel[s] = "shown", s # lost PROVE Follows(s)'
  BY SettlesByFollowingPrime DEF GoOn
<1>1. PICK j \in Jobs, k \in Copies : Live(j, k) /\ jobs[j].kind = "sync" /\ jobs[j].source = s
  BY DEF PanelSettles
<1>2. Live(j, k)' /\ Exists(j)
  BY <1>1 DEF Live, StreamsFit, GoOn
<1>. QED BY <1>1, <1>2 DEF Follows, JobsSame

LEMMA ConnectSettles ==
  ASSUME StreamTypes, StreamsFit, MapsFit, PanelSettles, NEW S \in SUBSET Jobs,
         \A j \in S : Exists(j), Connect(S), UNCHANGED jobs
  PROVE  PanelSettles'
<1> DEFINE new == {j \in S : controllers[j] = None}
<1>1. PICK copy \in [new -> Copies] :
         /\ \A j \in new : stream[j][copy[j]].phase = "idle"
         /\ stream' = [j \in Jobs |->
               IF j \in new
               THEN [stream[j] EXCEPT ![copy[j]] = [NoStream EXCEPT !.phase = "opening",
                                                                    !.at = lastId[j]]]
               ELSE stream[j]]
  BY DEF Connect
<1>2. ASSUME NEW j \in new
      PROVE  Live(j, copy[j])' /\ \A k \in Copies : k # copy[j] => stream'[j][k] = stream[j][k]
  <2>1. copy[j] \in Copies /\ j \in Jobs /\ stream[j] \in [Copies -> StreamRecs]
    BY <1>1 DEF StreamTypes
  <2>2. stream'[j] = [stream[j] EXCEPT ![copy[j]] = [NoStream EXCEPT !.phase = "opening",
                                                                   !.at = lastId[j]]]
    BY <1>1, <2>1
  <2>3. stream'[j][copy[j]] = [NoStream EXCEPT !.phase = "opening", !.at = lastId[j]]
    BY <2>1, <2>2
  <2>. QED BY <2>1, <2>2, <2>3 DEF Live, NoStream
<1>3. ASSUME NEW j \in Jobs, NEW k \in Copies, Live(j, k) PROVE Live(j, k)'
  <2>1. CASE j \in new
    BY <1>1, <1>2, <1>3, <2>1 DEF Live
  <2>2. CASE j \notin new
    BY <1>1, <1>3, <2>2 DEF Live
  <2>. QED BY <2>1, <2>2
<1>4. ASSUME NEW j \in S PROVE \E k \in Copies : Live(j, k)'
  <2>1. CASE controllers[j] = None
    BY <1>1, <1>2, <2>1
  <2>2. CASE controllers[j] # None
    BY <1>3, <2>2 DEF MapsFit, StreamTypes
  <2>. QED BY <2>1, <2>2
<1>5. ASSUME NEW s \in Sources, panel'[s] = "shown" PROVE panel[s] = "shown" \/ Follows(s)'
  <2>1. CASE \E j \in S : jobs[j].kind = "sync" /\ jobs[j].source = s
    BY <1>4, <2>1 DEF Follows
  <2>2. CASE ~ \E j \in S : jobs[j].kind = "sync" /\ jobs[j].source = s
    <3>1. s \notin UNION {CrawlOf(j) : j \in S}
      BY <2>2 DEF CrawlOf
    <3>. QED BY <1>5, <3>1 DEF Connect, ShowPanels
  <2>. QED BY <2>1, <2>2
<1>6. GoOn(None) /\ JobsSame
  BY <1>3, <1>5, SourceRuntimeAssumption DEF GoOn, JobsSame
<1>. QED BY <1>6, PanelsKept

LEMMA DisconnectSettles ==
  ASSUME StreamTypes, PanelTypes, StreamsFit, MapsFit, PanelSettles, NEW s \in Sources,
         Disconnect(s), UNCHANGED jobs
  PROVE  PanelSettles'
<1>1. ASSUME NEW j \in Jobs, NEW k \in Copies, Live(j, k), jobs[j].source # s PROVE Live(j, k)'
  <2>1. jobSource[j] # s \/ controllers[j] = None
    BY <1>1 DEF MapsFit
  <2>2. stream'[j] = stream[j]
    BY <2>1 DEF Disconnect, StreamTypes
  <2>. QED BY <1>1, <2>2 DEF Live
<1>2. panel'[s] = "hidden" /\ \A x \in Sources : x # s => panel'[x] = panel[x]
  BY DEF Disconnect, PanelTypes
<1>3. GoOn(s) /\ JobsSame
  BY <1>1, <1>2 DEF GoOn, JobsSame
<1>. QED BY <1>3, PanelsKept

LEMMA FinallySettles ==
  ASSUME StreamTypes, PanelTypes, StreamsFit, PanelSettles, NEW j \in Jobs, NEW k \in Copies,
         Finally(j, k), UNCHANGED jobs, jobs[j].source \in Sources,
         panel' = Closes(jobs[j].source) \/ (panel' = panel /\ stream[j][k].aborted)
  PROVE  PanelSettles'
<1>1. ASSUME NEW x \in Jobs, NEW y \in Copies, x # j \/ y # k PROVE stream'[x][y] = stream[x][y]
  BY <1>1 DEF Finally, SetStream, StreamTypes
<1>2. CASE panel' = Closes(jobs[j].source)
  <2>1. ASSUME NEW x \in Jobs, NEW y \in Copies, Live(x, y), jobs[x].source # jobs[j].source
        PROVE  Live(x, y)'
    BY <1>1, <2>1 DEF Live
  <2>2. /\ panel'[jobs[j].source] # "shown"
        /\ \A s \in Sources : s # jobs[j].source => panel'[s] = panel[s]
    BY <1>2 DEF Closes, PanelTypes
  <2>3. GoOn(jobs[j].source) /\ JobsSame
    BY <2>1, <2>2 DEF GoOn, JobsSame
  <2>. QED BY <2>3, PanelsKept
<1>3. CASE panel' = panel /\ stream[j][k].aborted
  <2>1. ASSUME NEW x \in Jobs, NEW y \in Copies, Live(x, y) PROVE Live(x, y)'
    BY <1>1, <1>3, <2>1 DEF Live
  <2>2. GoOn(None) /\ JobsSame
    BY <1>3, <2>1, SourceRuntimeAssumption DEF GoOn, JobsSame
  <2>. QED BY <2>2, PanelsKept
<1>. QED BY <1>2, <1>3

(* A step that neither opens a panel nor ends a stream. *)
LEMMA PanelsLeft ==
  ASSUME StreamsFit, PanelSettles, JobsSame,
         \A j \in Jobs, k \in Copies : Live(j, k) => Live(j, k)',
         \A s \in Sources : panel'[s] = "shown" => panel[s] = "shown"
  PROVE  PanelSettles'
<1>1. GoOn(None)
  BY SourceRuntimeAssumption DEF GoOn
<1>. QED BY <1>1, PanelsKept

LEMMA SetStreamLives ==
  ASSUME StreamTypes, NEW j \in Jobs, NEW k \in Copies, NEW x, SetStream(j, k, x),
         x.phase # "idle", x.aborted = stream[j][k].aborted
  PROVE  \A j1 \in Jobs, k1 \in Copies : Live(j1, k1) => Live(j1, k1)'
<1> SUFFICES ASSUME NEW j1 \in Jobs, NEW k1 \in Copies, Live(j1, k1) PROVE Live(j1, k1)'
  OBVIOUS
<1>1. CASE j1 = j /\ k1 = k
  <2>1. stream'[j][k] = x
    BY DEF SetStream, StreamTypes
  <2>. QED BY <1>1, <2>1 DEF Live
<1>2. CASE j1 # j \/ k1 # k
  <2>1. stream'[j1][k1] = stream[j1][k1]
    BY <1>2 DEF SetStream, StreamTypes
  <2>. QED BY <2>1 DEF Live
<1>. QED BY <1>1, <1>2

LEMMA ServerSettles ==
  ASSUME RuntimeTypeOK, Wired, PanelSettles, ServerNext PROVE PanelSettles'
<1>0. jobs \in [Jobs -> JobRecs] /\ request \in RequestRecs
  BY TypesInGroups DEF ServerTypes, CallTypes
<1>1. UNCHANGED <<stream, panel>>
  <2>1. CASE \/ ServeStart \/ ServePause \/ ServeUpload \/ ServeRename \/ ServeDelete \/ ServeDrop
             \/ Refuse
    BY <2>1 DEF ServeStart, ServePause, ServeUpload, ServeRename, ServeDelete, ServeDrop, Refuse,
                viewVars
  <2>2. ASSUME NEW j \in Jobs,
               EndsJob(j) \/ \E i \in Items : IndexesItem(j, i) \/ CrawlsItem(j, i)
        PROVE  UNCHANGED <<stream, panel>>
    BY <2>2 DEF EndsJob, IndexesItem, CrawlsItem, Claims, Skips, Misses, Pauses, Settles, Reports
  <2>. QED BY <2>1, <2>2 DEF ServerNext
<1>2. JobsSame
  <2>1. CASE \/ UNCHANGED jobs
             \/ \E j \in Jobs : \E left : jobs' = [jobs EXCEPT ![j].left = left]
             \/ \E j \in Jobs : jobs' = [jobs EXCEPT ![j].over = TRUE]
             \/ \E j \in Jobs : \E new : ~ Exists(j) /\ jobs' = [jobs EXCEPT ![j] = new]
    BY <1>0, <2>1 DEF JobsSame, JobRecs, Exists
  <2>2. ASSUME NEW j \in Jobs, NEW i \in Items, IndexesItem(j, i) \/ CrawlsItem(j, i)
        PROVE  \E left : jobs' = [jobs EXCEPT ![j].left = left]
    BY <2>2 DEF IndexesItem, CrawlsItem, Claims, Skips, Misses, Pauses, Settles, Reports
  <2>3. ASSUME NEW j \in Jobs, EndsJob(j) PROVE jobs' = [jobs EXCEPT ![j].over = TRUE]
    BY <2>3 DEF EndsJob
  <2>4. CASE ServeStart
    BY <2>1, <2>4 DEF ServeStart, Exists
  <2>5. CASE ServePause \/ ServeUpload \/ ServeRename \/ ServeDelete \/ ServeDrop \/ Refuse
    BY <2>1, <2>5 DEF ServePause, ServeUpload, ServeRename, ServeDelete, ServeDrop, Refuse,
                      serverVars
  <2>. QED BY <2>1, <2>2, <2>3, <2>4, <2>5 DEF ServerNext
<1>. QED BY <1>1, <1>2, PanelsLeft DEF Wired, Live

LEMMA StreamSettles ==
  ASSUME RuntimeTypeOK, Wired, PanelSettles, NEW j \in Jobs, NEW k \in Copies, StreamNext(j, k)
  PROVE  PanelSettles'
<1>0. /\ StreamTypes /\ PanelTypes /\ stream[j][k] \in StreamRecs /\ StreamsFit
      /\ stream[j][k].phase # "idle" => jobs[j].source \in Sources
      /\ UNCHANGED jobs
  BY TypesInGroups DEF StreamTypes, Wired, StreamsFit, JobsFit, Exists, StreamNext, StreamOpens,
     StreamEvent, StreamEnds, StreamAsks, StreamShowsItems, StreamShowsJobs, StreamFails, serverVars
<1>1. JobsSame
  BY <1>0 DEF JobsSame
<1>2. ASSUME NEW x, SetStream(j, k, x), x.phase # "idle", x.aborted = stream[j][k].aborted,
             UNCHANGED panel
      PROVE  PanelSettles'
  BY <1>0, <1>1, <1>2, SetStreamLives, PanelsLeft
<1>3. CASE StreamOpens(j, k)
  <2>1. ASSUME NEW x, x = [stream[j][k] EXCEPT !.phase = "reading"]
        PROVE  x.phase # "idle" /\ x.aborted = stream[j][k].aborted
    BY <1>0, <2>1 DEF StreamRecs
  <2>. QED BY <1>2, <1>3, <2>1 DEF StreamOpens
<1>4. CASE StreamEnds(j, k)
  <2>1. ASSUME NEW x, x = [stream[j][k] EXCEPT !.phase = "asksItems"]
        PROVE  x.phase # "idle" /\ x.aborted = stream[j][k].aborted
    BY <1>0, <2>1 DEF StreamRecs
  <2>. QED BY <1>2, <1>4, <2>1 DEF StreamEnds
<1>5. CASE StreamAsks(j, k)
  <2>1. ASSUME NEW x, NEW statuses, NEW listed,
               \/ x = [stream[j][k] EXCEPT !.phase = "hasItems", !.statuses = statuses]
               \/ x = [stream[j][k] EXCEPT !.phase = "hasJobs", !.listed = listed]
        PROVE  x.phase # "idle" /\ x.aborted = stream[j][k].aborted
    BY <1>0, <2>1 DEF StreamRecs
  <2>. QED BY <1>2, <1>5, <2>1 DEF StreamAsks
<1>6. CASE StreamShowsItems(j, k)
  <2>1. ASSUME NEW x, x = [NoStream EXCEPT !.phase = "asksJobs", !.aborted = stream[j][k].aborted]
        PROVE  x.phase # "idle" /\ x.aborted = stream[j][k].aborted
    BY <2>1 DEF NoStream
  <2>. QED BY <1>2, <1>6, <2>1 DEF StreamShowsItems
<1>7. CASE StreamEvent(j, k)
  <2>1. PICK n \in (stream[j][k].at + 1)..Len(log[j]) :
          SetStream(j, k, [stream[j][k] EXCEPT !.at = n]) /\ Apply(j, log[j][n])
    BY <1>7 DEF StreamEvent
  <2>2. stream[j][k].phase = "reading" /\ ~ stream[j][k].aborted
    BY <1>7 DEF StreamEvent, Wired, StreamsFit, Reads
  <2>3. ASSUME NEW x, x = [stream[j][k] EXCEPT !.at = n]
        PROVE  x.phase # "idle" /\ x.aborted = stream[j][k].aborted
    BY <1>0, <2>2, <2>3 DEF StreamRecs
  <2>4. \A j1 \in Jobs, k1 \in Copies : Live(j1, k1) => Live(j1, k1)'
    BY <1>0, <2>1, <2>3, SetStreamLives
  <2>5. Live(j, k) /\ Live(j, k)'
    BY <2>2, <2>4 DEF Live
  <2>6. ASSUME NEW s \in Sources, panel'[s] = "shown" PROVE panel[s] = "shown" \/ Follows(s)'
    <3>1. CASE s \in CrawlOf(j)
      BY <1>0, <2>5, <3>1 DEF CrawlOf, Follows
    <3>2. CASE s \notin CrawlOf(j)
      BY <1>0, <2>1, <2>6, <3>2 DEF Apply, PanelTypes
    <3>. QED BY <3>1, <3>2
  <2>7. GoOn(None)
    BY <2>4, <2>6, SourceRuntimeAssumption DEF GoOn
  <2>. QED BY <1>0, <1>1, <2>7, PanelsKept
<1>8. CASE StreamShowsJobs(j, k)
  BY <1>0, <1>8, FinallySettles DEF StreamShowsJobs
<1>9. CASE StreamFails(j, k)
  BY <1>0, <1>9, FinallySettles DEF StreamFails
<1>. QED BY <1>3, <1>4, <1>5, <1>6, <1>7, <1>8, <1>9 DEF StreamNext

LEMMA StepSettles ==
  ASSUME RuntimeTypeOK, Wired, PanelSettles, [Next]_vars PROVE PanelSettles'
<1>0. /\ StreamTypes /\ PanelTypes /\ StreamsFit /\ MapsFit /\ page \in Sources \cup {None}
      /\ request.job \in SUBSET Jobs
  BY TypesInGroups DEF PageTypes, CallTypes, RequestRecs, Wired
<1>1. ASSUME UNCHANGED jobs, UNCHANGED stream,
             \A s \in Sources : panel'[s] = "shown" => panel[s] = "shown"
      PROVE  PanelSettles'
  BY <1>0, <1>1, PanelsLeft DEF JobsSame, Live
<1>2. ASSUME page # None, Disconnect(page), UNCHANGED jobs PROVE PanelSettles'
  BY <1>0, <1>2, DisconnectSettles
<1>3. ASSUME NEW l \in Loads, LoadNext(l) PROVE PanelSettles'
  <2>1. UNCHANGED jobs
    BY <1>3 DEF LoadNext, LoadAsks, LoadShowsItems, LoadShowsJobs, LoadFails, serverVars
  <2>2. CASE LoadShowsJobs(l)
    <3> DEFINE S == IF page = None THEN {} ELSE active'[page]
    <3>1. ASSUME NEW j \in S PROVE j \in Jobs /\ Exists(j)
      <4>1. page \in Sources /\ j \in load[l].listed /\ jobs[j].source = page
        BY <1>0, <2>2, <3>1 DEF LoadShowsJobs, SetActive
      <4>2. j \in Jobs
        BY <4>1, TypesInGroups DEF CallTypes, LoadRecs
      <4>. QED BY <4>1, <4>2, SourceRuntimeAssumption DEF Wired, JobsFit, NoJob, Exists
    <3>2. Connect(S)
      BY <2>2 DEF LoadShowsJobs
    <3>. HIDE DEF S
    <3>. QED BY <1>0, <2>1, <3>1, <3>2, ConnectSettles
  <2>3. CASE LoadAsks(l) \/ LoadShowsItems(l) \/ LoadFails(l)
    BY <1>1, <2>1, <2>3 DEF LoadAsks, LoadShowsItems, LoadFails
  <2>. QED BY <1>3, <2>2, <2>3 DEF LoadNext
<1>4. CASE PageNext
  <2>1. UNCHANGED jobs
    BY <1>4 DEF PageNext, AskStart, AskPause, AskDrop, AskOther, AnswerStart, AnswerPause,
       AnswerRows, AnswerDelete, AnswerDrop, RequestFails, Visit, PanelCloses, Unmount, BarCloses,
       serverVars
  <2>2. CASE AskDrop
    BY <1>2, <2>1, <2>2 DEF AskDrop, Asks, Clear
  <2>3. ASSUME NEW s \in Sources, Visit(s) PROVE PanelSettles'
    BY <1>2, <2>1, <2>3 DEF Visit, Clear
  <2>4. CASE Unmount
    BY <1>1, <1>2, <2>1, <2>4 DEF Unmount, Clear
  <2>5. CASE AnswerStart
    BY <1>0, <2>1, <2>5, ConnectSettles DEF AnswerStart, Wired, RequestFits
  <2>6. ASSUME NEW s \in Sources, PanelCloses(s) PROVE PanelSettles'
    BY <1>0, <1>1, <2>1, <2>6 DEF PanelCloses, PanelTypes
  <2>7. CASE \/ AskStart \/ AskPause \/ AskOther \/ AnswerPause \/ AnswerRows \/ AnswerDelete
             \/ AnswerDrop \/ RequestFails \/ \E i \in Items : BarCloses(i)
    BY <1>1, <2>1, <2>7 DEF AskStart, AskPause, AskOther, AnswerPause, AnswerRows, AnswerDelete,
       AnswerDrop, RequestFails, BarCloses
  <2>. QED BY <1>4, <2>2, <2>3, <2>4, <2>5, <2>6, <2>7 DEF PageNext
<1>5. CASE UNCHANGED vars
  BY <1>1, <1>5 DEF vars
<1>. QED BY <1>3, <1>4, <1>5, ServerSettles, StreamSettles DEF Next

(* The sync panel is open only while a stream of a crawl is there to close   *)
(* it, however the streams end: useSourceItemsRuntime.ts:182-189, :320-343,  *)
(* :440-480.                                                                 *)
THEOREM PanelsSettle == Spec => []PanelSettles
<1>1. Init => RuntimeTypeOK /\ Wired /\ PanelSettles
  <2>1. Init => PanelSettles
    BY DEF Init, PanelSettles
  <2>. QED BY <2>1, InitTyped, InitWired
<1>2. RuntimeTypeOK /\ Wired /\ PanelSettles /\ [Next]_vars
        => (RuntimeTypeOK /\ Wired /\ PanelSettles)'
  BY StepTyped, StepWired, StepSettles DEF Wired, RequestFits
<1>. QED BY <1>1, <1>2, PTL DEF Spec

-----------------------------------------------------------------------------
(* The rows. *)

(* A step at which everything that tells of an item goes on telling of it.   *)
TellsOn(i) ==
  /\ \A j \in Jobs, k \in Copies : jobs[j].source = SourceOf[i] /\ Refreshing(j, k) =>
       jobs'[j].source = SourceOf[i] /\ \E k1 \in Copies : Refreshing(j, k1)'
  /\ LoadTells(i) => LoadTells(i)'
  /\ AnswerTells(i) => AnswerTells(i)' \/ StreamTells(i)'

LEMMA TellsGoOn ==
  ASSUME NEW i \in Items, TellsOn(i), Tells(i) PROVE Tells(i)'
BY DEF TellsOn, Tells, StreamTells

(* The rest of what the rows depend on. *)
LEMMA RowsKept ==
  ASSUME ItemsTold, UNCHANGED <<stored, dropped, page, shown>>, unsure \subseteq unsure',
         \A i \in Items : Current(i) => TellsOn(i) \/ i \in unsure'
  PROVE  ItemsTold'
<1> SUFFICES ASSUME NEW i \in Items, Current(i) PROVE (Told(i) \/ Tells(i))'
  BY DEF ItemsTold, Current
<1>1. Told(i) => Told(i)'
  BY DEF Told, Row
<1>2. i \in unsure' => Told(i)'
  BY DEF Told
<1>. QED BY <1>1, <1>2, TellsGoOn DEF ItemsTold

LEMMA TellsAsBefore ==
  ASSUME NEW i \in Items, UNCHANGED <<jobs, stream, controllers, load, request>>
  PROVE  TellsOn(i)
BY DEF TellsOn, Refreshing, LoadTells, AnswerTells, Waits

LEMMA AnswersKept ==
  ASSUME AnswersStand, UNCHANGED <<dropped, request>>,
         \A i \in Items : stored[i] = "gone" => stored'[i] = "gone", request.items \subseteq Items
  PROVE  AnswersStand'
BY DEF AnswersStand

LEMMA UnansweredStands == ASSUME request'.state # "served" PROVE AnswersStand'
BY DEF AnswersStand

(* An item of a running job that is followed has somebody to tell of it. *)
LEMMA FollowedTells ==
  ASSUME RuntimeTypeOK, Wired, NEW j \in Jobs, Running(j), Followed(j), NEW i \in Items,
         SourceOf[i] = jobs[j].source
  PROVE  Tells(i)
<1>1. CASE \E k \in Copies : Reading(j, k)
  BY <1>1 DEF Tells, StreamTells, Refreshing, Reading
<1>2. CASE Answering(j)
  <2>1. request.kind \in Starts /\ request.source = SourceOf[i]
    BY <1>2 DEF Answering, Wired, RequestFits
  <2>2. Waits(j)
    <3>1. CASE controllers[j] # None
      <4> DEFINE k == controllers[j]
      <4>1. Live(j, k) /\ k \in Copies /\ stream[j][k] \in StreamRecs
        BY <3>1, TypesInGroups DEF Wired, MapsFit, StreamTypes
      <4>2. stream[j][k].phase \notin Reloads
        BY <4>1 DEF Wired, StreamsFit, Running
      <4>3. stream[j][k].phase \in Reads
        BY <4>1, <4>2 DEF Live, StreamRecs
      <4>. QED BY <4>3 DEF Waits, Refreshing
    <3>. QED BY <3>1 DEF Waits
  <2>. QED BY <1>2, <2>1, <2>2 DEF Answering, Tells, AnswerTells
<1>. QED BY <1>1, <1>2 DEF Followed

LEMMA ReportsTells ==
  ASSUME RuntimeTypeOK, Wired, RowsTold, NEW j \in Jobs, NEW i \in jobs[j].left, NEW status,
         NEW event, NEW left, Reports(j, i, status, event, left),
         stored[i] = "gone" => status = "gone"
  PROVE  RowsTold'
<1>0. /\ jobs \in [Jobs -> JobRecs] /\ stored \in [Items -> Status \cup {"gone"}]
      /\ i \in Items /\ SourceOf[i] = jobs[j].source /\ request \in RequestRecs
  BY TypesInGroups DEF ServerTypes, CallTypes, Wired, JobsFit, ItemsOf
<1>1. /\ \A x \in Jobs : jobs'[x].source = jobs[x].source
      /\ UNCHANGED <<stream, controllers, load, request, dropped, page, shown>>
      /\ \A x \in Items : x # i => stored'[x] = stored[x]
      /\ stored'[i] = status /\ unsure \subseteq unsure' /\ Running(j)
      /\ Followed(j) \/ status = stored[i] \/ i \in unsure'
  BY <1>0 DEF Reports, JobRecs, mapVars
<1>2. ASSUME NEW x \in Items PROVE TellsOn(x)
  BY <1>1 DEF TellsOn, Refreshing, LoadTells, AnswerTells, Waits
<1>3. ItemsTold'
  <2> SUFFICES ASSUME NEW x \in Items, Current(x) PROVE (Told(x) \/ Tells(x))'
    BY <1>1 DEF ItemsTold, Current
  <2>1. CASE Tells(x)
    BY <1>2, <2>1, TellsGoOn
  <2>2. CASE x # i
    <3>1. Told(x) => Told(x)'
      BY <1>1, <2>2 DEF Told, Row
    <3>. QED BY <2>1, <3>1 DEF RowsTold, ItemsTold
  <2>3. CASE x = i
    <3>1. CASE Followed(j)
      BY <1>0, <1>1, <2>1, <2>3, <3>1, FollowedTells
    <3>2. CASE status = stored[i]
      <4>1. Told(i) => Told(i)'
        BY <1>1, <3>2 DEF Told, Row
      <4>. QED BY <2>1, <2>3, <4>1 DEF RowsTold, ItemsTold
    <3>3. CASE i \in unsure'
      BY <2>3, <3>3 DEF Told
    <3>. QED BY <1>1, <3>1, <3>2, <3>3
  <2>. QED BY <2>2, <2>3
<1>4. AnswersStand'
  <2>1. request.items \subseteq Items
    BY <1>0 DEF RequestRecs
  <2>. QED BY <1>1, <2>1, AnswersKept DEF RowsTold
<1>. QED BY <1>3, <1>4 DEF RowsTold

LEMMA JobStepTells ==
  ASSUME RuntimeTypeOK, Wired, RowsTold, NEW j \in Jobs,
         EndsJob(j) \/ \E i \in Items : IndexesItem(j, i) \/ CrawlsItem(j, i)
  PROVE  RowsTold'
<1>1. CASE EndsJob(j)
  <2>0. jobs \in [Jobs -> JobRecs] /\ request \in RequestRecs
    BY TypesInGroups DEF ServerTypes, CallTypes
  <2>1. /\ \A x \in Jobs : jobs'[x].source = jobs[x].source
        /\ UNCHANGED <<stored, stream, controllers, load, request, dropped, page, shown, unsure>>
    BY <1>1, <2>0 DEF EndsJob, JobRecs, mapVars
  <2>2. ASSUME NEW x \in Items PROVE TellsOn(x)
    BY <2>1 DEF TellsOn, Refreshing, LoadTells, AnswerTells, Waits
  <2>3. request.items \subseteq Items
    BY <2>0 DEF RequestRecs
  <2>. QED BY <2>1, <2>2, <2>3, RowsKept, AnswersKept DEF RowsTold
<1>2. ASSUME NEW i \in Items, IndexesItem(j, i) \/ CrawlsItem(j, i) PROVE RowsTold'
  <2>1. i \in jobs[j].left
    BY <1>2 DEF IndexesItem, CrawlsItem
  <2>2. ASSUME NEW status, NEW event, NEW left, Reports(j, i, status, event, left),
               stored[i] = "gone" => status = "gone"
        PROVE  RowsTold'
    BY <2>1, <2>2, ReportsTells
  <2>. HIDE DEF RowsTold
  <2>3. CASE Claims(j, i)
    BY <2>2, <2>3 DEF Claims, Allowed, Claimable
  <2>4. CASE Skips(j, i)
    BY <2>2, <2>4 DEF Skips
  <2>5. CASE Misses(j, i)
    BY <2>2, <2>5 DEF Misses
  <2>6. CASE Pauses(j, i)
    BY <2>2, <2>6 DEF Pauses
  <2>7. CASE Settles(j, i)
    BY <2>2, <2>7 DEF Settles, Busy
  <2>8. CASE CrawlsItem(j, i)
    BY <2>2, <2>8 DEF CrawlsItem
  <2>. QED BY <1>2, <2>3, <2>4, <2>5, <2>6, <2>7, <2>8 DEF IndexesItem
<1>. QED BY <1>1, <1>2

LEMMA ServeTells ==
  ASSUME RuntimeTypeOK, Wired, RowsTold,
         \/ ServeStart \/ ServePause \/ ServeUpload \/ ServeRename \/ ServeDelete \/ ServeDrop
         \/ Refuse
  PROVE  RowsTold'
<1>0. /\ request \in RequestRecs /\ request.items \in SUBSET Items
      /\ UNCHANGED <<stream, controllers, load, page, shown, unsure>> /\ request.state = "sent"
  <2>1. request \in RequestRecs
    BY TypesInGroups DEF CallTypes
  <2>2. UNCHANGED <<stream, controllers, load, page, shown, unsure>> /\ request.state = "sent"
    BY DEF ServeStart, ServePause, ServeUpload, ServeRename, ServeDelete, ServeDrop, Refuse,
           viewVars, Serves, mapVars
  <2>. QED BY <2>1, <2>2 DEF RequestRecs
<1>1. ASSUME NEW i \in Items, UNCHANGED jobs PROVE TellsOn(i)
  BY <1>0, <1>1 DEF TellsOn, Refreshing, LoadTells, AnswerTells
<1>2. CASE ServeStart
  <2>1. UNCHANGED <<stored, dropped>>
    BY <1>2 DEF ServeStart
  <2>2. ASSUME NEW i \in Items PROVE TellsOn(i)
    <3>1. CASE UNCHANGED jobs
      BY <1>1, <3>1
    <3>2. ASSUME NEW x \in Jobs, jobs[x].kind = "none",
                 jobs' = [jobs EXCEPT ![x] = Started(request.kind, request.source, request.items)]
          PROVE  TellsOn(i)
      <4>1. ASSUME NEW j \in Jobs, NEW k \in Copies, Refreshing(j, k)
            PROVE  jobs'[j].source = jobs[j].source
        <5>1. j # x
          BY <3>2, <4>1, PhasesApart DEF Refreshing, Wired, StreamsFit, Exists
        <5>. QED BY <3>2, <5>1, TypesInGroups DEF ServerTypes
      <4>2. \A j \in Jobs, k \in Copies : Refreshing(j, k) => Refreshing(j, k)'
        BY <1>0 DEF Refreshing
      <4>. QED BY <1>0, <4>1, <4>2 DEF TellsOn, LoadTells, AnswerTells
    <3>. QED BY <1>2, <3>1, <3>2 DEF ServeStart
  <2>3. ItemsTold'
    BY <1>0, <2>1, <2>2, RowsKept DEF RowsTold
  <2>4. request'.kind \in Starts
    BY <1>0, <1>2 DEF ServeStart, Serves, RequestRecs
  <2>. QED BY <2>3, <2>4 DEF RowsTold, AnswersStand, Starts
<1>3. CASE Refuse \/ ServeRename
  <2>1. UNCHANGED <<stored, dropped, jobs>>
    BY <1>3 DEF Refuse, ServeRename, serverVars
  <2>2. ItemsTold'
    BY <1>0, <1>1, <2>1, RowsKept DEF RowsTold
  <2>3. request'.state = "refused" \/ request'.kind = "rename"
    BY <1>0, <1>3 DEF Refuse, ServeRename, Serves, Answers, RequestRecs
  <2>. QED BY <2>2, <2>3 DEF RowsTold, AnswersStand
<1>4. CASE ServePause \/ ServeUpload \/ ServeDelete
  <2>1. /\ UNCHANGED <<dropped, jobs>> /\ request'.state = "served"
        /\ request'.kind = request.kind /\ request.kind \in {"pause", "upload", "delete"}
        /\ request'.items = request.items
        /\ \A i \in Items : i \notin request.items => stored'[i] = stored[i]
        /\ request.kind = "delete" => \A i \in request.items : stored'[i] = "gone"
    BY <1>0, <1>4 DEF ServePause, ServeUpload, ServeDelete, Serves, Answers, RequestRecs
  <2>2. ASSUME NEW i \in Items, Current(i) PROVE (Told(i) \/ Tells(i))'
    <3>1. CASE i \in request.items
      BY <2>1, <3>1 DEF Tells, AnswerTells
    <3>2. CASE i \notin request.items
      <4>1. Told(i) => Told(i)'
        BY <1>0, <2>1, <3>2 DEF Told, Row
      <4>2. Tells(i) => Tells(i)'
        BY <1>1, <2>1, TellsGoOn
      <4>. QED BY <2>2, <4>1, <4>2 DEF RowsTold, ItemsTold
    <3>. QED BY <3>1, <3>2
  <2>3. ItemsTold'
    BY <1>0, <2>1, <2>2 DEF ItemsTold, Current
  <2>4. AnswersStand'
    BY <2>1 DEF AnswersStand
  <2>. QED BY <2>3, <2>4 DEF RowsTold
<1>5. CASE ServeDrop
  <2>1. /\ UNCHANGED jobs /\ request'.kind = "drop" /\ request'.source = request.source
        /\ dropped' = dropped \cup {request.source}
        /\ \A i \in Items : SourceOf[i] # request.source => stored'[i] = stored[i]
    BY <1>0, <1>5 DEF ServeDrop, Serves, RequestRecs
  <2>2. ASSUME NEW i \in Items, Current(i)' PROVE (Told(i) \/ Tells(i))'
    <3>1. Current(i) /\ SourceOf[i] # request.source
      BY <1>0, <2>1, <2>2 DEF Current
    <3>2. Told(i) => Told(i)'
      BY <1>0, <2>1, <3>1 DEF Told, Row
    <3>3. Tells(i) => Tells(i)'
      BY <1>1, <2>1, TellsGoOn
    <3>. QED BY <3>1, <3>2, <3>3 DEF RowsTold, ItemsTold
  <2>3. ItemsTold'
    BY <2>2 DEF ItemsTold
  <2>4. AnswersStand'
    BY <2>1 DEF AnswersStand
  <2>. QED BY <2>3, <2>4 DEF RowsTold
<1>. QED BY <1>2, <1>3, <1>4, <1>5

(* The items of a source arrive: each of them is told then. *)
LEMMA SetItemsTells ==
  ASSUME ItemsTold, NEW s, NEW statuses, SetItems(s, statuses), PageTypes,
         UNCHANGED <<stored, dropped, page>>,
         \A i \in Items : SourceOf[i] # s => TellsOn(i)
  PROVE  ItemsTold'
<1> SUFFICES ASSUME NEW i \in Items, Current(i) PROVE (Told(i) \/ Tells(i))'
  BY DEF ItemsTold, Current
<1>1. CASE SourceOf[i] = s
  <2>1. shown'[i] = statuses[i]
    BY <1>1 DEF SetItems
  <2>2. statuses[i] # Row(i) => i \in unsure'
    BY <1>1 DEF SetItems, ItemsOf
  <2>. QED BY <2>1, <2>2 DEF Told, Row
<1>2. CASE SourceOf[i] # s
  <2>1. shown'[i] = shown[i] /\ (i \in unsure => i \in unsure')
    BY <1>2 DEF SetItems
  <2>2. Told(i) => Told(i)'
    BY <2>1 DEF Told, Row
  <2>. QED BY <1>2, <2>2, TellsGoOn DEF ItemsTold
<1>. QED BY <1>1, <1>2

(* A stream that goes on telling, or that did not tell. *)
LEMMA SetStreamTells ==
  ASSUME StreamTypes, CallTypes, NEW j \in Jobs, NEW k \in Copies, NEW x, SetStream(j, k, x),
         UNCHANGED <<jobs, controllers, load, request>>, NEW i \in Items,
         \/ Refreshing(j, k) => x.phase \in Reads \cup {"asksItems", "hasItems"}
         \/ jobs[j].source # SourceOf[i] /\ RequestFits
  PROVE  TellsOn(i)
<1>0. /\ stream'[j][k] = x
      /\ \A j1 \in Jobs, k1 \in Copies : j1 # j \/ k1 # k => stream'[j1][k1] = stream[j1][k1]
  BY DEF SetStream, StreamTypes
<1>1. ASSUME NEW j1 \in Jobs, NEW k1 \in Copies, jobs[j1].source = SourceOf[i], Refreshing(j1, k1)
      PROVE  \/ Refreshing(j1, k1)'
             \/ jobs[j].source # SourceOf[i] /\ RequestFits /\ j1 = j /\ k1 = k
  BY <1>0, <1>1 DEF Refreshing
<1>2. AnswerTells(i) => AnswerTells(i)'
  <2> SUFFICES ASSUME AnswerTells(i) PROVE AnswerTells(i)'
    OBVIOUS
  <2>1. CASE request.kind \in {"upload", "rename", "delete", "pause"} /\ i \in request.items
    BY <2>1 DEF AnswerTells
  <2>2. ASSUME request.kind \in Starts, request.source = SourceOf[i], NEW j1 \in request.job,
               Waits(j1)
        PROVE  AnswerTells(i)'
    <3>1. CASE controllers[j1] = None
      BY <2>2, <3>1 DEF AnswerTells, Waits
    <3>2. CASE /\ controllers[j1] # None /\ Refreshing(j1, controllers[j1])
               /\ j1 # j \/ controllers[j1] # k
      <4>1. j1 \in Jobs /\ controllers[j1] \in Copies
        BY <3>2 DEF CallTypes, RequestRecs, StreamTypes
      <4>. QED BY <1>0, <2>2, <3>2, <4>1 DEF AnswerTells, Waits, Refreshing
    <3>3. CASE Refreshing(j1, controllers[j1]) /\ j1 = j /\ controllers[j1] = k
      <4>1. jobs[j].source = SourceOf[i] \/ ~ RequestFits
        BY <2>2, <3>3 DEF RequestFits
      <4>2. Refreshing(j, k)'
        BY <1>0, <3>3, <4>1 DEF Refreshing
      <4>. QED BY <2>2, <3>3, <4>2 DEF AnswerTells, Waits
    <3>. QED BY <2>2, <3>1, <3>2, <3>3 DEF Waits
  <2>. QED BY <2>1, <2>2 DEF AnswerTells
<1>. QED BY <1>1, <1>2 DEF TellsOn, LoadTells

(* A stream that told of nothing ends. *)
LEMMA FinallyTells ==
  ASSUME StreamTypes, CallTypes, NEW j \in Jobs, NEW k \in Copies, Finally(j, k),
         UNCHANGED <<jobs, load, request>>, NEW i \in Items,
         ~ Refreshing(j, k) \/ jobs[j].source # SourceOf[i]
  PROVE  TellsOn(i)
<1>0. /\ controllers'[j] = None
      /\ \A j1 \in Jobs, k1 \in Copies : j1 # j \/ k1 # k => stream'[j1][k1] = stream[j1][k1]
      /\ \A j1 \in Jobs : j1 # j => controllers'[j1] = controllers[j1]
  BY DEF Finally, SetStream, StreamTypes
<1>1. ASSUME NEW j1 \in Jobs, NEW k1 \in Copies, jobs[j1].source = SourceOf[i], Refreshing(j1, k1)
      PROVE  Refreshing(j1, k1)'
  BY <1>0, <1>1 DEF Refreshing
<1>2. AnswerTells(i) => AnswerTells(i)'
  <2>1. ASSUME NEW j1 \in request.job, Waits(j1) PROVE Waits(j1)'
    <3>1. j1 \in Jobs
      BY DEF CallTypes, RequestRecs
    <3>2. CASE j1 = j
      BY <1>0, <3>2 DEF Waits
    <3>3. CASE j1 # j /\ controllers[j1] = None
      BY <1>0, <3>1, <3>3 DEF Waits
    <3>4. CASE j1 # j /\ controllers[j1] # None
      <4>1. controllers[j1] \in Copies /\ controllers'[j1] = controllers[j1]
        BY <1>0, <3>1, <3>4 DEF StreamTypes
      <4>2. stream'[j1][controllers[j1]] = stream[j1][controllers[j1]]
        BY <1>0, <3>1, <3>4, <4>1
      <4>. QED BY <2>1, <3>4, <4>1, <4>2 DEF Waits, Refreshing
    <3>. QED BY <3>2, <3>3, <3>4
  <2>. QED BY <2>1 DEF AnswerTells
<1>. QED BY <1>1, <1>2 DEF TellsOn, LoadTells

LEMMA StreamTellsOn ==
  ASSUME RuntimeTypeOK, Wired, RowsTold, NEW j \in Jobs, NEW k \in Copies, StreamNext(j, k)
  PROVE  RowsTold'
<1>0. /\ StreamTypes /\ CallTypes /\ PageTypes /\ ServerTypes /\ stream[j][k] \in StreamRecs
      /\ request.items \subseteq Items /\ ItemsTold /\ AnswersStand /\ RequestFits
  BY TypesInGroups DEF StreamTypes, CallTypes, RequestRecs, RowsTold, Wired
<1>1. UNCHANGED <<stored, dropped, page, jobs, log, load, request>>
  BY DEF StreamNext, StreamOpens, StreamEvent, StreamEnds, StreamAsks, StreamShowsItems,
         StreamShowsJobs, StreamFails, serverVars
<1>2. AnswersStand'
  BY <1>0, <1>1, AnswersKept
<1>3. ASSUME NEW x, SetStream(j, k, x), NEW i \in Items, UNCHANGED mapVars,
             \/ stream[j][k].phase \in Reads \cup {"asksItems", "hasItems"}
                  => x.phase \in Reads \cup {"asksItems", "hasItems"}
             \/ jobs[j].source # SourceOf[i]
      PROVE  TellsOn(i)
  BY <1>0, <1>1, <1>3, SetStreamTells DEF mapVars, Refreshing
<1>4. CASE StreamOpens(j, k)
  <2>1. [stream[j][k] EXCEPT !.phase = "reading"].phase = "reading"
    BY <1>0 DEF StreamRecs
  <2>2. \A i \in Items : TellsOn(i)
    BY <1>3, <1>4, <2>1 DEF StreamOpens, Reads
  <2>. QED BY <1>0, <1>1, <1>2, <1>4, <2>2, RowsKept DEF StreamOpens, RowsTold
<1>5. CASE StreamEnds(j, k)
  <2>1. [stream[j][k] EXCEPT !.phase = "asksItems"].phase = "asksItems"
    BY <1>0 DEF StreamRecs
  <2>2. \A i \in Items : TellsOn(i)
    BY <1>3, <1>5, <2>1 DEF StreamEnds
  <2>. QED BY <1>0, <1>1, <1>2, <1>5, <2>2, RowsKept DEF StreamEnds, RowsTold
<1>6. CASE StreamAsks(j, k)
  <2>1. /\ [stream[j][k] EXCEPT !.phase = "hasItems", !.statuses = Snapshot(jobs[j].source)].phase
              = "hasItems"
    BY <1>0 DEF StreamRecs
  <2>2. CASE stream[j][k].phase = "asksItems"
    <3>1. \A i \in Items : TellsOn(i)
      BY <1>3, <1>6, <2>1, <2>2 DEF StreamAsks
    <3>. QED BY <1>0, <1>1, <1>2, <1>6, <3>1, RowsKept DEF StreamAsks, RowsTold
  <2>3. CASE stream[j][k].phase = "asksJobs"
    <3>1. \A i \in Items : TellsOn(i)
      BY <1>3, <1>6, <2>3 DEF StreamAsks, Reads
    <3>. QED BY <1>0, <1>1, <1>2, <1>6, <3>1, RowsKept DEF StreamAsks, RowsTold
  <2>. QED BY <1>6, <2>2, <2>3 DEF StreamAsks
<1>7. CASE StreamEvent(j, k)
  <2>1. PICK n \in (stream[j][k].at + 1)..Len(log[j]) :
          SetStream(j, k, [stream[j][k] EXCEPT !.at = n]) /\ Apply(j, log[j][n])
    BY <1>7 DEF StreamEvent
  <2>2. stream[j][k].phase = "reading" /\ UNCHANGED <<mapVars, unsure>>
    BY <1>7 DEF StreamEvent
  <2>3. [stream[j][k] EXCEPT !.at = n].phase = "reading"
    BY <1>0, <2>2 DEF StreamRecs
  <2>4. ASSUME NEW i \in Items PROVE TellsOn(i)
    BY <1>3, <2>1, <2>2, <2>3 DEF Reads
  <2>5. n \in 1..Len(log[j])
    BY <1>0, <2>1 DEF ServerTypes, StreamRecs
  <2>6. ASSUME NEW i \in Items, shown'[i] # shown[i] PROVE SourceOf[i] = jobs[j].source
    <3>1. log[j][n].item = i
      BY <1>0, <2>1, <2>6 DEF Apply, PageTypes
    <3>. QED BY <2>5, <3>1, SourceRuntimeAssumption DEF Wired, JobsFit, ItemsOf
  <2>7. ASSUME NEW i \in Items, SourceOf[i] = jobs[j].source PROVE Tells(i)
    BY <2>2, <2>7 DEF Tells, StreamTells, Refreshing, Reads
  <2>8. ASSUME NEW i \in Items, Current(i) PROVE (Told(i) \/ Tells(i))'
    <3>1. CASE shown'[i] = shown[i]
      <4>1. Told(i) => Told(i)'
        BY <1>1, <2>2, <3>1 DEF Told, Row
      <4>. QED BY <1>0, <2>4, <2>8, <4>1, TellsGoOn DEF ItemsTold
    <3>2. CASE shown'[i] # shown[i]
      BY <2>4, <2>6, <2>7, <3>2, TellsGoOn
    <3>. QED BY <3>1, <3>2
  <2>9. ItemsTold'
    BY <1>1, <2>8 DEF ItemsTold, Current
  <2>. QED BY <1>2, <2>9 DEF RowsTold
<1>8. CASE StreamShowsItems(j, k)
  <2>1. SetItems(jobs[j].source, stream[j][k].statuses) /\ UNCHANGED mapVars
    BY <1>8 DEF StreamShowsItems
  <2>2. ASSUME NEW i \in Items, SourceOf[i] # jobs[j].source PROVE TellsOn(i)
    BY <1>3, <1>8, <2>2 DEF StreamShowsItems
  <2>3. ItemsTold'
    BY <1>0, <1>1, <2>1, <2>2, SetItemsTells
  <2>. QED BY <1>2, <2>3 DEF RowsTold
<1>9. CASE StreamShowsJobs(j, k)
  <2>1. ~ Refreshing(j, k)
    BY <1>9 DEF StreamShowsJobs, Refreshing, Reads
  <2>2. \A i \in Items : TellsOn(i)
    BY <1>0, <1>1, <1>9, <2>1, FinallyTells DEF StreamShowsJobs
  <2>3. ItemsTold'
    BY <1>0, <1>1, <1>9, <2>2, RowsKept DEF StreamShowsJobs
  <2>. QED BY <1>2, <2>3 DEF RowsTold
<1>10. CASE StreamFails(j, k)
  <2>1. ASSUME NEW i \in Items PROVE TellsOn(i) \/ i \in unsure'
    <3>1. CASE ~ Refreshing(j, k) \/ jobs[j].source # SourceOf[i]
      BY <1>0, <1>1, <1>10, <3>1, FinallyTells DEF StreamFails
    <3>2. CASE Refreshing(j, k) /\ jobs[j].source = SourceOf[i]
      BY <1>10, <3>2 DEF StreamFails, Refreshing, Reads, ItemsOf
    <3>. QED BY <3>1, <3>2
  <2>2. unsure \subseteq unsure' /\ UNCHANGED shown
    BY <1>10 DEF StreamFails
  <2>3. ItemsTold'
    BY <1>0, <1>1, <2>1, <2>2, RowsKept
  <2>. QED BY <1>2, <2>3 DEF RowsTold
<1>. QED BY <1>4, <1>5, <1>6, <1>7, <1>8, <1>9, <1>10 DEF StreamNext

(* A job that is connected, and that an answer may name, tells of its items. *)
LEMMA ConnectTells ==
  ASSUME StreamTypes, ServerTypes, MapsFit, NEW S \in SUBSET Jobs, Connect(S), UNCHANGED jobs
  PROVE  /\ \A j \in Jobs, k \in Copies : Refreshing(j, k) => Refreshing(j, k)'
         /\ \A j \in S : controllers[j] = None => \E k \in Copies : Refreshing(j, k)'
         /\ \A j \in Jobs : Waits(j) => Waits(j)'
<1> DEFINE new == {j \in S : controllers[j] = None}
<1>1. PICK copy \in [new -> Copies] :
         /\ \A j \in new : stream[j][copy[j]].phase = "idle"
         /\ controllers' = [j \in Jobs |-> IF j \in new THEN copy[j] ELSE controllers[j]]
         /\ stream' = [j \in Jobs |->
               IF j \in new
               THEN [stream[j] EXCEPT ![copy[j]] = [NoStream EXCEPT !.phase = "opening",
                                                                    !.at = lastId[j]]]
               ELSE stream[j]]
  BY DEF Connect
<1>2. ASSUME NEW j \in new
      PROVE  /\ copy[j] \in Copies /\ Refreshing(j, copy[j])' /\ controllers'[j] = copy[j]
             /\ \A k \in Copies : k # copy[j] => stream'[j][k] = stream[j][k]
  <2>1. copy[j] \in Copies /\ j \in Jobs /\ stream[j] \in [Copies -> StreamRecs]
    BY <1>1 DEF StreamTypes
  <2>2. stream'[j] = [stream[j] EXCEPT ![copy[j]] = [NoStream EXCEPT !.phase = "opening",
                                                                   !.at = lastId[j]]]
    BY <1>1, <2>1
  <2>3. stream'[j][copy[j]] = [NoStream EXCEPT !.phase = "opening", !.at = lastId[j]]
    BY <2>1, <2>2
  <2>4. controllers'[j] = copy[j]
    BY <1>1, <2>1
  <2>. QED BY <2>1, <2>2, <2>3, <2>4 DEF Refreshing, Reads, NoStream
<1>3. ASSUME NEW j \in Jobs, j \notin new
      PROVE  stream'[j] = stream[j] /\ controllers'[j] = controllers[j]
  BY <1>1, <1>3
<1>4. ASSUME NEW j \in Jobs, NEW k \in Copies, Refreshing(j, k) PROVE Refreshing(j, k)'
  <2>1. CASE j \in new
    BY <1>1, <1>2, <1>4, <2>1, PhasesApart DEF Refreshing
  <2>2. CASE j \notin new
    BY <1>3, <1>4, <2>2 DEF Refreshing
  <2>. QED BY <2>1, <2>2
<1>5. ASSUME NEW j \in Jobs, Waits(j) PROVE Waits(j)'
  <2>1. CASE j \in new
    BY <1>2, <2>1 DEF Waits, Refreshing
  <2>2. CASE j \notin new
    BY <1>3, <1>5, <2>2 DEF Waits, Refreshing
  <2>. QED BY <2>1, <2>2
<1>. QED BY <1>2, <1>4, <1>5

LEMMA LoadTellsOn ==
  ASSUME RuntimeTypeOK, Wired, RowsTold, NEW l \in Loads, LoadNext(l) PROVE RowsTold'
<1>0. /\ StreamTypes /\ CallTypes /\ PageTypes /\ ServerTypes /\ load[l] \in LoadRecs
      /\ request.items \subseteq Items /\ request.job \subseteq Jobs /\ ItemsTold /\ AnswersStand
      /\ MapsFit
  BY TypesInGroups DEF StreamTypes, CallTypes, RequestRecs, RowsTold, Wired
<1>1. UNCHANGED <<stored, dropped, page, jobs, request>>
  BY DEF LoadNext, LoadAsks, LoadShowsItems, LoadShowsJobs, LoadFails, serverVars
<1>2. AnswersStand'
  BY <1>0, <1>1, AnswersKept
<1>3. ASSUME NEW x, SetLoad(l, x), NEW i \in Items, UNCHANGED <<stream, controllers>>,
             \/ load[l].phase \in {"asksItems", "hasItems"} =>
                  x.phase \in {"asksItems", "hasItems"} /\ x.source = load[l].source
             \/ load[l].source # SourceOf[i]
      PROVE  TellsOn(i)
  <2>1. load'[l] = x /\ \A m \in Loads : m # l => load'[m] = load[m]
    BY <1>0, <1>3 DEF SetLoad, CallTypes
  <2>2. LoadTells(i) => LoadTells(i)'
    BY <1>3, <2>1 DEF LoadTells
  <2>. QED BY <1>1, <1>3, <2>2 DEF TellsOn, Refreshing, AnswerTells, Waits
<1>4. CASE LoadAsks(l)
  <2>1. CASE load[l].phase = "asksItems"
    <3>1. ASSUME NEW x, NEW statuses,
                 x = [load[l] EXCEPT !.phase = "hasItems", !.statuses = statuses]
          PROVE  x.phase = "hasItems" /\ x.source = load[l].source
      BY <1>0, <3>1 DEF LoadRecs
    <3>2. \A i \in Items : TellsOn(i)
      BY <1>3, <1>4, <2>1, <3>1 DEF LoadAsks, mapVars
    <3>. QED BY <1>0, <1>1, <1>2, <1>4, <3>2, RowsKept DEF LoadAsks, RowsTold
  <2>2. CASE load[l].phase = "asksJobs"
    <3>1. \A i \in Items : TellsOn(i)
      BY <1>3, <1>4, <2>2 DEF LoadAsks, mapVars
    <3>. QED BY <1>0, <1>1, <1>2, <1>4, <3>1, RowsKept DEF LoadAsks, RowsTold
  <2>. QED BY <1>4, <2>1, <2>2 DEF LoadAsks
<1>5. CASE LoadShowsItems(l)
  <2>1. \A i \in Items : SourceOf[i] # load[l].source => TellsOn(i)
    BY <1>3, <1>5 DEF LoadShowsItems, mapVars
  <2>2. ItemsTold'
    BY <1>0, <1>1, <1>5, <2>1, SetItemsTells DEF LoadShowsItems
  <2>. QED BY <1>2, <2>2 DEF RowsTold
<1>6. CASE LoadShowsJobs(l)
  <2> DEFINE S == IF page = None THEN {} ELSE active'[page]
  <2>1. S \in SUBSET Jobs
    BY <1>0, <1>6 DEF LoadShowsJobs, SetActive, LoadRecs, PageTypes
  <2>2. Connect(S) /\ SetLoad(l, NoLoad) /\ UNCHANGED <<shown, unsure>> /\ load[l].phase = "hasJobs"
    BY <1>6 DEF LoadShowsJobs
  <2>. HIDE DEF S
  <2>3. /\ \A j \in Jobs, k \in Copies : Refreshing(j, k) => Refreshing(j, k)'
        /\ \A j \in Jobs : Waits(j) => Waits(j)'
    BY <1>0, <1>1, <2>1, <2>2, ConnectTells
  <2>4. ASSUME NEW i \in Items PROVE TellsOn(i)
    <3>1. LoadTells(i) => LoadTells(i)'
      BY <1>0, <2>2 DEF LoadTells, SetLoad, CallTypes
    <3>2. AnswerTells(i) => AnswerTells(i)'
      BY <1>0, <1>1, <2>3 DEF AnswerTells
    <3>. QED BY <1>1, <2>3, <3>1, <3>2 DEF TellsOn
  <2>. QED BY <1>0, <1>1, <1>2, <2>2, <2>4, RowsKept DEF RowsTold
<1>7. CASE LoadFails(l)
  <2>1. ASSUME NEW i \in Items PROVE TellsOn(i) \/ i \in unsure'
    <3>1. CASE load[l].source # SourceOf[i]
      BY <1>3, <1>7, <3>1 DEF LoadFails, mapVars
    <3>2. CASE load[l].source = SourceOf[i]
      BY <1>7, <3>2 DEF LoadFails, ItemsOf
    <3>. QED BY <3>1, <3>2
  <2>2. unsure \subseteq unsure' /\ UNCHANGED shown
    BY <1>7 DEF LoadFails
  <2>. QED BY <1>0, <1>1, <1>2, <2>1, <2>2, RowsKept DEF RowsTold
<1>. QED BY <1>4, <1>5, <1>6, <1>7 DEF LoadNext

(* Nothing that tells of an item is cut off untold. *)
LEMMA DisconnectTells ==
  ASSUME PageTypes, NEW s \in Sources, Disconnect(s), NEW i \in Items, SourceOf[i] = s
  PROVE  i \in unsure' \/ (UNCHANGED unsure /\ \A j \in Jobs : /\ stream'[j] = stream[j]
                                                             /\ controllers'[j] = controllers[j])
BY DEF Disconnect, ItemsOf

LEMMA AskTells ==
  ASSUME RuntimeTypeOK, Wired, RowsTold, AskStart \/ AskPause \/ AskDrop \/ AskOther
  PROVE  RowsTold'
<1>0. /\ PageTypes /\ StreamTypes /\ ItemsTold
  BY TypesInGroups DEF RowsTold
<1>1. /\ request.state = "free" /\ request'.state = "sent" /\ page # None
      /\ UNCHANGED <<stored, dropped, page, jobs, load>>
  <2>1. \A kind, items : Asks(kind, items) =>
          request.state = "free" /\ request'.state = "sent" /\ page # None
    BY DEF Asks, NoRequest
  <2>2. CASE AskStart
    BY <2>1, <2>2 DEF AskStart, serverVars
  <2>3. CASE AskPause
    BY <2>1, <2>3 DEF AskPause, serverVars
  <2>4. CASE AskDrop
    BY <2>1, <2>4 DEF AskDrop, serverVars
  <2>5. CASE AskOther
    BY <2>1, <2>5 DEF AskOther, serverVars
  <2>. QED BY <2>2, <2>3, <2>4, <2>5
<1>2. AnswersStand'
  BY <1>1, UnansweredStands
<1>3. ASSUME NEW i \in Items, UNCHANGED stream PROVE TellsOn(i)
  BY <1>1, <1>3 DEF TellsOn, Refreshing, LoadTells, AnswerTells
<1>4. CASE AskStart \/ AskOther
  <2>1. UNCHANGED <<stream, shown, unsure>>
    BY <1>4 DEF AskStart, AskOther
  <2>. QED BY <1>0, <1>1, <1>2, <1>3, <2>1, RowsKept DEF RowsTold
<1>5. CASE AskPause
  <2>1. PICK i \in Items : /\ shown' = [shown EXCEPT ![i] = "pause_requested"]
                           /\ unsure' = unsure \cup {i} /\ UNCHANGED stream
    BY <1>5 DEF AskPause, Rows
  <2>2. ASSUME NEW x \in Items, Current(x) PROVE (Told(x) \/ Tells(x))'
    <3>1. CASE x = i
      BY <2>1, <3>1 DEF Told
    <3>2. CASE x # i
      <4>1. Told(x) => Told(x)'
        BY <1>0, <1>1, <2>1, <3>2 DEF Told, Row, PageTypes
      <4>. QED BY <1>0, <1>3, <2>1, <2>2, <4>1, TellsGoOn DEF ItemsTold
    <3>. QED BY <3>1, <3>2
  <2>3. ItemsTold'
    BY <1>1, <2>2 DEF ItemsTold, Current
  <2>. QED BY <1>2, <2>3 DEF RowsTold
<1>6. CASE AskDrop
  <2>1. Disconnect(page) /\ UNCHANGED shown
    BY <1>6 DEF AskDrop, Clear
  <2>2. unsure \subseteq unsure'
    BY <2>1 DEF Disconnect
  <2>3. ASSUME NEW i \in Items, Current(i) PROVE TellsOn(i) \/ i \in unsure'
    <3>1. CASE i \in unsure'
      BY <3>1
    <3>2. CASE \A j \in Jobs : stream'[j] = stream[j]
      BY <1>1, <3>2 DEF TellsOn, Refreshing, LoadTells, AnswerTells
    <3>. QED BY <1>0, <1>1, <2>1, <2>3, <3>1, <3>2, DisconnectTells DEF Current, PageTypes
  <2>4. ItemsTold'
    BY <1>0, <1>1, <2>1, <2>2, <2>3, RowsKept
  <2>. QED BY <1>2, <2>4 DEF RowsTold
<1>. QED BY <1>4, <1>5, <1>6

LEMMA ViewTells ==
  ASSUME RuntimeTypeOK, Wired, RowsTold,
         \/ \E s \in Sources : Visit(s) \/ PanelCloses(s)
         \/ Unmount
         \/ \E i \in Items : BarCloses(i)
  PROVE  RowsTold'
<1>0. /\ CallTypes /\ ItemsTold /\ AnswersStand /\ request.items \subseteq Items
  BY TypesInGroups DEF CallTypes, RequestRecs, RowsTold
<1>1. UNCHANGED <<stored, dropped, jobs, request>>
  BY DEF Visit, PanelCloses, Unmount, BarCloses, serverVars
<1>2. AnswersStand'
  BY <1>0, <1>1, AnswersKept
<1>3. ASSUME NEW s \in Sources, Visit(s) PROVE RowsTold'
  <2>1. PICK l \in Loads : Loading(l, s, TRUE)
    BY <1>3 DEF Visit
  <2>2. load'[l].phase = "asksItems" /\ load'[l].source = s
    BY <1>0, <2>1 DEF Loading, SetLoad, NoLoad, CallTypes
  <2>3. ASSUME NEW i \in Items, Current(i)' PROVE Tells(i)'
    <3>1. SourceOf[i] = s
      BY <1>3, <2>3 DEF Visit, Current
    <3>. QED BY <2>2, <3>1 DEF Tells, LoadTells
  <2>4. ItemsTold'
    BY <2>3 DEF ItemsTold
  <2>. QED BY <1>2, <2>4 DEF RowsTold
<1>4. CASE Unmount
  <2>1. ItemsTold'
    BY <1>4 DEF Unmount, ItemsTold, Current
  <2>. QED BY <1>2, <2>1 DEF RowsTold
<1>5. CASE (\E s \in Sources : PanelCloses(s)) \/ \E i \in Items : BarCloses(i)
  <2>1. UNCHANGED <<stream, controllers, load, page, shown, unsure>>
    BY <1>5 DEF PanelCloses, BarCloses, mapVars
  <2>. QED BY <1>0, <1>1, <1>2, <2>1, RowsKept, TellsAsBefore DEF RowsTold
<1>. QED BY <1>3, <1>4, <1>5

LEMMA AnswersTell ==
  ASSUME RuntimeTypeOK, Wired, RowsTold,
         AnswerStart \/ AnswerPause \/ AnswerRows \/ AnswerDelete \/ AnswerDrop \/ RequestFails
  PROVE  RowsTold'
<1>0. /\ CallTypes /\ PageTypes /\ StreamTypes /\ ServerTypes /\ ItemsTold /\ AnswersStand
      /\ MapsFit /\ StreamsFit /\ RequestFits
      /\ request.items \subseteq Items /\ request.job \subseteq Jobs
  BY TypesInGroups DEF CallTypes, RequestRecs, RowsTold, Wired
<1>1. request' = NoRequest /\ UNCHANGED <<stored, dropped, page, jobs>>
  BY DEF AnswerStart, AnswerPause, AnswerRows, AnswerDelete, AnswerDrop, RequestFails, Answered,
         serverVars
<1>2. AnswersStand'
  BY <1>1, UnansweredStands DEF NoRequest
<1>3. ASSUME NEW i \in Items, UNCHANGED stream, LoadTells(i) => LoadTells(i)', ~ AnswerTells(i),
             Tells(i)
      PROVE  Tells(i)'
  BY <1>1, <1>3 DEF Tells, StreamTells, Refreshing
<1>4. CASE AnswerStart
  <2>1. /\ request.kind \in Starts /\ request.state = "served" /\ UNCHANGED load
        /\ shown' = [i \in Items |-> IF i \in request.items /\ shown[i] # "absent"
                                     THEN "processing" ELSE shown[i]]
        /\ unsure' = unsure \cup
             {i \in request.items : \E j \in request.job : \E k \in Copies :
                 controllers[j] = k /\ stream[j][k].phase \in {"asksJobs", "hasJobs"}}
    BY <1>4 DEF AnswerStart, Answered
  <2>2. /\ \A j \in Jobs, k \in Copies : Refreshing(j, k) => Refreshing(j, k)'
        /\ \A j \in request.job : controllers[j] = None => \E k \in Copies : Refreshing(j, k)'
    BY <1>0, <1>1, <1>4, ConnectTells DEF AnswerStart
  <2>3. \A j \in request.job : jobs[j].source = request.source
    BY <1>0 DEF RequestFits
  <2>4. ASSUME NEW i \in Items, NEW j \in request.job, request.source = SourceOf[i], Waits(j)
        PROVE  Tells(i)'
    <3>1. j \in Jobs /\ jobs'[j].source = SourceOf[i]
      BY <1>0, <1>1, <2>3, <2>4
    <3>2. \E k \in Copies : Refreshing(j, k)'
      <4>1. CASE controllers[j] = None
        BY <2>2, <4>1
      <4>2. CASE controllers[j] # None
        <5>1. controllers[j] \in Copies
          BY <1>0, <3>1, <4>2 DEF StreamTypes
        <5>. QED BY <2>2, <2>4, <3>1, <4>2, <5>1 DEF Waits
      <4>. QED BY <4>1, <4>2
    <3>. QED BY <3>1, <3>2 DEF Tells, StreamTells
  <2>5. ASSUME NEW i \in Items, Tells(i) PROVE Tells(i)'
    <3>1. CASE StreamTells(i)
      BY <1>1, <2>2, <3>1 DEF Tells, StreamTells
    <3>2. CASE LoadTells(i)
      BY <2>1, <3>2 DEF Tells, LoadTells
    <3>3. CASE AnswerTells(i)
      BY <2>1, <2>4, <3>3 DEF AnswerTells, Starts
    <3>. QED BY <2>5, <3>1, <3>2, <3>3 DEF Tells
  <2>6. ASSUME NEW i \in request.items PROVE Tells(i)' \/ i \in unsure'
    <3>1. i \in Items /\ request.source = SourceOf[i]
      BY <1>0 DEF RequestFits, ItemsOf
    <3>2. PICK j \in request.job : TRUE
      BY <1>0, <2>1 DEF RequestFits
    <3>3. CASE Waits(j)
      BY <2>4, <3>1, <3>3
    <3>4. CASE ~ Waits(j)
      <4> DEFINE k == controllers[j]
      <4>1. k # None /\ j \in Jobs
        BY <1>0, <3>4 DEF Waits
      <4>2. k \in Copies /\ Live(j, k) /\ stream[j][k] \in StreamRecs
        BY <1>0, <4>1 DEF StreamTypes, MapsFit
      <4>3. stream[j][k].phase \in {"asksJobs", "hasJobs"}
        BY <3>4, <4>2 DEF Waits, Refreshing, Live, StreamRecs, Reloads
      <4>. QED BY <2>1, <4>2, <4>3
    <3>. QED BY <3>3, <3>4
  <2>7. ASSUME NEW i \in Items, Current(i) PROVE (Told(i) \/ Tells(i))'
    <3>1. CASE i \in request.items
      BY <2>6, <3>1 DEF Told
    <3>2. CASE i \notin request.items
      <4>1. Told(i) => Told(i)'
        BY <1>1, <2>1, <3>2 DEF Told, Row
      <4>. QED BY <1>0, <2>5, <2>7, <4>1 DEF ItemsTold
    <3>. QED BY <3>1, <3>2
  <2>8. ItemsTold'
    BY <1>1, <2>7 DEF ItemsTold, Current
  <2>. QED BY <1>2, <2>8 DEF RowsTold
<1>5. CASE AnswerPause \/ AnswerRows \/ AnswerDelete
  <2>1. /\ request.state = "served" /\ UNCHANGED stream
        /\ request.kind \in {"pause", "upload", "rename", "delete"}
        /\ \A i \in Items : i \notin request.items => shown'[i] = shown[i]
    BY <1>5 DEF AnswerPause, AnswerRows, AnswerDelete, Answered
  <2>2. \A i \in Items : i \notin request.items /\ i \in unsure => i \in unsure'
    BY <1>5 DEF AnswerPause, AnswerRows, AnswerDelete
  <2>3. ASSUME NEW i \in Items PROVE LoadTells(i) => LoadTells(i)'
    <3>1. CASE UNCHANGED load
      BY <3>1 DEF LoadTells
    <3>2. ASSUME NEW l \in Loads, Loading(l, page, FALSE)
          PROVE  LoadTells(i) => LoadTells(i)'
      <4>1. load[l].phase = "idle" /\ \A m \in Loads : m # l => load'[m] = load[m]
        BY <1>0, <3>2 DEF Loading, SetLoad, Free, CallTypes
      <4>. QED BY <4>1 DEF LoadTells
    <3>. QED BY <1>5, <3>1, <3>2 DEF AnswerPause, AnswerRows, AnswerDelete
  <2>4. ASSUME NEW i \in request.items PROVE Told(i)'
    <3>0. i \in Items
      BY <1>0
    <3>1. CASE AnswerPause
      BY <1>1, <3>0, <3>1 DEF AnswerPause, Told, Row
    <3>2. CASE AnswerRows
      BY <1>1, <3>0, <3>2 DEF AnswerRows, Told, Row
    <3>3. CASE AnswerDelete
      <4>1. stored[i] = "gone"
        BY <1>0, <2>1, <3>3 DEF AnswerDelete, Answered, AnswersStand
      <4>2. shown'[i] = "absent"
        BY <3>0, <3>3 DEF AnswerDelete
      <4>. QED BY <1>1, <4>1, <4>2 DEF Told, Row
    <3>. QED BY <1>5, <3>1, <3>2, <3>3
  <2>5. ASSUME NEW i \in Items, Current(i) PROVE (Told(i) \/ Tells(i))'
    <3>1. CASE i \in request.items
      BY <2>4, <3>1
    <3>2. CASE i \notin request.items
      <4>1. Told(i) => Told(i)'
        BY <1>1, <2>1, <2>2, <3>2 DEF Told, Row
      <4>2. ~ AnswerTells(i)
        BY <2>1, <3>2 DEF AnswerTells, Starts
      <4>. QED BY <1>0, <1>3, <2>1, <2>3, <2>5, <4>1, <4>2 DEF ItemsTold
    <3>. QED BY <3>1, <3>2
  <2>6. ItemsTold'
    BY <1>1, <2>5 DEF ItemsTold, Current
  <2>. QED BY <1>2, <2>6 DEF RowsTold
<1>6. CASE AnswerDrop
  <2>1. /\ request.state = "served" /\ request.kind = "drop" /\ UNCHANGED <<stream, load, unsure>>
        /\ \A i \in Items : SourceOf[i] # request.source => shown'[i] = shown[i]
    BY <1>6 DEF AnswerDrop, Answered
  <2>2. request.source \in dropped
    BY <1>0, <2>1 DEF AnswersStand
  <2>3. ASSUME NEW i \in Items, Current(i) PROVE (Told(i) \/ Tells(i))'
    <3>1. SourceOf[i] # request.source
      BY <2>2, <2>3 DEF Current
    <3>2. Told(i) => Told(i)'
      BY <1>1, <2>1, <3>1 DEF Told, Row
    <3>3. ~ AnswerTells(i)
      BY <2>1 DEF AnswerTells, Starts
    <3>4. LoadTells(i) => LoadTells(i)'
      BY <2>1 DEF LoadTells
    <3>. QED BY <1>0, <1>3, <2>1, <2>3, <3>2, <3>3, <3>4 DEF ItemsTold
  <2>4. ItemsTold'
    BY <1>1, <2>3 DEF ItemsTold, Current
  <2>. QED BY <1>2, <2>4 DEF RowsTold
<1>7. CASE RequestFails
  <2>1. UNCHANGED <<stream, controllers, load, shown>>
        /\ unsure' = unsure \cup ItemsOf(request.source)
    BY <1>7 DEF RequestFails, mapVars
  <2>2. ASSUME NEW i \in Items, Current(i) PROVE (Told(i) \/ Tells(i))'
    <3>1. CASE SourceOf[i] = request.source
      BY <2>1, <3>1 DEF Told, ItemsOf
    <3>2. CASE SourceOf[i] # request.source
      <4>1. ~ AnswerTells(i)
        BY <1>0, <3>2 DEF AnswerTells, RequestFits, ItemsOf
      <4>2. Told(i) => Told(i)'
        BY <1>1, <2>1 DEF Told, Row
      <4>3. LoadTells(i) => LoadTells(i)'
        BY <2>1 DEF LoadTells
      <4>. QED BY <1>0, <1>3, <2>1, <2>2, <4>1, <4>2, <4>3 DEF ItemsTold
    <3>. QED BY <3>1, <3>2
  <2>3. ItemsTold'
    BY <1>1, <2>2 DEF ItemsTold, Current
  <2>. QED BY <1>2, <2>3 DEF RowsTold
<1>. QED BY <1>4, <1>5, <1>6, <1>7

LEMMA StepTells ==
  ASSUME RuntimeTypeOK, Wired, RowsTold, [Next]_vars PROVE RowsTold'
<1>1. CASE ServerNext
  BY <1>1, JobStepTells, ServeTells DEF ServerNext
<1>2. CASE PageNext
  BY <1>2, AskTells, AnswersTell, ViewTells DEF PageNext
<1>3. CASE \E j \in Jobs, k \in Copies : StreamNext(j, k)
  BY <1>3, StreamTellsOn
<1>4. CASE \E l \in Loads : LoadNext(l)
  BY <1>4, LoadTellsOn
<1>5. CASE UNCHANGED vars
  <2>1. UNCHANGED <<stored, dropped, page, shown, unsure, jobs, stream, controllers, load, request>>
    BY <1>5 DEF vars, mapVars
  <2>2. request.items \subseteq Items
    BY TypesInGroups DEF CallTypes, RequestRecs
  <2>. QED BY <2>1, <2>2, RowsKept, TellsAsBefore, AnswersKept DEF RowsTold
<1>. QED BY <1>1, <1>2, <1>3, <1>4, <1>5 DEF Next

LEMMA InitTells == Init => RowsTold
<1> SUFFICES ASSUME Init PROVE RowsTold
  OBVIOUS
<1>1. \E l \in Loads : load[l].phase = "asksItems" /\ load[l].source = page
  <2>1. PICK l \in Loads :
          load = [m \in Loads |-> IF m = l THEN [NoLoad EXCEPT !.phase = "asksItems",
                                                               !.source = page, !.whole = TRUE]
                                  ELSE NoLoad]
    BY DEF Init
  <2>. QED BY <2>1 DEF NoLoad
<1>2. ItemsTold
  BY <1>1 DEF ItemsTold, Current, Tells, LoadTells
<1>3. request = NoRequest
  BY DEF Init
<1>. QED BY <1>2, <1>3 DEF RowsTold, AnswersStand, NoRequest

(* Once no call, no stream and no job is under way the page shows what is    *)
(* stored, in whatever order events and answers came, but for the items that *)
(* changed with nobody following or that an outdated answer showed last:     *)
(* useSourceItemsRuntime.ts and stores/source.ts.                            *)
THEOREM RowsSettleInTheEnd == Spec => []RowsSettle
<1>1. Init => RuntimeInv
  BY InitTyped, InitWired, InitTells DEF RuntimeInv
<1>2. RuntimeInv /\ [Next]_vars => RuntimeInv'
  BY StepTyped, StepWired, StepTells DEF RuntimeInv, Wired, RequestFits
<1>3. RuntimeInv => RowsSettle
  <2> SUFFICES ASSUME RuntimeInv, Quiet, NEW i \in Items, Current(i)
               PROVE  i \in unsure \/ shown[i] = Row(i)
    BY DEF RowsSettle
  <2>1. ~ StreamTells(i)
    BY DEF StreamTells, Refreshing, Quiet, Reads
  <2>2. ~ LoadTells(i)
    BY DEF LoadTells, Quiet, Free
  <2>3. ~ AnswerTells(i)
    BY DEF AnswerTells, Quiet, NoRequest
  <2>. QED BY <2>1, <2>2, <2>3 DEF RuntimeInv, RowsTold, ItemsTold, Told, Tells
<1>. QED BY <1>1, <1>2, <1>3, PTL DEF Spec

-----------------------------------------------------------------------------
(* The bars. *)

Marked(j) == jobs[j].kind \in {"index", "resume"}

(* After event n of its job an item is told to be at its end, or will be.    *)
Ends(j, n, i) == \E m \in (n + 1)..Len(log[j]) :
  log[j][m].item = i /\ log[j][m].name \in Terminal
Due(j, n, i) == (Marked(j) /\ i \in jobs[j].left) \/ Ends(j, n, i)

(* A claim is followed by an end, and nothing is left when a job is over; a  *)
(* stream is nowhere beyond the log.                                         *)
LogFits ==
  /\ \A j \in Jobs : ~ Exists(j) => lastId[j] = 0
  /\ \A j \in Jobs : jobs[j].over => jobs[j].left = {}
  /\ \A j \in Jobs : \A n \in 1..Len(log[j]) :
       log[j][n].name = "item_progress" => Due(j, n, log[j][n].item)
  /\ \A j \in Jobs : lastId[j] <= Len(log[j])
  /\ \A j \in Jobs, k \in Copies : stream[j][k].at <= Len(log[j])
  /\ request.fresh => request.state = "served"

(* What will still close the bar of an item: a request that may start its    *)
(* job, the answer that names the job, or a stream of it.                    *)
Asked(i) ==
  /\ request.kind \in {"index", "resume"} /\ i \in request.items
  /\ request.state \in {"sent", "refused"} \/ (request.state = "served" /\ ~ request.fresh)

Untouched(j) == controllers[j] = None /\ lastId[j] = 0 /\ \A k \in Copies : ~ Reading(j, k)

Starting(i) ==
  request.state = "served" /\ request.fresh /\ \E j \in request.job : Untouched(j) /\ Due(j, 0, i)

Following(i) == \E j \in Jobs, k \in Copies : Reading(j, k) /\ Due(j, stream[j][k].at, i)

BarTold(i) == i \in missed \/ Asked(i) \/ Starting(i) \/ Following(i)
BarsTold == \A i \in Items : bar[i] = "shown" => BarTold(i)

BarInv == RuntimeTypeOK /\ Wired /\ LogFits /\ BarsTold

LEMMA BarTypes ==
  ASSUME RuntimeTypeOK
  PROVE  /\ jobs \in [Jobs -> JobRecs] /\ log \in [Jobs -> Seq(Events)]
         /\ \A j \in Jobs : Len(log[j]) \in Nat /\ log[j] \in Seq(Events)
         /\ StreamTypes /\ stream \in [Jobs -> [Copies -> StreamRecs]]
         /\ \A j \in Jobs, k \in Copies : stream[j][k].at \in Nat
         /\ lastId \in [Jobs -> Nat] /\ request \in RequestRecs /\ request.items \subseteq Items
         /\ request.job \subseteq Jobs
         /\ bar \in [Items -> {"none", "shown", "closing"}] /\ missed \subseteq Items
<1>1. /\ ServerTypes /\ StreamTypes /\ PageTypes /\ CallTypes
  BY TypesInGroups
<1>2. /\ jobs \in [Jobs -> JobRecs] /\ log \in [Jobs -> Seq(Events)]
      /\ \A j \in Jobs : Len(log[j]) \in Nat /\ log[j] \in Seq(Events)
  BY <1>1 DEF ServerTypes
<1>3. stream \in [Jobs -> [Copies -> StreamRecs]]
  BY <1>1 DEF StreamTypes
<1>4. \A j \in Jobs, k \in Copies : stream[j][k].at \in Nat
  BY <1>3 DEF StreamRecs
<1>. QED BY <1>1, <1>2, <1>3, <1>4 DEF PageTypes, CallTypes, RequestRecs

(* A due item belongs to the source of the job. *)
LEMMA DueHere ==
  ASSUME RuntimeTypeOK, JobsFit, NEW j \in Jobs, NEW n \in Nat, NEW i \in Items, Due(j, n, i)
  PROVE  i \in ItemsOf(jobs[j].source)
<1>1. CASE i \in jobs[j].left
  BY <1>1 DEF JobsFit
<1>2. CASE Ends(j, n, i)
  <2>1. PICK m \in (n + 1)..Len(log[j]) : log[j][m].item = i
    BY <1>2 DEF Ends
  <2>2. m \in 1..Len(log[j])
    BY <2>1, BarTypes
  <2>. QED BY <2>1, <2>2, SourceRuntimeAssumption DEF JobsFit
<1>. QED BY <1>1, <1>2 DEF Due

(* What is due stays due, while no event has closed it. *)
DueOn(j) == \A n \in Nat, i \in Items : n <= Len(log[j]) /\ Due(j, n, i) => Due(j, n, i)'

LEMMA DueKept ==
  ASSUME NEW j \in Jobs, jobs'[j] = jobs[j], log'[j] = log[j] PROVE DueOn(j)
BY DEF DueOn, Due, Ends, Marked

(* A step of the server: the logs grow, nothing that is due is lost, and the *)
(* page does not change.                                                     *)
LEMMA ServerBars ==
  ASSUME BarInv, RuntimeTypeOK', \A j \in Jobs : DueOn(j),
         \A j \in Jobs : Len(log[j]) <= Len(log'[j]),
         UNCHANGED <<bar, missed, stream, controllers, lastId>>,
         \A i \in Items : Asked(i) => BarTold(i)',
         request.state = "served" => UNCHANGED request
  PROVE  BarsTold'
<1> SUFFICES ASSUME NEW i \in Items, bar[i] = "shown" PROVE BarTold(i)'
  BY DEF BarsTold
<1>0. /\ \A j \in Jobs, k \in Copies : stream[j][k].at \in Nat /\ stream[j][k].at <= Len(log[j])
      /\ \A j \in Jobs : Len(log[j]) \in Nat
      /\ request.job \subseteq Jobs
  BY BarTypes DEF BarInv, LogFits
<1>1. CASE i \in missed
  BY <1>1 DEF BarTold
<1>2. CASE Asked(i)
  BY <1>2
<1>3. CASE Starting(i)
  <2>1. PICK j \in request.job : Untouched(j) /\ Due(j, 0, i)
    BY <1>3 DEF Starting
  <2>2. j \in Jobs /\ 0 <= Len(log[j]) /\ DueOn(j)
    BY <1>0, <2>1
  <2>3. Due(j, 0, i)'
    BY <2>1, <2>2 DEF DueOn
  <2>4. Untouched(j)'
    BY <2>1 DEF Untouched, Reading
  <2>. QED BY <1>3, <2>1, <2>3, <2>4 DEF Starting, BarTold
<1>4. CASE Following(i)
  <2>1. PICK j \in Jobs, k \in Copies : Reading(j, k) /\ Due(j, stream[j][k].at, i)
    BY <1>4 DEF Following
  <2>2. PICK n \in Nat : n = stream[j][k].at /\ n <= Len(log[j])
    BY <1>0
  <2>3. Due(j, n, i)'
    BY <2>1, <2>2 DEF DueOn
  <2>. QED BY <2>1, <2>2, <2>3 DEF Reading, Following, BarTold
<1>. QED BY <1>1, <1>2, <1>3, <1>4 DEF BarInv, BarsTold, BarTold

(* An item leaves the rest of its job with the event of its end.             *)
LEMMA ReportsBars ==
  ASSUME BarInv, RuntimeTypeOK', NEW j \in Jobs, NEW i \in Items, NEW status, NEW event \in Events,
         NEW left \in SUBSET Items, Reports(j, i, status, event, left),
         Marked(j) => \/ left = jobs[j].left
                      \/ /\ left = jobs[j].left \ {i}
                         /\ event.item = i /\ event.name \in Terminal,
         event.name = "item_progress" => Marked(j) /\ event.item \in left
  PROVE  (LogFits /\ BarsTold)'
<1>0. /\ jobs \in [Jobs -> JobRecs] /\ log \in [Jobs -> Seq(Events)]
      /\ \A x \in Jobs : Len(log[x]) \in Nat /\ log[x] \in Seq(Events)
  BY BarTypes DEF BarInv
<1>1. /\ \A x \in Jobs : x # j => jobs'[x] = jobs[x] /\ log'[x] = log[x]
      /\ jobs'[j] = [jobs[j] EXCEPT !.left = left] /\ log'[j] = Append(log[j], event)
      /\ UNCHANGED <<bar, missed, stream, controllers, lastId, request>> /\ Running(j)
  BY <1>0 DEF Reports, mapVars
<1>2. /\ jobs'[j].left = left /\ jobs'[j].kind = jobs[j].kind /\ jobs'[j].over = jobs[j].over
  BY <1>0, <1>1 DEF JobRecs
<1>3. /\ Len(log'[j]) = Len(log[j]) + 1 /\ log'[j][Len(log[j]) + 1] = event
      /\ \A m \in 1..Len(log[j]) : log'[j][m] = log[j][m]
  BY <1>0, <1>1
<1>4. ASSUME NEW n \in Nat, n <= Len(log[j]), NEW x \in Items, Due(j, n, x) PROVE Due(j, n, x)'
  <2>1. CASE Ends(j, n, x)
    <3>1. PICK m \in (n + 1)..Len(log[j]) : log[j][m].item = x /\ log[j][m].name \in Terminal
      BY <2>1 DEF Ends
    <3>2. m \in (n + 1)..Len(log'[j]) /\ log'[j][m] = log[j][m]
      BY <1>0, <1>3, <1>4, <3>1
    <3>. QED BY <3>1, <3>2 DEF Due, Ends
  <2>2. CASE Marked(j) /\ x \in jobs[j].left
    <3>1. CASE x \in left
      BY <1>2, <2>2, <3>1 DEF Due, Marked
    <3>2. CASE x \notin left
      <4>1. x = i /\ event.item = i /\ event.name \in Terminal
        BY <2>2, <3>2
      <4>2. Len(log[j]) + 1 \in (n + 1)..Len(log'[j])
        BY <1>0, <1>3, <1>4
      <4>. QED BY <1>3, <4>1, <4>2 DEF Due, Ends
    <3>. QED BY <3>1, <3>2
  <2>. QED BY <1>4, <2>1, <2>2 DEF Due
<1>5. ASSUME NEW x \in Jobs PROVE DueOn(x)
  <2>1. CASE x = j
    BY <1>4, <2>1 DEF DueOn
  <2>2. CASE x # j
    BY <1>1, <2>2, DueKept
  <2>. QED BY <2>1, <2>2
<1>6. \A x \in Jobs : Len(log[x]) <= Len(log'[x])
  BY <1>0, <1>1, <1>3
<1>7. BarsTold'
  <2>1. \A x \in Items : Asked(x) => BarTold(x)'
    BY <1>1 DEF Asked, BarTold
  <2>. QED BY <1>1, <1>5, <1>6, <2>1, ServerBars
<1>8. LogFits'
  <2>0. LogFits
    BY DEF BarInv
  <2>1. ASSUME NEW x \in Jobs PROVE /\ ~ Exists(x)' => lastId'[x] = 0
                                    /\ jobs'[x].over => jobs'[x].left = {}
    BY <1>1, <1>2, <2>0 DEF LogFits, Exists, Running
  <2>2. ASSUME NEW x \in Jobs, NEW n \in 1..Len(log'[x]), log'[x][n].name = "item_progress"
        PROVE  Due(x, n, log[x][n].item)' 
    <3>1. CASE x = j /\ n = Len(log[j]) + 1
      BY <1>2, <1>3, <2>2, <3>1 DEF Due, Marked
    <3>2. CASE ~ (x = j /\ n = Len(log[j]) + 1)
      <4>1. n \in 1..Len(log[x]) /\ log'[x][n] = log[x][n]
        BY <1>0, <1>1, <1>3, <3>2
      <4>2. Due(x, n, log[x][n].item)
        BY <2>0, <2>2, <4>1 DEF LogFits
      <4>3. CASE log[x][n].item \in Items
        BY <1>5, <4>1, <4>2, <4>3 DEF DueOn
      <4>4. CASE log[x][n].item \notin Items
        <5>1. Ends(x, n, log[x][n].item)
          BY <1>0, <4>2, <4>4 DEF Due, JobRecs
        <5>. QED BY <1>0, <1>1, <1>3, <4>1, <5>1 DEF Due, Ends
      <4>. QED BY <4>3, <4>4
    <3>. QED BY <3>1, <3>2
  <2>3. \A x \in Jobs : lastId'[x] <= Len(log'[x])
    BY <1>0, <1>1, <1>6, <2>0, BarTypes DEF LogFits, BarInv
  <2>4. \A x \in Jobs, k \in Copies : stream'[x][k].at <= Len(log'[x])
    BY <1>0, <1>1, <1>6, <2>0, BarTypes DEF LogFits, BarInv
  <2>. QED BY <1>1, <2>0, <2>1, <2>2, <2>3, <2>4 DEF LogFits
<1>. QED BY <1>7, <1>8

LEMMA JobStepBars ==
  ASSUME BarInv, RuntimeTypeOK', NEW j \in Jobs,
         EndsJob(j) \/ \E i \in Items : IndexesItem(j, i) \/ CrawlsItem(j, i)
  PROVE  (LogFits /\ BarsTold)'
<1>0. /\ jobs \in [Jobs -> JobRecs] /\ log \in [Jobs -> Seq(Events)]
      /\ \A x \in Jobs : Len(log[x]) \in Nat /\ log[x] \in Seq(Events)
      /\ stored \in [Items -> Status \cup {"gone"}] /\ jobs[j].left \in SUBSET Items
  BY BarTypes, TypesInGroups DEF BarInv, ServerTypes, JobRecs
<1>1. CASE EndsJob(j)
  <2> DEFINE event == Event("sync_complete", None, None)
  <2>1. event.name = "sync_complete"
    BY DEF Event
  <2> HIDE DEF event
  <2>2. /\ \A x \in Jobs : x # j => jobs'[x] = jobs[x] /\ log'[x] = log[x]
        /\ jobs'[j] = [jobs[j] EXCEPT !.over = TRUE] /\ log'[j] = Append(log[j], event)
        /\ UNCHANGED <<bar, missed, stream, controllers, lastId, request>>
        /\ jobs[j].left = {}
    BY <1>0, <1>1 DEF EndsJob, mapVars, event
  <2>3. jobs'[j].left = {} /\ jobs'[j].kind = jobs[j].kind
    BY <1>0, <2>2 DEF JobRecs
  <2>4. /\ Len(log'[j]) = Len(log[j]) + 1 /\ log'[j][Len(log[j]) + 1] = event
        /\ \A m \in 1..Len(log[j]) : log'[j][m] = log[j][m]
    BY <1>0, <1>1 DEF EndsJob, event
  <2>5. ASSUME NEW n \in Nat, NEW x, Ends(j, n, x) PROVE Ends(j, n, x)'
    <3>1. PICK m \in (n + 1)..Len(log[j]) : log[j][m].item = x /\ log[j][m].name \in Terminal
      BY <2>5 DEF Ends
    <3>2. m \in (n + 1)..Len(log'[j]) /\ log'[j][m] = log[j][m]
      BY <1>0, <2>4, <2>5, <3>1
    <3>. QED BY <3>1, <3>2 DEF Ends
  <2>6. ASSUME NEW x \in Jobs PROVE DueOn(x)
    <3>1. CASE x = j
      BY <2>2, <2>5, <3>1 DEF DueOn, Due
    <3>2. CASE x # j
      BY <2>2, <3>2, DueKept
    <3>. QED BY <3>1, <3>2
  <2>7. \A x \in Jobs : Len(log[x]) <= Len(log'[x])
    BY <1>0, <2>2, <2>4, SMTT(30)
  <2>8. BarsTold'
    <3>1. \A x \in Items : Asked(x) => BarTold(x)'
      BY <2>2 DEF Asked, BarTold
    <3>. QED BY <2>2, <2>6, <2>7, <3>1, ServerBars
  <2>9. LogFits'
    <3>0. LogFits
      BY DEF BarInv
    <3>1. ASSUME NEW x \in Jobs PROVE /\ ~ Exists(x)' => lastId'[x] = 0
                                      /\ jobs'[x].over => jobs'[x].left = {}
      BY <2>2, <2>3, <3>0 DEF LogFits, Exists
    <3>2. ASSUME NEW x \in Jobs, NEW n \in 1..Len(log'[x]), log'[x][n].name = "item_progress"
          PROVE  Due(x, n, log[x][n].item)'
      <4>1. n \in 1..Len(log[x]) /\ log'[x][n] = log[x][n]
        BY <1>0, <2>1, <2>2, <2>4, <3>2
      <4>2. Due(x, n, log[x][n].item)
        BY <3>0, <3>2, <4>1 DEF LogFits
      <4>3. CASE x = j
        <5>1. Ends(j, n, log[j][n].item)
          BY <2>2, <4>2, <4>3 DEF Due
        <5>. QED BY <2>5, <4>1, <4>3, <5>1 DEF Due
      <4>4. CASE x # j
        BY <2>2, <4>2, <4>4 DEF Due, Ends, Marked
      <4>. QED BY <4>3, <4>4
    <3>3. \A x \in Jobs : lastId'[x] <= Len(log'[x])
      BY <1>0, <2>2, <2>7, <3>0, BarTypes DEF LogFits, BarInv
    <3>4. \A x \in Jobs, k \in Copies : stream'[x][k].at <= Len(log'[x])
      BY <1>0, <2>2, <2>7, <3>0, BarTypes DEF LogFits, BarInv
    <3>. QED BY <2>2, <3>0, <3>1, <3>2, <3>3, <3>4 DEF LogFits
  <2>. QED BY <2>8, <2>9
<1>2. ASSUME NEW i \in Items, IndexesItem(j, i) \/ CrawlsItem(j, i) PROVE (LogFits /\ BarsTold)'
  <2>0. ASSUME NEW name \in EventNames, NEW item \in Items \cup {None},
               NEW status \in Status \cup {None}
        PROVE  /\ Event(name, item, status) \in Events
               /\ Event(name, item, status).name = name /\ Event(name, item, status).item = item
    BY <2>0, EventTyped DEF Event
  <2> HIDE DEF Event
  <2>1. /\ jobs[j].left \ {i} \in SUBSET Items /\ EventNames = Terminal \cup
             {"item_progress", "item_upserted", "sync_complete"}
        /\ "processing" \in Status /\ "completed" \in Status /\ "failed" \in Status
        /\ "paused" \in Status /\ "pending" \in Status /\ "item_progress" \notin Terminal
    BY <1>0 DEF EventNames, Terminal, Status, Busy, Claimable
  <2>2. CASE Claims(j, i) /\ Marked(j) /\ i \in jobs[j].left
    BY <1>0, <2>0, <2>1, <2>2, ReportsBars DEF Claims
  <2>3. ASSUME NEW status, NEW name \in Terminal, NEW told \in Status,
               Reports(j, i, status, Event(name, i, told), jobs[j].left \ {i})
        PROVE  (LogFits /\ BarsTold)'
    BY <1>0, <2>0, <2>1, <2>3, ReportsBars
  <2>4. CASE Skips(j, i)
    <3>1. stored[i] \in Status /\ "item_skipped" \in Terminal
      BY <1>0, <2>4 DEF Skips, NoRow, Terminal
    <3>. QED BY <2>3, <2>4, <3>1 DEF Skips
  <2>5. CASE Misses(j, i)
    BY <2>1, <2>3, <2>5 DEF Misses, Terminal
  <2>6. CASE Pauses(j, i)
    BY <2>1, <2>3, <2>6 DEF Pauses, Terminal
  <2>7. CASE Settles(j, i)
    BY <2>1, <2>3, <2>7 DEF Settles, Terminal
  <2>8. CASE CrawlsItem(j, i)
    <3>1. ~ Marked(j)
      BY <2>8 DEF CrawlsItem, Marked
    <3>2. ASSUME NEW status, NEW event \in Events, event.name # "item_progress",
                 Reports(j, i, status, event, jobs[j].left \ {i})
          PROVE  (LogFits /\ BarsTold)'
      BY <2>1, <3>1, <3>2, ReportsBars
    <3>3. ASSUME NEW name \in EventNames, NEW item \in Items \cup {None},
                 NEW told \in Status \cup {None}, NEW status, name # "item_progress",
                 Reports(j, i, status, Event(name, item, told), jobs[j].left \ {i})
          PROVE  (LogFits /\ BarsTold)'
      BY <2>0, <3>2, <3>3
    <3>4. /\ "item_upserted" \in EventNames /\ "item_skipped" \in EventNames
          /\ "item_deleted" \in EventNames
      BY DEF EventNames
    <3>. QED BY <2>1, <2>8, <3>3, <3>4 DEF CrawlsItem
  <2>. QED BY <1>2, <2>2, <2>4, <2>5, <2>6, <2>7, <2>8 DEF IndexesItem, Marked
<1>. QED BY <1>1, <1>2

(* The server answers a start with a job that has not begun, or refuses it.  *)
LEMMA ServeBars ==
  ASSUME BarInv, RuntimeTypeOK',
         \/ ServeStart \/ ServePause \/ ServeUpload \/ ServeRename \/ ServeDelete \/ ServeDrop
         \/ Refuse
  PROVE  (LogFits /\ BarsTold)'
<1>0. /\ jobs \in [Jobs -> JobRecs] /\ request \in RequestRecs /\ LogFits
      /\ request.items \subseteq Items
      /\ \A j \in Jobs : Len(log[j]) \in Nat
  BY BarTypes DEF BarInv
<1>1. /\ UNCHANGED <<bar, missed, stream, controllers, lastId, log>> /\ request.state = "sent"
      /\ ~ request.fresh
  <2>1. UNCHANGED <<bar, missed, stream, controllers, lastId, log>> /\ request.state = "sent"
    BY DEF ServeStart, ServePause, ServeUpload, ServeRename, ServeDelete, ServeDrop, Refuse, Serves,
           viewVars, mapVars, serverVars
  <2>. QED BY <1>0, <2>1 DEF LogFits
<1>2. ASSUME \A j \in Jobs : DueOn(j), \A j \in Jobs : jobs'[j].over => jobs'[j].left = {},
             \A j \in Jobs : Exists(j) => Exists(j)', \A j \in Jobs : Marked(j) => Marked(j)',
             request'.fresh => request'.state = "served", \A i \in Items : Asked(i) => BarTold(i)'
      PROVE  (LogFits /\ BarsTold)'
  <2>1. BarsTold'
    BY <1>0, <1>1, <1>2, ServerBars
  <2>2. ASSUME NEW j \in Jobs, NEW n \in 1..Len(log[j]), log[j][n].name = "item_progress"
        PROVE  Due(j, n, log[j][n].item)'
    <3>1. Due(j, n, log[j][n].item)
      BY <1>0, <2>2 DEF LogFits
    <3>2. CASE Ends(j, n, log[j][n].item)
      BY <1>1, <3>2 DEF Due, Ends
    <3>3. CASE log[j][n].item \in jobs[j].left
      <4>1. log[j][n].item \in Items
        BY <1>0, <3>3 DEF JobRecs
      <4>. QED BY <1>0, <1>1, <1>2, <3>1, <4>1 DEF DueOn
    <3>. QED BY <3>1, <3>2, <3>3 DEF Due
  <2>. QED BY <1>0, <1>1, <1>2, <2>1, <2>2 DEF LogFits
<1>3. CASE UNCHANGED jobs /\ ~ request'.fresh /\ \A i \in Items : Asked(i) => Asked(i)'
  <2>1. \A j \in Jobs : DueOn(j)
    BY <1>1, <1>3, DueKept
  <2>. QED BY <1>0, <1>2, <1>3, <2>1 DEF LogFits, Exists, Marked, BarTold
<1>4. CASE Refuse
  <2>1. UNCHANGED jobs /\ request'.state = "refused" /\ request'.kind = request.kind
        /\ request'.items = request.items /\ request'.fresh = request.fresh
    BY <1>0, <1>4 DEF Refuse, RequestRecs, serverVars
  <2>. QED BY <1>1, <1>3, <2>1 DEF Asked
<1>5. CASE ServePause \/ ServeUpload \/ ServeRename \/ ServeDelete \/ ServeDrop
  <2>1. UNCHANGED jobs /\ request'.fresh = request.fresh
    BY <1>0, <1>5 DEF ServePause, ServeUpload, ServeRename, ServeDelete, ServeDrop, serverVars,
                      RequestRecs, Answers
  <2>2. \A i \in Items : ~ Asked(i)
    BY <1>5 DEF ServePause, ServeUpload, ServeRename, ServeDelete, ServeDrop, Serves, Asked
  <2>. QED BY <1>1, <1>3, <2>1, <2>2
<1>6. CASE ServeStart /\ ActiveJob # {}
  <2>1. UNCHANGED jobs /\ request'.state = "served" /\ request'.kind = request.kind
        /\ request'.items = request.items /\ request'.fresh = request.fresh
    BY <1>0, <1>6 DEF ServeStart, RequestRecs
  <2>. QED BY <1>1, <1>3, <2>1 DEF Asked
<1>7. CASE ServeStart /\ ActiveJob = {}
  <2>1. PICK j \in Jobs :
          /\ jobs[j].kind = "none"
          /\ jobs' = [jobs EXCEPT ![j] = Started(request.kind, request.source, request.items)]
          /\ request' = [request EXCEPT !.state = "served", !.job = {j}, !.fresh = TRUE]
    BY <1>7 DEF ServeStart
  <2>2. /\ \A x \in Jobs : x # j => jobs'[x] = jobs[x]
        /\ jobs'[j] = Started(request.kind, request.source, request.items)
        /\ request'.state = "served" /\ request'.job = {j} /\ request'.fresh
    BY <1>0, <2>1 DEF RequestRecs
  <2>3. ~ Marked(j) /\ ~ Exists(j) /\ lastId[j] = 0 /\ Exists(j)'
    BY <1>0, <1>7, <2>1, <2>2 DEF Marked, Exists, LogFits, Started, ServeStart, Serves, Starts
  <2>4. ASSUME NEW x \in Jobs PROVE DueOn(x)
    <3>1. CASE x = j
      BY <1>1, <2>3, <3>1 DEF DueOn, Due, Ends
    <3>2. CASE x # j
      BY <1>1, <2>2, <3>2, DueKept
    <3>. QED BY <3>1, <3>2
  <2>5. Untouched(j)
    <3>1. \A k \in Copies : stream[j][k].phase = "idle"
      BY <2>3 DEF BarInv, Wired, StreamsFit
    <3>2. controllers[j] \in Copies \cup {None}
      BY BarTypes DEF BarInv, StreamTypes
    <3>3. controllers[j] = None
      BY <3>1, <3>2 DEF BarInv, Wired, MapsFit, Live
    <3>. QED BY <2>3, <3>1, <3>3, PhasesApart DEF Untouched, Reading
  <2>6. ASSUME NEW i \in Items, Asked(i) PROVE BarTold(i)'
    <3>1. Untouched(j)'
      BY <1>1, <2>5 DEF Untouched, Reading
    <3>2. Marked(j)' /\ i \in jobs'[j].left
      BY <2>2, <2>6 DEF Asked, Marked, Started
    <3>3. j \in request'.job /\ request'.state = "served" /\ request'.fresh
      BY <2>2
    <3>. QED BY <3>1, <3>2, <3>3 DEF BarTold, Starting, Due
  <2>7. \A x \in Jobs : jobs'[x].over => jobs'[x].left = {}
    BY <1>0, <2>2 DEF LogFits, Started
  <2>8. \A x \in Jobs : (Exists(x) => Exists(x)') /\ (Marked(x) => Marked(x)')
    BY <2>2, <2>3 DEF Exists, Marked
  <2>. QED BY <1>2, <2>2, <2>4, <2>6, <2>7, <2>8
<1>. QED BY <1>4, <1>5, <1>6, <1>7

(* Steps of the page, which leave the jobs and their logs alone. *)
LEMMA LogsKept ==
  ASSUME LogFits, UNCHANGED <<jobs, log>>,
         \A j \in Jobs : lastId'[j] = lastId[j] \/ (Exists(j) /\ lastId'[j] <= Len(log[j])),
         \A j \in Jobs, k \in Copies :
           stream'[j][k].at = stream[j][k].at \/ stream'[j][k].at <= Len(log[j]),
         request'.fresh => request'.state = "served"
  PROVE  LogFits'
<1>1. \A j \in Jobs : \A n, i : Due(j, n, i)' <=> Due(j, n, i)
  BY DEF Due, Ends, Marked
<1>. QED BY <1>1 DEF LogFits, Exists

(* A stream moves on in its phases, or ends and is forgotten.                *)
LEMMA StreamStepBars ==
  ASSUME BarInv, NEW j \in Jobs, NEW k \in Copies, NEW x \in StreamRecs, SetStream(j, k, x),
         x.phase \in Reads => Reading(j, k), x.at = stream[j][k].at \/ x.at = 0,
         \A j1 \in Jobs : controllers'[j1] = controllers[j1] \/ controllers'[j1] = None,
         UNCHANGED <<jobs, log, lastId, bar, request>>, missed \subseteq missed',
         \A i \in Items : Reading(j, k) /\ Due(j, stream[j][k].at, i) =>
           i \in missed' \/ (x.phase \in Reads /\ x.at = stream[j][k].at)
  PROVE  (LogFits /\ BarsTold)'
<1>0. /\ stream \in [Jobs -> [Copies -> StreamRecs]] /\ LogFits
      /\ \A j1 \in Jobs : Len(log[j1]) \in Nat /\ log[j1] \in Seq(Events)
  BY BarTypes DEF BarInv
<1>1. /\ stream'[j][k] = x
      /\ \A j1 \in Jobs, k1 \in Copies : j1 # j \/ k1 # k => stream'[j1][k1] = stream[j1][k1]
  BY <1>0 DEF SetStream
<1>2. LogFits'
  <2>1. \A j1 \in Jobs, k1 \in Copies :
          stream'[j1][k1].at = stream[j1][k1].at \/ stream'[j1][k1].at <= Len(log[j1])
    BY <1>0, <1>1
  <2>2. request'.fresh => request'.state = "served"
    BY <1>0 DEF LogFits
  <2>. QED BY <1>0, <2>1, <2>2, LogsKept
<1>3. ASSUME NEW i \in Items, bar[i] = "shown" PROVE BarTold(i)'
  <2>1. Asked(i) => Asked(i)'
    BY DEF Asked
  <2>2. ASSUME Starting(i) PROVE Starting(i)'
    <3>1. PICK y \in request.job : Untouched(y) /\ Due(y, 0, i)
      BY <2>2 DEF Starting
    <3>2. y \in Jobs
      BY <3>1, BarTypes DEF BarInv
    <3>3. Untouched(y)'
      BY <1>1, <3>1, <3>2 DEF Untouched, Reading
    <3>4. Due(y, 0, i)'
      BY <3>1 DEF Due, Ends, Marked
    <3>. QED BY <2>2, <3>1, <3>3, <3>4 DEF Starting
  <2>3. ASSUME Following(i) PROVE i \in missed' \/ Following(i)'
    <3>1. PICK y \in Jobs, z \in Copies : Reading(y, z) /\ Due(y, stream[y][z].at, i)
      BY <2>3 DEF Following
    <3>2. CASE stream'[y][z].at = stream[y][z].at /\ stream'[y][z].phase \in Reads
      <4>1. Reading(y, z)' /\ Due(y, stream[y][z].at, i)'
        BY <3>1, <3>2 DEF Reading, Due, Ends, Marked
      <4>. QED BY <4>1 DEF Following
    <3>3. CASE y = j /\ z = k
      BY <1>1, <3>1, <3>2, <3>3
    <3>4. CASE y # j \/ z # k
      BY <1>1, <3>1, <3>2, <3>4 DEF Reading
    <3>. QED BY <3>3, <3>4
  <2>. QED BY <1>3, <2>1, <2>2, <2>3 DEF BarInv, BarsTold, BarTold
<1>4. BarsTold'
  BY <1>3 DEF BarsTold
<1>. QED BY <1>2, <1>4

(* An event closes the bar of its item at its end, and opens it at its       *)
(* claim; the items of those before it are missed.                           *)
LEMMA StreamEventBars ==
  ASSUME BarInv, NEW j \in Jobs, NEW k \in Copies, StreamEvent(j, k)
  PROVE  (LogFits /\ BarsTold)'
<1>0. /\ stream \in [Jobs -> [Copies -> StreamRecs]] /\ LogFits /\ lastId \in [Jobs -> Nat]
      /\ \A j1 \in Jobs : Len(log[j1]) \in Nat /\ log[j1] \in Seq(Events)
      /\ stream[j][k].at \in Nat
  BY BarTypes DEF BarInv
<1>1. PICK n \in (stream[j][k].at + 1)..Len(log[j]) :
       /\ SetStream(j, k, [stream[j][k] EXCEPT !.at = n])
       /\ lastId' = [lastId EXCEPT ![j] = n]
       /\ Apply(j, log[j][n])
       /\ missed' = missed \cup ({log[j][m].item : m \in (stream[j][k].at + 1)..(n - 1)} \ {None})
  BY DEF StreamEvent
<1>2. UNCHANGED <<jobs, log, controllers, request>> /\ Reading(j, k)
  BY DEF StreamEvent, serverVars, mapVars, Reading, Reads
<1>3. n \in Nat /\ n \in 1..Len(log[j]) /\ n <= Len(log[j])
  BY <1>0, <1>1
<1>4. /\ stream'[j][k] = [stream[j][k] EXCEPT !.at = n]
      /\ \A j1 \in Jobs, k1 \in Copies : j1 # j \/ k1 # k => stream'[j1][k1] = stream[j1][k1]
  BY <1>0, <1>1 DEF SetStream
<1>5. stream'[j][k].at = n /\ stream'[j][k].phase = stream[j][k].phase /\ Reading(j, k)'
  BY <1>0, <1>2, <1>4 DEF StreamRecs, Reading
<1>6. Exists(j)
  BY <1>2, PhasesApart DEF BarInv, Wired, StreamsFit, Reading
<1>7. LogFits'
  <2>1. \A j1 \in Jobs, k1 \in Copies :
          stream'[j1][k1].at = stream[j1][k1].at \/ stream'[j1][k1].at <= Len(log[j1])
    BY <1>3, <1>4, <1>5
  <2>2. \A j1 \in Jobs : lastId'[j1] = lastId[j1] \/ (Exists(j1) /\ lastId'[j1] <= Len(log[j1]))
    BY <1>0, <1>1, <1>3, <1>6
  <2>3. request'.fresh => request'.state = "served"
    BY <1>0, <1>2 DEF LogFits
  <2>. QED BY <1>0, <1>2, <2>1, <2>2, <2>3, LogsKept
<1>8. ASSUME NEW i \in Items, Due(j, n, i) PROVE BarTold(i)'
  <2>1. Due(j, n, i)'
    BY <1>2, <1>8 DEF Due, Ends, Marked
  <2>. QED BY <1>5, <2>1 DEF BarTold, Following
<1>9. ASSUME NEW i \in Items, bar[i] = "shown",
             ~ (log[j][n].item = i /\ log[j][n].name \in Terminal)
      PROVE  BarTold(i)'
  <2>0. BarTold(i)
    BY <1>9 DEF BarInv, BarsTold
  <2>1. CASE i \in missed
    BY <1>1, <2>1 DEF BarTold
  <2>2. CASE Asked(i)
    BY <1>2, <2>2 DEF Asked, BarTold
  <2>3. CASE Starting(i)
    <3>1. PICK y \in request.job : Untouched(y) /\ Due(y, 0, i)
      BY <2>3 DEF Starting
    <3>2. y \in Jobs /\ y # j
      BY <1>2, <3>1, BarTypes DEF BarInv, Untouched
    <3>3. Untouched(y)'
      BY <1>0, <1>1, <1>2, <1>4, <3>1, <3>2 DEF Untouched, Reading
    <3>4. Due(y, 0, i)'
      BY <1>2, <3>1 DEF Due, Ends, Marked
    <3>. QED BY <1>2, <2>3, <3>1, <3>3, <3>4 DEF Starting, BarTold
  <2>4. CASE Following(i)
    <3>1. PICK y \in Jobs, z \in Copies : Reading(y, z) /\ Due(y, stream[y][z].at, i)
      BY <2>4 DEF Following
    <3>2. CASE y # j \/ z # k
      <4>1. Reading(y, z)' /\ stream'[y][z].at = stream[y][z].at /\ Due(y, stream[y][z].at, i)'
        BY <1>2, <1>4, <3>1, <3>2 DEF Reading, Due, Ends, Marked
      <4>. QED BY <4>1 DEF Following, BarTold
    <3>3. CASE y = j /\ z = k
      <4>1. CASE Marked(j) /\ i \in jobs[j].left
        BY <1>8, <4>1 DEF Due
      <4>2. CASE Ends(j, stream[j][k].at, i)
        <5>1. PICK m \in (stream[j][k].at + 1)..Len(log[j]) :
                log[j][m].item = i /\ log[j][m].name \in Terminal
          BY <4>2 DEF Ends
        <5>2. m # n
          BY <1>9, <5>1
        <5>3. CASE m < n
          <6>1. m \in (stream[j][k].at + 1)..(n - 1)
            BY <1>0, <1>3, <5>1, <5>3
          <6>2. i # None
            BY SourceRuntimeAssumption
          <6>. QED BY <1>1, <5>1, <6>1, <6>2 DEF BarTold
        <5>4. CASE m > n
          <6>1. m \in (n + 1)..Len(log[j])
            BY <1>0, <1>3, <5>1, <5>4
          <6>. QED BY <1>8, <5>1, <6>1 DEF Due, Ends
        <5>. QED BY <1>0, <1>3, <5>1, <5>2, <5>3, <5>4
      <4>. QED BY <3>1, <3>3, <4>1, <4>2 DEF Due
    <3>. QED BY <3>2, <3>3
  <2>. QED BY <2>0, <2>1, <2>2, <2>3, <2>4 DEF BarTold
<1>10. ASSUME NEW i \in Items, bar'[i] = "shown" PROVE BarTold(i)'
  <2>0. bar \in [Items -> {"none", "shown", "closing"}]
    BY BarTypes DEF BarInv
  <2>1. CASE log[j][n].item # i
    <3>1. bar'[i] = bar[i]
      BY <1>1, <2>0, <2>1 DEF Apply
    <3>. QED BY <1>9, <1>10, <2>1, <3>1
  <2>2. CASE log[j][n].item = i
    <3>1. log[j][n].item # None
      BY <2>2, SourceRuntimeAssumption
    <3>2. bar'[i] = BarAfter(log[j][n], bar[i])
      BY <1>1, <2>0, <2>2, <3>1 DEF Apply
    <3>3. CASE log[j][n].name = "item_progress"
      BY <1>0, <1>3, <1>8, <2>2, <3>3 DEF LogFits
    <3>4. CASE log[j][n].name # "item_progress"
      <4>1. log[j][n].name \notin Terminal /\ bar[i] = "shown"
        BY <1>10, <3>2, <3>4 DEF BarAfter, Terminal
      <4>. QED BY <1>9, <4>1
    <3>. QED BY <3>3, <3>4
  <2>. QED BY <2>1, <2>2
<1>11. BarsTold'
  BY <1>10 DEF BarsTold
<1>. QED BY <1>7, <1>11

LEMMA StreamBars ==
  ASSUME BarInv, NEW j \in Jobs, NEW k \in Copies, StreamNext(j, k)
  PROVE  (LogFits /\ BarsTold)'
<1>0. /\ stream \in [Jobs -> [Copies -> StreamRecs]] /\ LogFits /\ StreamTypes
      /\ stream[j][k] \in StreamRecs
      /\ \A j1 \in Jobs : Len(log[j1]) \in Nat
  BY BarTypes DEF BarInv
<1>. USE DEF serverVars, mapVars
<1>1. CASE StreamOpens(j, k)
  <2> DEFINE x == [stream[j][k] EXCEPT !.phase = "reading"]
  <2>1. x \in StreamRecs /\ x.at = stream[j][k].at /\ x.phase = "reading"
    BY <1>0 DEF StreamRecs, Reads
  <2>2. SetStream(j, k, x) /\ Reading(j, k) /\ x.phase \in Reads
    BY <1>1, <2>1 DEF StreamOpens, Reading, Reads
  <2>3. UNCHANGED <<jobs, log, lastId, bar, request, controllers, missed>>
    BY <1>1 DEF StreamOpens
  <2> HIDE DEF x
  <2>. QED BY <2>1, <2>2, <2>3, StreamStepBars
<1>2. CASE StreamEvent(j, k)
  BY <1>2, StreamEventBars
<1>3. CASE StreamEnds(j, k)
  <2> DEFINE x == [stream[j][k] EXCEPT !.phase = "asksItems"]
  <2>1. x \in StreamRecs /\ x.at = stream[j][k].at /\ x.phase \notin Reads
    BY <1>0 DEF StreamRecs, Reads, Reloads
  <2>2. SetStream(j, k, x) /\ UNCHANGED <<jobs, log, lastId, bar, request, controllers, missed>>
    BY <1>3 DEF StreamEnds
  <2>3. \A i \in Items : ~ Due(j, stream[j][k].at, i)
    <3>1. jobs[j].left = {} /\ stream[j][k].at = Len(log[j])
      BY <1>0, <1>3 DEF StreamEnds, LogFits
    <3>. QED BY <1>0, <3>1 DEF Due, Ends
  <2> HIDE DEF x
  <2>. QED BY <2>1, <2>2, <2>3, StreamStepBars
<1>4. ASSUME NEW x \in StreamRecs, SetStream(j, k, x), x.phase \notin Reads, ~ Reading(j, k),
             x.at = stream[j][k].at \/ x.at = 0,
             \A j1 \in Jobs : controllers'[j1] = controllers[j1] \/ controllers'[j1] = None,
             UNCHANGED <<jobs, log, lastId, bar, request, missed>>
      PROVE  (LogFits /\ BarsTold)'
  BY <1>4, StreamStepBars
<1>5. CASE StreamAsks(j, k)
  <2>1. ~ Reading(j, k) /\ UNCHANGED <<jobs, log, lastId, bar, request, missed, controllers>>
    BY <1>5 DEF StreamAsks, Reading, Reads
  <2>2. CASE stream[j][k].phase = "asksItems"
    <3> DEFINE x == [stream[j][k] EXCEPT !.phase = "hasItems",
                                         !.statuses = Snapshot(jobs[j].source)]
    <3>1. Snapshot(jobs[j].source) \in [Items -> Status]
      BY SnapshotTyped, TypesInGroups DEF BarInv
    <3>2. x \in StreamRecs /\ x.at = stream[j][k].at /\ x.phase \notin Reads
      BY <1>0, <3>1 DEF StreamRecs, Reads, Reloads
    <3>3. SetStream(j, k, x)
      BY <1>5, <2>2 DEF StreamAsks
    <3> HIDE DEF x
    <3>. QED BY <1>4, <2>1, <3>2, <3>3
  <2>3. CASE stream[j][k].phase = "asksJobs"
    <3> DEFINE x == [stream[j][k] EXCEPT !.phase = "hasJobs", !.listed = ActiveJobs]
    <3>1. ActiveJobs \in SUBSET Jobs
      BY DEF ActiveJobs
    <3>2. x \in StreamRecs /\ x.at = stream[j][k].at /\ x.phase \notin Reads
      BY <1>0, <3>1 DEF StreamRecs, Reads, Reloads
    <3>3. SetStream(j, k, x)
      BY <1>5, <2>3 DEF StreamAsks
    <3> HIDE DEF x
    <3>. QED BY <1>4, <2>1, <3>2, <3>3
  <2>. QED BY <1>5, <2>2, <2>3 DEF StreamAsks
<1>6. CASE StreamShowsItems(j, k)
  <2> DEFINE x == [NoStream EXCEPT !.phase = "asksJobs", !.aborted = stream[j][k].aborted]
  <2>1. x \in StreamRecs /\ x.at = 0 /\ x.phase \notin Reads
    BY <1>0, EmptyRecords DEF StreamRecs, Reads, Reloads, NoStream
  <2>2. /\ SetStream(j, k, x) /\ ~ Reading(j, k)
        /\ UNCHANGED <<jobs, log, lastId, bar, request, missed, controllers>>
    BY <1>6 DEF StreamShowsItems, Reading, Reads
  <2> HIDE DEF x
  <2>. QED BY <1>4, <2>1, <2>2
<1>7. /\ NoStream \in StreamRecs /\ NoStream.phase \notin Reads /\ NoStream.at = 0
  BY EmptyRecords DEF NoStream, Reads
<1>8. ASSUME Finally(j, k)
      PROVE  /\ SetStream(j, k, NoStream)
             /\ \A j1 \in Jobs : controllers'[j1] = controllers[j1] \/ controllers'[j1] = None
  BY <1>0, <1>8 DEF Finally, StreamTypes
<1>9. CASE StreamShowsJobs(j, k)
  <2>1. /\ Finally(j, k) /\ ~ Reading(j, k)
        /\ UNCHANGED <<jobs, log, lastId, bar, request, missed>>
    BY <1>9 DEF StreamShowsJobs, Reading, Reads
  <2>. QED BY <1>4, <1>7, <1>8, <2>1
<1>10. CASE StreamFails(j, k)
  <2>1. /\ Finally(j, k) /\ UNCHANGED <<jobs, log, lastId, bar, request>>
        /\ missed' = missed \cup IF Reading(j, k) THEN ItemsOf(jobs[j].source) ELSE {}
    BY <1>10 DEF StreamFails
  <2>2. ASSUME NEW i \in Items, Reading(j, k), Due(j, stream[j][k].at, i) PROVE i \in missed'
    <3>1. stream[j][k].at \in Nat
      BY <1>0 DEF StreamRecs
    <3>2. i \in ItemsOf(jobs[j].source)
      BY <2>2, <3>1, DueHere DEF BarInv, Wired
    <3>. QED BY <2>1, <2>2, <3>2
  <2>3. missed \subseteq missed'
    BY <2>1
  <2>. QED BY <1>7, <1>8, <2>1, <2>2, <2>3, StreamStepBars
<1>. QED BY <1>1, <1>2, <1>3, <1>5, <1>6, <1>9, <1>10 DEF StreamNext

(* Connecting: what a stream follows it goes on to follow, and a job that is *)
(* connected for the first time is read from its first event.                *)
LEMMA ConnectBars ==
  ASSUME BarInv, NEW S \in SUBSET Jobs, Connect(S), UNCHANGED <<jobs, log, lastId>>
  PROVE  /\ \A j \in Jobs, k \in Copies :
              stream'[j][k].at = stream[j][k].at \/ stream'[j][k].at <= Len(log[j])
         /\ \A i \in Items : Following(i) => Following(i)'
         /\ \A j \in Jobs : Untouched(j) =>
              \/ j \notin S /\ Untouched(j)'
              \/ \A i \in Items : Due(j, 0, i) => Following(i)'
<1> DEFINE new == {j \in S : controllers[j] = None}
<1>0. /\ stream \in [Jobs -> [Copies -> StreamRecs]] /\ LogFits /\ lastId \in [Jobs -> Nat]
  BY BarTypes DEF BarInv
<1>1. PICK copy \in [new -> Copies] :
         /\ \A j \in new : stream[j][copy[j]].phase = "idle"
         /\ controllers' = [j \in Jobs |-> IF j \in new THEN copy[j] ELSE controllers[j]]
         /\ stream' = [j \in Jobs |->
               IF j \in new
               THEN [stream[j] EXCEPT ![copy[j]] = [NoStream EXCEPT !.phase = "opening",
                                                                    !.at = lastId[j]]]
               ELSE stream[j]]
  BY DEF Connect
<1>2. ASSUME NEW j \in new
      PROVE  /\ j \in Jobs /\ copy[j] \in Copies /\ stream[j][copy[j]].phase = "idle"
             /\ stream'[j][copy[j]].phase = "opening" /\ stream'[j][copy[j]].at = lastId[j]
             /\ \A k \in Copies : k # copy[j] => stream'[j][k] = stream[j][k]
  <2>1. j \in Jobs /\ copy[j] \in Copies /\ stream[j] \in [Copies -> StreamRecs]
    BY <1>0, <1>1
  <2>2. stream'[j] = [stream[j] EXCEPT ![copy[j]] = [NoStream EXCEPT !.phase = "opening",
                                                                   !.at = lastId[j]]]
    BY <1>1, <2>1
  <2>3. stream'[j][copy[j]] = [NoStream EXCEPT !.phase = "opening", !.at = lastId[j]]
    BY <2>1, <2>2
  <2>. QED BY <1>1, <2>1, <2>2, <2>3 DEF NoStream
<1>3. ASSUME NEW j \in Jobs, j \notin new
      PROVE  controllers'[j] = controllers[j] /\ stream'[j] = stream[j]
  BY <1>1, <1>3
<1> HIDE DEF new
<1>4. \A j \in Jobs, k \in Copies :
        stream'[j][k].at = stream[j][k].at \/ stream'[j][k].at <= Len(log[j])
  <2> SUFFICES ASSUME NEW j \in Jobs, NEW k \in Copies
               PROVE  stream'[j][k].at = stream[j][k].at \/ stream'[j][k].at <= Len(log[j])
    OBVIOUS
  <2>1. lastId[j] <= Len(log[j])
    BY <1>0 DEF LogFits
  <2>2. CASE j \in new /\ k = copy[j]
    BY <1>2, <2>1, <2>2
  <2>3. CASE j \notin new \/ k # copy[j]
    BY <1>2, <1>3, <2>3
  <2>. QED BY <2>2, <2>3
<1>5. ASSUME NEW i \in Items, Following(i) PROVE Following(i)'
  <2>1. PICK j \in Jobs, k \in Copies : Reading(j, k) /\ Due(j, stream[j][k].at, i)
    BY <1>5 DEF Following
  <2>2. stream'[j][k] = stream[j][k]
    <3>1. stream[j][k].phase # "idle"
      BY <2>1, PhasesApart DEF Reading
    <3>. QED BY <1>2, <1>3, <3>1
  <2>3. Reading(j, k)' /\ Due(j, stream[j][k].at, i)'
    BY <2>1, <2>2 DEF Reading, Due, Ends, Marked
  <2>. QED BY <2>3 DEF Following
<1>6. ASSUME NEW j \in Jobs, Untouched(j)
      PROVE  \/ j \notin S /\ Untouched(j)'
             \/ \A i \in Items : Due(j, 0, i) => Following(i)'
  <2>1. CASE j \in new
    <3>1. Reading(j, copy[j])' /\ stream'[j][copy[j]].at = 0 /\ copy[j] \in Copies
      BY <1>2, <1>6, <2>1 DEF Untouched, Reading, Reads
    <3>2. \A i \in Items : Due(j, 0, i) => Due(j, 0, i)'
      BY DEF Due, Ends, Marked
    <3>. QED BY <3>1, <3>2 DEF Following
  <2>2. CASE j \notin new
    <3>1. j \notin S
      BY <1>6, <2>2 DEF new, Untouched
    <3>. QED BY <1>3, <1>6, <2>2, <3>1 DEF Untouched, Reading
  <2>. QED BY <2>1, <2>2
<1>. QED BY <1>4, <1>5, <1>6

(* A step that changes neither the streams nor the request. *)
LEMMA BarsKept ==
  ASSUME BarInv, UNCHANGED <<jobs, log, lastId, stream, controllers>>, missed \subseteq missed',
         UNCHANGED request \/ \A i \in Items : Asked(i) \/ Starting(i) => BarTold(i)',
         request'.fresh => request'.state = "served",
         \A i \in Items : bar'[i] = "shown" => bar[i] = "shown" \/ BarTold(i)'
  PROVE  (LogFits /\ BarsTold)'
<1>1. LogFits'
  BY LogsKept DEF BarInv
<1>2. ASSUME NEW i \in Items, bar[i] = "shown" PROVE BarTold(i)'
  <2>1. Following(i) => Following(i)'
    BY DEF Following, Reading, Due, Ends, Marked
  <2>2. ASSUME UNCHANGED request PROVE (Asked(i) => Asked(i)') /\ (Starting(i) => Starting(i)')
    BY <2>2 DEF Asked, Starting, Untouched, Reading, Due, Ends, Marked
  <2>. QED BY <1>2, <2>1, <2>2 DEF BarInv, BarsTold, BarTold
<1>3. BarsTold'
  BY <1>2 DEF BarsTold
<1>. QED BY <1>1, <1>3

LEMMA LoadBars ==
  ASSUME BarInv, RuntimeTypeOK', NEW l \in Loads, LoadNext(l) PROVE (LogFits /\ BarsTold)'
<1>. USE DEF serverVars, mapVars
<1>0. LogFits
  BY DEF BarInv
<1>1. CASE LoadAsks(l) \/ LoadShowsItems(l) \/ LoadFails(l)
  <2>1. UNCHANGED <<jobs, log, lastId, stream, controllers, missed, request, bar>>
    BY <1>1 DEF LoadAsks, LoadShowsItems, LoadFails
  <2>. QED BY <1>0, <2>1, BarsKept DEF LogFits
<1>2. CASE LoadShowsJobs(l)
  <2>1. PICK S : S = IF page = None THEN {} ELSE active'[page]
    OBVIOUS
  <2>2. Connect(S) /\ UNCHANGED <<jobs, log, lastId, request, bar, missed>>
    BY <1>2, <2>1 DEF LoadShowsJobs
  <2>3. S \in SUBSET Jobs
    <3>1. active' \in [Sources -> SUBSET Jobs] /\ page \in Sources \cup {None}
      BY TypesInGroups, TypesInGroupsPrime DEF BarInv, PageTypes
    <3>. QED BY <2>1, <3>1
  <2>4. /\ \A j \in Jobs, k \in Copies :
             stream'[j][k].at = stream[j][k].at \/ stream'[j][k].at <= Len(log[j])
        /\ \A i \in Items : Following(i) => Following(i)'
        /\ \A j \in Jobs : Untouched(j) =>
             Untouched(j)' \/ \A i \in Items : Due(j, 0, i) => Following(i)'
    BY <2>2, <2>3, ConnectBars
  <2>5. LogFits'
    BY <1>0, <2>2, <2>4, LogsKept DEF LogFits
  <2>6. ASSUME NEW i \in Items, bar[i] = "shown" PROVE BarTold(i)'
    <3>1. Asked(i) => Asked(i)'
      BY <2>2 DEF Asked
    <3>2. ASSUME Starting(i) PROVE Starting(i)' \/ Following(i)'
      <4>1. PICK j \in request.job : Untouched(j) /\ Due(j, 0, i)
        BY <3>2 DEF Starting
      <4>2. j \in Jobs
        BY <4>1, BarTypes DEF BarInv
      <4>3. Due(j, 0, i)'
        BY <2>2, <4>1 DEF Due, Ends, Marked
      <4>. QED BY <2>2, <2>4, <3>2, <4>1, <4>2, <4>3 DEF Starting
    <3>. QED BY <2>2, <2>4, <2>6, <3>1, <3>2 DEF BarInv, BarsTold, BarTold
  <2>7. BarsTold'
    BY <2>2, <2>6 DEF BarsTold
  <2>. QED BY <2>5, <2>7
<1>. QED BY <1>1, <1>2 DEF LoadNext

(* Leaving a source: the bars of its rows go, and those that stay are missed. *)
LEMMA ClearBars ==
  ASSUME BarInv, NEW s, Clear(s), UNCHANGED <<jobs, log, lastId, shown>>,
         request'.fresh => request'.state = "served",
         UNCHANGED request \/ request.state = "free"
  PROVE  (LogFits /\ BarsTold)'
<1> DEFINE cut == {j \in Jobs : jobSource[j] = s}
           after(x) == IF x.phase \in Reads THEN NoStream ELSE [x EXCEPT !.aborted = TRUE]
<1>0. /\ stream \in [Jobs -> [Copies -> StreamRecs]] /\ LogFits /\ StreamTypes
      /\ \A j \in Jobs : Len(log[j]) \in Nat
      /\ bar \in [Items -> {"none", "shown", "closing"}]
  BY BarTypes DEF BarInv
<1>1. /\ stream' = [j \in Jobs |->
           IF j \in cut /\ controllers[j] # None
           THEN [stream[j] EXCEPT ![controllers[j]] = after(@)] ELSE stream[j]]
      /\ controllers' = [j \in Jobs |-> IF j \in cut THEN None ELSE controllers[j]]
      /\ missed' = missed \cup {i \in ItemsOf(s) : bar'[i] = "shown"}
      /\ bar' = [i \in Items |->
           IF SourceOf[i] = s /\ shown[i] # "absent" THEN "none" ELSE bar[i]]
  BY DEF Clear, Disconnect
<1>2. ASSUME NEW j \in Jobs, NEW k \in Copies, stream'[j][k] # stream[j][k]
      PROVE  jobSource[j] = s /\ controllers[j] = k /\ stream'[j][k] = after(stream[j][k])
  <2> HIDE DEF after, cut
  <2>1. stream[j] \in [Copies -> StreamRecs]
    BY <1>0
  <2>2. j \in cut /\ controllers[j] # None
    BY <1>1, <1>2
  <2>3. stream'[j] = [stream[j] EXCEPT ![controllers[j]] = after(@)]
    BY <1>1, <2>2
  <2>. QED BY <1>2, <2>1, <2>2, <2>3 DEF cut
<1>3. ASSUME NEW x \in StreamRecs
      PROVE  (after(x).at = x.at \/ after(x).at = 0) /\ after(x).phase \notin Reads
  BY <1>3 DEF StreamRecs, NoStream, Reads
<1> HIDE DEF after, cut
<1>4. LogFits'
  <2>1. ASSUME NEW j \in Jobs, NEW k \in Copies
        PROVE  stream'[j][k].at = stream[j][k].at \/ stream'[j][k].at <= Len(log[j])
    BY <1>0, <1>2, <1>3
  <2>. QED BY <1>0, <2>1, LogsKept
<1>5. ASSUME NEW i \in Items, bar'[i] = "shown" PROVE BarTold(i)'
  <2>0. BarTold(i)
    BY <1>0, <1>1, <1>5 DEF BarInv, BarsTold
  <2>1. CASE SourceOf[i] = s \/ i \in missed
    BY <1>1, <1>5, <2>1 DEF BarTold, ItemsOf
  <2>2. CASE Asked(i)
    <3>1. UNCHANGED request
      BY <2>2 DEF Asked
    <3>. QED BY <2>2, <3>1 DEF Asked, BarTold
  <2>3. CASE Starting(i)
    <3>1. PICK j \in request.job : Untouched(j) /\ Due(j, 0, i)
      BY <2>3 DEF Starting
    <3>2. j \in Jobs
      BY <3>1, BarTypes DEF BarInv
    <3>3. Untouched(j)'
      <4>1. \A k \in Copies : ~ Reading(j, k)'
        BY <1>0, <1>2, <1>3, <3>1, <3>2 DEF Untouched, Reading
      <4>. QED BY <1>1, <3>1, <3>2, <4>1 DEF Untouched
    <3>4. Due(j, 0, i)'
      BY <3>1 DEF Due, Ends, Marked
    <3>5. UNCHANGED request
      BY <2>3 DEF Starting
    <3>. QED BY <2>3, <3>1, <3>3, <3>4, <3>5 DEF Starting, BarTold
  <2>4. CASE Following(i) /\ SourceOf[i] # s
    <3>1. PICK j \in Jobs, k \in Copies : Reading(j, k) /\ Due(j, stream[j][k].at, i)
      BY <2>4 DEF Following
    <3>2. jobs[j].source # s
      <4>1. stream[j][k].at \in Nat
        BY <1>0 DEF StreamRecs
      <4>. QED BY <2>4, <3>1, <4>1, DueHere DEF BarInv, Wired, ItemsOf
    <3>3. stream'[j][k] = stream[j][k]
      <4>1. controllers[j] = k => jobSource[j] = jobs[j].source
        BY SourceRuntimeAssumption DEF BarInv, Wired, MapsFit
      <4>. QED BY <1>2, <3>2, <4>1
    <3>4. Reading(j, k)' /\ Due(j, stream[j][k].at, i)'
      BY <3>1, <3>3 DEF Reading, Due, Ends, Marked
    <3>. QED BY <3>4 DEF Following, BarTold
  <2>. QED BY <2>0, <2>1, <2>2, <2>3, <2>4 DEF BarTold
<1>6. BarsTold'
  BY <1>5 DEF BarsTold
<1>. QED BY <1>4, <1>6

LEMMA AskBars ==
  ASSUME BarInv, RuntimeTypeOK', AskStart \/ AskPause \/ AskDrop \/ AskOther
  PROVE  (LogFits /\ BarsTold)'
<1>. USE DEF serverVars, mapVars
<1>0. ASSUME NEW kind, NEW items, Asks(kind, items)
      PROVE  /\ request.state = "free" /\ request'.state = "sent" /\ ~ request'.fresh
             /\ request'.kind = kind /\ request'.items = items
  BY <1>0 DEF Asks, NoRequest
<1>1. CASE AskStart
  <2>1. /\ request.state = "free" /\ request'.state = "sent" /\ ~ request'.fresh
        /\ request'.kind \in {"index", "resume"}
    BY <1>0, <1>1 DEF AskStart
  <2>2. /\ bar' = [i \in Items |-> IF i \in request'.items THEN "shown" ELSE bar[i]]
        /\ missed' = missed \ request'.items
        /\ UNCHANGED <<jobs, log, lastId, stream, controllers>>
    BY <1>1 DEF AskStart
  <2>3. LogFits'
    BY <2>1, <2>2, LogsKept DEF BarInv
  <2>4. ASSUME NEW i \in Items, bar'[i] = "shown" PROVE BarTold(i)'
    <3>1. CASE i \in request'.items
      BY <2>1, <3>1 DEF BarTold, Asked
    <3>2. CASE i \notin request'.items
      <4>1. BarTold(i)
        BY <2>2, <2>4, <3>2 DEF BarInv, BarsTold
      <4>2. i \in missed \/ Following(i)
        BY <2>1, <4>1 DEF BarTold, Asked, Starting
      <4>3. Following(i) => Following(i)'
        BY <2>2 DEF Following, Reading, Due, Ends, Marked
      <4>. QED BY <2>2, <3>2, <4>2, <4>3 DEF BarTold
    <3>. QED BY <3>1, <3>2
  <2>5. BarsTold'
    BY <2>4 DEF BarsTold
  <2>. QED BY <2>3, <2>5
<1>2. CASE AskPause \/ AskOther
  <2>1. /\ request.state = "free" /\ ~ request'.fresh
        /\ UNCHANGED <<jobs, log, lastId, stream, controllers, missed, bar>>
    BY <1>0, <1>2 DEF AskPause, AskOther
  <2>2. \A i \in Items : ~ Asked(i) /\ ~ Starting(i)
    BY <2>1 DEF Asked, Starting
  <2>. QED BY <2>1, <2>2, BarsKept
<1>3. CASE AskDrop
  <2>1. /\ request.state = "free" /\ ~ request'.fresh /\ Clear(page)
        /\ UNCHANGED <<jobs, log, lastId, shown>>
    BY <1>0, <1>3 DEF AskDrop
  <2>. QED BY <2>1, ClearBars
<1>. QED BY <1>1, <1>2, <1>3

(* The answer to a start: a job that was there before does not close the     *)
(* bars, a new one has a stream then that will.                              *)
LEMMA AnswerStartBars ==
  ASSUME BarInv, AnswerStart PROVE (LogFits /\ BarsTold)'
<1>. USE DEF serverVars
<1>0. /\ LogFits /\ request.job \in SUBSET Jobs
  BY BarTypes DEF BarInv
<1>1. /\ request' = NoRequest /\ Connect(request.job) /\ UNCHANGED <<jobs, log, lastId, bar>>
      /\ missed' = missed \cup IF request.fresh THEN {} ELSE request.items
  BY DEF AnswerStart, Answered
<1>2. /\ \A j \in Jobs, k \in Copies :
           stream'[j][k].at = stream[j][k].at \/ stream'[j][k].at <= Len(log[j])
      /\ \A i \in Items : Following(i) => Following(i)'
      /\ \A j \in request.job : Untouched(j) => \A i \in Items : Due(j, 0, i) => Following(i)'
  BY <1>0, <1>1, ConnectBars
<1>3. LogFits'
  BY <1>0, <1>1, <1>2, LogsKept DEF NoRequest
<1>4. ASSUME NEW i \in Items, bar[i] = "shown" PROVE BarTold(i)'
  <2>1. Asked(i) => i \in missed'
    BY <1>1 DEF AnswerStart, Answered, Asked
  <2>2. Starting(i) => Following(i)'
    BY <1>2 DEF Starting
  <2>. QED BY <1>1, <1>2, <1>4, <2>1, <2>2 DEF BarInv, BarsTold, BarTold
<1>5. BarsTold'
  BY <1>1, <1>4 DEF BarsTold
<1>. QED BY <1>3, <1>5

LEMMA AnswerBars ==
  ASSUME BarInv,
         AnswerStart \/ AnswerPause \/ AnswerRows \/ AnswerDelete \/ AnswerDrop \/ RequestFails
  PROVE  (LogFits /\ BarsTold)'
<1>. USE DEF serverVars, mapVars
<1>1. CASE AnswerStart
  BY <1>1, AnswerStartBars
<1>2. CASE AnswerPause \/ AnswerRows \/ AnswerDelete \/ AnswerDrop
  <2>1. /\ request.state = "served" /\ request.kind \notin Starts /\ request' = NoRequest
        /\ UNCHANGED <<jobs, log, lastId, stream, controllers, missed>>
    BY <1>2 DEF AnswerPause, AnswerRows, AnswerDelete, AnswerDrop, Answered, Starts
  <2>2. \A i \in Items : ~ Asked(i) /\ ~ Starting(i)
    BY <2>1 DEF Asked, Starting, Starts, BarInv, Wired, RequestFits
  <2>3. \A i \in Items : bar'[i] = "shown" => bar[i] = "shown"
    BY <1>2, BarTypes DEF AnswerPause, AnswerRows, AnswerDelete, AnswerDrop, BarInv
  <2>. QED BY <2>1, <2>2, <2>3, BarsKept DEF NoRequest
<1>3. CASE RequestFails
  <2>1. /\ request.state \in {"refused", "sent", "served"} /\ request' = NoRequest
        /\ missed' = missed \cup ItemsOf(request.source)
        /\ UNCHANGED <<jobs, log, lastId, stream, controllers, bar>>
    BY <1>3 DEF RequestFails
  <2>2. ASSUME NEW i \in Items, Asked(i) \/ Starting(i) PROVE i \in missed'
    <3>1. CASE Asked(i)
      BY <2>1, <3>1 DEF Asked, BarInv, Wired, RequestFits
    <3>2. CASE Starting(i)
      <4>1. PICK j \in request.job : Due(j, 0, i)
        BY <3>2 DEF Starting
      <4>2. j \in Jobs /\ jobs[j].source = request.source
        BY <4>1, BarTypes DEF BarInv, Wired, RequestFits
      <4>. QED BY <2>1, <4>1, <4>2, DueHere DEF BarInv, Wired
    <3>. QED BY <2>2, <3>1, <3>2
  <2>. QED BY <2>1, <2>2, BarsKept DEF NoRequest, BarTold
<1>. QED BY <1>1, <1>2, <1>3

LEMMA ViewBars ==
  ASSUME BarInv,
         \/ \E s \in Sources : Visit(s) \/ PanelCloses(s)
         \/ Unmount
         \/ \E i \in Items : BarCloses(i)
  PROVE  (LogFits /\ BarsTold)'
<1>. USE DEF serverVars, mapVars
<1>0. request.fresh => request.state = "served"
  BY DEF BarInv, LogFits
<1>1. UNCHANGED <<jobs, log, lastId, request, shown>>
  BY DEF Visit, PanelCloses, Unmount, BarCloses
<1>2. CASE (\E s \in Sources : Visit(s)) \/ (Unmount /\ Clear(page))
  <2>1. Clear(page)
    BY <1>2 DEF Visit
  <2>. QED BY <1>0, <1>1, <2>1, ClearBars
<1>3. ASSUME UNCHANGED <<stream, controllers, missed>>,
             \A i \in Items : bar'[i] = "shown" => bar[i] = "shown"
      PROVE  (LogFits /\ BarsTold)'
  BY <1>0, <1>1, <1>3, BarsKept
<1>4. CASE (\E s \in Sources : PanelCloses(s)) \/ (Unmount /\ ~ Clear(page))
  BY <1>3, <1>4 DEF PanelCloses, Unmount
<1>5. CASE \E i \in Items : BarCloses(i)
  BY <1>3, <1>5, BarTypes DEF BarCloses, BarInv
<1>. QED BY <1>2, <1>4, <1>5

LEMMA StepBars ==
  ASSUME BarInv, RuntimeTypeOK', [Next]_vars PROVE (LogFits /\ BarsTold)'
<1>1. CASE ServerNext
  BY <1>1, JobStepBars, ServeBars DEF ServerNext
<1>2. CASE PageNext
  BY <1>2, AskBars, AnswerBars, ViewBars DEF PageNext
<1>3. CASE \E j \in Jobs, k \in Copies : StreamNext(j, k)
  BY <1>3, StreamBars
<1>4. CASE \E l \in Loads : LoadNext(l)
  BY <1>4, LoadBars
<1>5. CASE UNCHANGED vars
  <2>1. UNCHANGED <<jobs, log, lastId, stream, controllers, missed, request, bar>>
    BY <1>5 DEF vars, mapVars
  <2>2. request.fresh => request.state = "served"
    BY DEF BarInv, LogFits
  <2>. QED BY <2>1, <2>2, BarsKept
<1>. QED BY <1>1, <1>2, <1>3, <1>4, <1>5 DEF Next

LEMMA InitBars == Init => LogFits /\ BarsTold
<1> SUFFICES ASSUME Init PROVE LogFits /\ BarsTold
  OBVIOUS
<1>1. BarsTold
  BY DEF Init, BarsTold
<1>2. \A j \in Jobs : Len(log[j]) = 0 /\ lastId[j] = 0
  BY DEF Init
<1>3. \A j \in Jobs, k \in Copies : stream[j][k].at = 0
  BY DEF Init, NoStream
<1>4. \A j \in Jobs : ~ jobs[j].over
  <2>1. CASE jobs = [j \in Jobs |-> NoJob]
    BY <2>1 DEF NoJob
  <2>2. ASSUME NEW j \in Jobs, NEW s, NEW items,
               jobs = [[x \in Jobs |-> NoJob] EXCEPT ![j] = Started("index", s, items)]
        PROVE  \A x \in Jobs : ~ jobs[x].over
    BY <2>2 DEF NoJob, Started
  <2>. QED BY <2>1, <2>2 DEF Init
<1>5. ~ request.fresh
  BY DEF Init, NoRequest
<1>. QED BY <1>1, <1>2, <1>3, <1>4, <1>5 DEF LogFits

(* Once no call, no stream and no job is under way no row has a progress bar *)
(* left, but for the items whose job never told of them, whose events were   *)
(* lost, or that had no row when the page was left: the bars of              *)
(* useSourceItemsRuntime.ts:181-200, :245-251, :391-424, :470-500.           *)
THEOREM BarsSettleInTheEnd == Spec => []BarsSettle
<1>1. Init => BarInv
  BY InitTyped, InitWired, InitBars DEF BarInv
<1>2. BarInv /\ [Next]_vars => BarInv'
  BY StepTyped, StepWired, StepBars DEF BarInv, Wired, RequestFits
<1>3. BarInv => BarsSettle
  <2> SUFFICES ASSUME BarInv, Quiet, NEW i \in Items, bar[i] = "shown" PROVE i \in missed
    BY DEF BarsSettle
  <2>1. ~ Asked(i) /\ ~ Starting(i)
    BY DEF Asked, Starting, Quiet, NoRequest
  <2>2. ~ Following(i)
    BY PhasesApart DEF Following, Reading, Quiet
  <2>. QED BY <2>1, <2>2 DEF BarInv, BarsTold, BarTold
<1>. QED BY <1>1, <1>2, <1>3, PTL DEF Spec
=============================================================================
