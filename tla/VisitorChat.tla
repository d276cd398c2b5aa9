------------------------------ MODULE VisitorChat ------------------------------
(***************************************************************************)
(* The visitors' chat endpoint (api/visitor/endpoints/chat.py): the chain  *)
(* of dependencies FastAPI resolves in order before the stream starts, the *)
(* stream's lease, and the retrieval of a project that has RAG.  Requests  *)
(* of several visitors run between each other's steps and between those of *)
(* indexing, of the administrator and of the clock.                        *)
(***************************************************************************)
EXTENDS RateLimit, HybridSearch

CONSTANTS
  Requests, IpOf, ProjectOf,
  RagRequest,        \* the request whose project has visitor_rag_enabled
  Settings,          \* HybridSearchOptions its project's settings may give
  Structured,        \* may its model support structured output
  Table,             \* document_chunks at the start
  MaxTime, MaxOthers,   \* bounds: the clock; cancel requests and administrator's switches
  Starts             \* where behaviours begin: the clock and the counters (a counter at
                     \* its bound keeps what it counts still), requests over already,
                     \* sources to be seen, stages of the items

ASSUME VisitorAssumption ==
  /\ IsFiniteSet(Requests)
  /\ IpOf \in [Requests -> Ips] /\ ProjectOf \in [Requests -> Projects]
  /\ \A start \in Starts : start.now \in Nat
  /\ IsTable(Table)

VARIABLES
  pc,          \* of each request: the dependency that is resolved next
  usable,      \* projects whose settings, provider and model are enabled
  widgets,     \* projects whose widget is enabled
  others       \* counted against MaxOthers

chatVars == <<pc, usable, widgets, others>>

Holds(r) == pc[r] \in {"project", "widget", "plugin", "turn", "search", "answer"}

Init ==
  /\ \E start \in Starts :
       /\ LimiterInit(start.now) /\ IndexInit(Table, start.stages, start.changes)
       /\ pc = [r \in Requests |-> IF r \in start.ended THEN "ended" ELSE "idle"]
       /\ others = start.others /\ visible = start.visible
  /\ SearchInit
  /\ usable = Projects /\ widgets = Projects

Goto(r, step) == pc' = [pc EXCEPT ![r] = step]
Keep == UNCHANGED <<usable, widgets, others>>

------------------------------------------------------------------------------
(* enforce_visitor_chat_rate_limit: a message that is too large is refused   *)
(* after the request was charged.                                            *)
Arrive(r) ==
  /\ pc[r] = "idle"
  /\ \E passes, fits \in BOOLEAN :
       /\ CheckRequest(IpOf[r], ProjectOf[r], passes)
       /\ Goto(r, IF passes /\ fits THEN "lease" ELSE "ended")
  /\ Keep /\ UNCHANGED <<indexVars, searchVars>>

(* visitor_stream_lease, up to its yield.                                    *)
TakeLease(r) ==
  /\ pc[r] = "lease"
  /\ \/ AcquireStream(IpOf[r], ProjectOf[r]) /\ Goto(r, "project")
     \/ ~Room(IpOf[r], ProjectOf[r]) /\ Goto(r, "ended") /\ UNCHANGED limiterVars
  /\ Keep /\ UNCHANGED <<indexVars, searchVars>>

(* The finally clause of visitor_stream_lease, however the request ends.     *)
Release(r) ==
  /\ ReleaseStream(IpOf[r], ProjectOf[r])
  /\ Goto(r, "ended")
  /\ IF r = RagRequest THEN SearchForgotten ELSE UNCHANGED searchVars
  /\ Keep /\ UNCHANGED indexVars

(* Mutant: a request that is refused before the stream starts keeps its lease. *)
RejectKeepsLease(r) ==
  /\ Goto(r, "ended")
  /\ Keep /\ UNCHANGED <<indexVars, searchVars, limiterVars>>

(* A later dependency raises an HTTPException.                               *)
Reject(r) == Release(r)

Passed(r, step) == Goto(r, step) /\ Keep /\ UNCHANGED <<limiterVars, indexVars>>

(* valid_visitor_stream_project.                                             *)
LoadProject(r) ==
  /\ pc[r] = "project"
  /\ \/ ProjectOf[r] \in usable /\ Passed(r, "widget") /\ UNCHANGED searchVars
     \/ ProjectOf[r] \notin usable /\ Reject(r)

(* valid_visitor_widget: enabled, and of the request's origin.               *)
CheckWidget(r) ==
  /\ pc[r] = "widget"
  /\ \/ ProjectOf[r] \in widgets /\ Passed(r, "plugin") /\ UNCHANGED searchVars
     \/ Reject(r)

(* get_rag_plugin.                                                           *)
PreparePlugin(r) ==
  /\ pc[r] = "plugin"
  /\ \/ r # RagRequest /\ Passed(r, "turn") /\ UNCHANGED searchVars
     \/ /\ r = RagRequest
        /\ \E set \in Settings, structured \in Structured :
             IF VisitorScope = {} \/ (set.mode = "full" /\ ~structured) THEN Reject(r)
             ELSE /\ ScopeResolved(IF structured THEN set
                                   ELSE [set EXCEPT !.mode = "fast", !.standalone = FALSE])
                  /\ Passed(r, "turn")

(* The stream starts; the turn itself is ChatSession's.                      *)
TurnStarts(r) ==
  /\ pc[r] = "turn"
  /\ \/ r = RagRequest /\ RetrievalStarts /\ Passed(r, "search")
     \/ r # RagRequest /\ Passed(r, "answer") /\ UNCHANGED searchVars

SearchEnds(r) ==
  /\ pc[r] = "search" /\ r = RagRequest
  /\ \/ phase = "found" /\ Passed(r, "answer") /\ UNCHANGED searchVars
     \/ phase = "failed" /\ Release(r)

AnswerEnds(r) == pc[r] = "answer" /\ Release(r)

(* The client disconnects, at any step.                                      *)
Leave(r) == Holds(r) /\ Release(r)

(* cancel_visitor_generation charges the limiter and looks at no lease.      *)
CancelRequest(r) ==
  /\ pc[r] # "idle" /\ others < MaxOthers
  /\ \E passes \in BOOLEAN : CheckRequest(IpOf[r], ProjectOf[r], passes)
  /\ others' = others + 1
  /\ UNCHANGED <<pc, usable, widgets, indexVars, searchVars>>

RequestStep(r) ==
  \/ Arrive(r) \/ TakeLease(r) \/ LoadProject(r) \/ CheckWidget(r) \/ PreparePlugin(r)
  \/ TurnStarts(r) \/ SearchEnds(r) \/ AnswerEnds(r) \/ Leave(r) \/ CancelRequest(r)

Disable(p) ==
  /\ others < MaxOthers
  /\ \/ usable' = usable \ {p} /\ p \in usable /\ UNCHANGED widgets
     \/ widgets' = widgets \ {p} /\ p \in widgets /\ UNCHANGED usable
  /\ others' = others + 1
  /\ UNCHANGED <<pc, limiterVars, indexVars, searchVars>>

TimePasses == now < MaxTime /\ Tick /\ UNCHANGED <<chatVars, indexVars, searchVars>>

Surroundings ==
  \/ TimePasses
  \/ \E p \in Projects : Disable(p)
  \/ IndexStep /\ UNCHANGED <<chatVars, limiterVars>>
  \/ SearchStep /\ UNCHANGED <<chatVars, limiterVars>>

Next == Surroundings \/ \E r \in Requests : RequestStep(r)

visitorVars == <<chatVars, limiterVars, indexVars, searchVars>>
Spec == Init /\ [][Next]_visitorVars

------------------------------------------------------------------------------
(* Whatever way each request ended, by refusal, failure, its last event or   *)
(* its client going away, the counters equal the streams that are open.      *)
Open(requests) == Cardinality({r \in requests : Holds(r)})
LeasesExact ==
  /\ \A ip \in Ips : /\ activeIp[ip] = Open({r \in Requests : IpOf[r] = ip})
                     /\ activeIp[ip] <= StreamPerIp
  /\ \A p \in Projects : /\ activeProject[p] = Open({r \in Requests : ProjectOf[r] = p})
                         /\ activeProject[p] <= StreamPerProject
=============================================================================
