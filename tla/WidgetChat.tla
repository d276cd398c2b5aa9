------------------------------ MODULE WidgetChat ------------------------------
(***************************************************************************)
(* The chat widget on a visitor's page (widget/composables/                *)
(* use-widget-chat.ts) as a client of VisitorChat: it shows optimistic     *)
(* messages, reads the events of a stream, cancels, and starts new chats,  *)
(* which leave the streams of the old one behind.  JavaScript runs one     *)
(* step at a time between awaits.                                          *)
(*                                                                         *)
(* An epoch is named by the request sent in it: `current` is the request   *)
(* of the present requestEpoch, NoRequest when startNewChat made it.       *)
(***************************************************************************)
EXTENDS VisitorChat

CONSTANTS
  WidgetRequests,     \* the requests the widget sends
  NoRequest,
  MaxChats, MaxDeltas \* bounds: chats started; deltas of an answer

ASSUME WidgetAssumption ==
  /\ WidgetRequests \subseteq Requests /\ RagRequest \notin WidgetRequests
  /\ NoRequest \notin Requests /\ {MaxChats, MaxDeltas} \subseteq Nat

VARIABLES
  chat,        \* how often startNewChat was called
  shown,       \* messages
  composer,    \* phase: "idle", "connecting", "thinking", "streaming", "cancelling", "error"
  current,     \* requestEpoch
  generation,  \* generationUid, named by its request
  active,      \* activeAssistantUid: [turn, temp], NoActive for null
  session,     \* sessionUid: the chat that opened it, or -1 for null
  reader,      \* sendMessage of each request: "none", "sending", "reading", "closed"
  opened,      \* requests whose response has begun
  wire,        \* events of each stream that were not read yet
  deltas,      \* counted against MaxDeltas
  stopped,     \* requests whose cancel_event is set
  aborted,     \* requests whose AbortController was aborted
  calls,       \* cancel calls in flight: [of, asked], asked by the visitor or best effort
  callFailed   \* ghost: a cancel call of the visitor has failed

widgetVars == <<chat, shown, composer, current, generation, active, session, reader,
                opened, wire, deltas, stopped, aborted, calls, callFailed>>
screen  == <<chat, shown, composer, current, generation, active, session, callFailed>>
streams == <<reader, opened, wire, deltas, stopped, aborted, calls>>

Busy == {"connecting", "thinking", "streaming", "cancelling"}
Settled == {"completed", "cancelled", "error"}
NoSession == 0 - 1
NoActive == [turn |-> NoRequest, temp |-> FALSE]

Shown(r, role, temp, status) ==
  [chat |-> chat, turn |-> r, role |-> role, temp |-> temp, status |-> status]

(* patchMessage, of the assistant's message of a turn.                       *)
Patched(turn, temp, status) ==
  {IF m.role = "assistant" /\ m.turn = turn /\ m.temp = temp THEN [m EXCEPT !.status = status]
   ELSE m : m \in shown}
PatchedActive(status) ==
  IF active = NoActive THEN shown ELSE Patched(active.turn, active.temp, status)

WidgetInit ==
  /\ Init
  /\ chat = 0 /\ shown = {} /\ composer = "idle" /\ current = NoRequest
  /\ generation = NoRequest /\ active = NoActive /\ session = NoSession
  /\ reader = [r \in WidgetRequests |-> "none"] /\ wire = [r \in WidgetRequests |-> <<>>]
  /\ deltas = [r \in WidgetRequests |-> 0]
  /\ opened = {} /\ stopped = {} /\ aborted = {} /\ calls = {} /\ callFailed = FALSE

------------------------------------------------------------------------------
(* What the visitor does.                                                    *)

(* sendMessage, up to its request.                                           *)
Send(r) ==
  /\ composer \notin Busy /\ reader[r] = "none" /\ pc[r] = "idle"
  /\ current' = r /\ composer' = "connecting"
  /\ shown' = shown \cup {Shown(r, "user", TRUE, "completed"), Shown(r, "assistant", TRUE, "pending")}
  /\ active' = [turn |-> r, temp |-> TRUE]
  /\ reader' = [reader EXCEPT ![r] = "sending"]
  /\ UNCHANGED <<visitorVars, chat, generation, session, opened, wire, deltas, stopped, aborted,
                 calls, callFailed>>

(* cancelGeneration.                                                         *)
AskCancel ==
  /\ generation # NoRequest /\ composer \in Busy \ {"cancelling"}
  /\ composer' = "cancelling"
  /\ calls' = calls \cup {[of |-> generation, asked |-> TRUE]}
  /\ UNCHANGED <<visitorVars, chat, shown, current, generation, active, session, reader, opened,
                 wire, deltas, stopped, aborted, callFailed>>

(* startNewChat, which does nothing to an empty chat: the controller is that  *)
(* of the request being read.                                                *)
StartNewChat ==
  /\ chat < MaxChats /\ (shown # {} \/ composer # "idle")
  /\ chat' = chat + 1
  /\ aborted' = IF current # NoRequest /\ reader[current] # "closed" THEN aborted \cup {current}
                ELSE aborted
  /\ calls' = IF generation = NoRequest THEN calls
              ELSE calls \cup {[of |-> generation, asked |-> FALSE]}
  /\ shown' = {} /\ composer' = "idle" /\ session' = NoSession
  /\ current' = NoRequest /\ generation' = NoRequest /\ active' = NoActive
  /\ UNCHANGED <<visitorVars, reader, opened, wire, deltas, stopped, callFailed>>

DismissError ==
  /\ composer = "error" /\ composer' = "idle"
  /\ UNCHANGED <<visitorVars, chat, shown, current, generation, active, session, callFailed, streams>>

------------------------------------------------------------------------------
(* The server's side of the widget's requests.                               *)

Connected(r) == reader[r] \in {"sending", "reading"} /\ r \notin aborted

(* The browser's preflight (widget_cors.py) looks at the widget before the   *)
(* endpoint does, unless an earlier answer is cached; a refused one is a     *)
(* failed fetch.                                                             *)
Preflight(r) ==
  /\ reader[r] = "sending"
  /\ ProjectOf[r] \in widgets \/ \E q \in WidgetRequests : pc[q] # "idle"
  /\ reader' = [reader EXCEPT ![r] = "reading"]
  /\ UNCHANGED <<visitorVars, screen, opened, wire, deltas, stopped, aborted, calls>>

Tells(r, events) ==
  /\ wire' = [wire EXCEPT ![r] = @ \o events]
  /\ UNCHANGED <<screen, reader, aborted, calls>>

Serve(r) ==
  \/ /\ reader[r] = "reading"
     /\ Arrive(r) \/ TakeLease(r) \/ LoadProject(r) \/ CheckWidget(r) \/ PreparePlugin(r)
     /\ UNCHANGED widgetVars
  \/ /\ TurnStarts(r) /\ Tells(r, <<"session_ready", "generation_start">>)
     /\ opened' = opened \cup {r} /\ UNCHANGED <<deltas, stopped>>
  \/ /\ pc[r] = "answer" /\ r \notin stopped /\ deltas[r] < MaxDeltas
     /\ Tells(r, <<"delta">>) /\ deltas' = [deltas EXCEPT ![r] = @ + 1]
     /\ UNCHANGED <<visitorVars, opened, stopped>>
  \/ /\ AnswerEnds(r)
     /\ \E last \in {"message_done", "error", "cancelled"} :
          (last = "cancelled" => r \in stopped) /\ Tells(r, <<last>>)
     /\ UNCHANGED <<opened, deltas, stopped>>
  \/ ~Connected(r) /\ Leave(r) /\ UNCHANGED widgetVars

(* A cancel call is served, refused by the limiter, or lost; cancelGeneration *)
(* does nothing about an answer and puts the phase back after a failure.      *)
CallEnds(call) ==
  /\ \E served \in BOOLEAN :
       /\ \/ CheckRequest(IpOf[call.of], ProjectOf[call.of], served)
             /\ UNCHANGED <<chatVars, indexVars, searchVars>>
          \/ ~served /\ UNCHANGED visitorVars
       /\ stopped' = IF served /\ pc[call.of] = "answer" THEN stopped \cup {call.of} ELSE stopped
       /\ composer' = IF call.asked /\ ~served THEN "streaming" ELSE composer
       /\ callFailed' = (callFailed \/ (call.asked /\ ~served))
  /\ calls' = calls \ {call}
  /\ UNCHANGED <<chat, shown, current, generation, active, session, reader, opened, wire, deltas,
                 aborted>>

------------------------------------------------------------------------------
(* The loop of sendMessage.                                                  *)

Closed(r) ==
  /\ reader' = [reader EXCEPT ![r] = "closed"]
  /\ UNCHANGED <<visitorVars, chat, current, session, opened, deltas, stopped, aborted, calls,
                 callFailed>>

(* Mutant: the finally clause does not look at the epoch. *)
FinallyAlways(r) ==
  /\ generation' = NoRequest /\ active' = NoActive
  /\ composer' = IF composer = "error" THEN "error" ELSE "idle"

(* The finally clause.                                                       *)
Finally(r) ==
  IF current # r THEN UNCHANGED <<generation, active, composer>>
  ELSE /\ generation' = NoRequest /\ active' = NoActive
       /\ composer' = IF composer = "error" THEN "error" ELSE "idle"

StreamEnds(r) ==
  /\ reader[r] = "reading" /\ r \in opened \ aborted /\ pc[r] = "ended" /\ wire[r] = <<>>
  /\ Closed(r) /\ Finally(r) /\ UNCHANGED <<shown, wire>>

(* The loop of an epoch that is over: AbortError, or a break at an event.    *)
LeavesLoop == aborted \cup {r \in WidgetRequests : current # r /\ wire[r] # <<>>}

LoopLeft(r) ==
  /\ reader[r] \in {"sending", "reading"} /\ r \in LeavesLoop
  /\ Closed(r) /\ Finally(r) /\ UNCHANGED shown
  /\ wire' = [wire EXCEPT ![r] = <<>>]

(* The request is refused or the connection breaks: catch, then finally.     *)
StreamFails(r) ==
  /\ Connected(r)
  /\ Closed(r)
  /\ IF current # r THEN UNCHANGED <<shown, generation, active, composer>>
     ELSE /\ shown' = PatchedActive("error") /\ composer' = "error"
          /\ generation' = NoRequest /\ active' = NoActive
  /\ wire' = [wire EXCEPT ![r] = <<>>]

Applies(r, event) ==
  /\ reader[r] = "reading" /\ r \notin aborted /\ current = r
  /\ wire[r] # <<>> /\ wire[r][1] = event
  /\ wire' = [wire EXCEPT ![r] = Tail(@)]
  /\ UNCHANGED <<visitorVars, chat, current, reader, opened, deltas, stopped, aborted, calls,
                 callFailed>>

SessionReady(r) ==
  /\ Applies(r, "session_ready")
  /\ session' = (IF session = NoSession THEN chat ELSE session) /\ composer' = "thinking"
  /\ UNCHANGED <<shown, generation, active>>

(* replaceOptimisticMessage: stored messages replace the temporary ones.     *)
GenerationStart(r) ==
  /\ Applies(r, "generation_start")
  /\ shown' = {m \in shown : ~(m.turn = r /\ m.temp)}
                \cup {Shown(r, "user", FALSE, "completed"), Shown(r, "assistant", FALSE, "pending")}
  /\ generation' = r /\ active' = [turn |-> r, temp |-> FALSE] /\ composer' = "thinking"
  /\ UNCHANGED session

Delta(r) ==
  /\ Applies(r, "delta")
  /\ shown' = Patched(r, FALSE, "streaming") /\ composer' = "streaming"
  /\ UNCHANGED <<generation, active, session>>

Finished(r, event, status) ==
  /\ Applies(r, event)
  /\ shown' = Patched(r, FALSE, status) /\ composer' = IF status = "error" THEN "error" ELSE "idle"
  /\ UNCHANGED <<generation, active, session>>

ReadStep(r) ==
  \/ StreamEnds(r) \/ LoopLeft(r) \/ StreamFails(r)
  \/ SessionReady(r) \/ GenerationStart(r) \/ Delta(r)
  \/ Finished(r, "message_done", "completed") \/ Finished(r, "cancelled", "cancelled")
  \/ Finished(r, "error", "error")

WidgetStep ==
  \/ AskCancel \/ StartNewChat \/ DismissError
  \/ \E call \in calls : CallEnds(call)
  \/ \E r \in WidgetRequests : Send(r) \/ Preflight(r) \/ Serve(r) \/ ReadStep(r)

WidgetNext ==
  \/ WidgetStep
  \/ Surroundings /\ UNCHANGED widgetVars
  \/ \E r \in Requests \ WidgetRequests : RequestStep(r) /\ UNCHANGED widgetVars

WidgetSpec == WidgetInit /\ [][WidgetNext]_<<visitorVars, widgetVars>>

------------------------------------------------------------------------------
(* Nothing of an earlier chat is ever shown or continued.  Once no stream is *)
(* read any more, the composer is free and every answer has come to its end: *)
(* whatever was cancelled, refused, broken off or left behind by a new chat. *)
(* (A cancel call that fails after its stream has ended makes the composer   *)
(* busy for ever: left out by callFailed.)                                   *)
WidgetSettles ==
  /\ \A m \in shown : m.chat = chat
  /\ session \in {NoSession, chat}
  /\ (\A r \in WidgetRequests : reader[r] \in {"none", "closed"}) =>
       /\ composer \in Busy => callFailed
       /\ \A m \in shown : m.status \in Settled
=============================================================================
