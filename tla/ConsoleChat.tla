----------------------------- MODULE ConsoleChat -----------------------------
(***************************************************************************)
(* The console's chat store (stores/global-chat.ts) on top of ChatSession: *)
(* what one tab shows of the session while it sends, streams, cancels,     *)
(* loads and restarts.  JavaScript runs one step at a time between awaits. *)
(*                                                                         *)
(* A shown message is named by its turn and role; `temp` marks the         *)
(* optimistic copy under a temporary uid.  Pages hold the whole session    *)
(* (fewer messages than MESSAGE_PAGE_LIMIT).                               *)
(***************************************************************************)
EXTENDS ChatSession

CONSTANT
  MaxLag      \* bound: events on their way to a tab

(* A ChatStreamState, and a restart or delete on its way.                    *)
StreamState  == [turn : Turns, status : {"connecting", "streaming", "cancelling"},
                 generation : BOOLEAN]
RestartState == [phase : {"revert", "delete"}, empties : BOOLEAN, turn : Turns \cup {None}]

(* A turn of the past was answered once.                                     *)
ASSUME ConsoleAssumption ==
  /\ MaxLag \in Nat \ {0}
  /\ None \notin StreamState /\ None \notin RestartState
  /\ \A i, j \in DOMAIN Past : Past[i] = Past[j] => i = j

VARIABLES
  key,        \* activeSessionUid: "draft" (null), "temp" or "real"
  view,       \* timeline.messages
  stream,     \* the session's ChatStreamState, None without one
  consumer,   \* consumeChatStream of each turn: "none", "reading", "refreshing", "closed"
  read,       \* events each consumer has taken
  aborted,    \* turns whose AbortController was aborted
  page,       \* answer a turn's refresh awaits or holds
  load,       \* loadInitialMessages: [phase, page]
  restart,    \* restartFromMessage or deleteSession: None, or [phase, empties, turn]
  cancelling, \* turns whose cancel request is in flight
  unsure      \* ghost: turns whose messages a late page or a failed one left wrong

consoleVars == <<key, view, stream, consumer, read, aborted, page, load, restart,
                 cancelling, unsure>>
allVars == <<vars, consoleVars>>

Message(t, kind, temp, seq, size) ==
  [turn |-> t, kind |-> kind, temp |-> temp, seq |-> seq, size |-> size]
Uid(m)  == <<m.turn, m.kind, m.temp>>
Uids(S) == {Uid(m) : m \in S}

(* Mutant: messages are compared as a whole, not by uid. *)
MergeAll(incoming, current) == incoming \cup current

(* mergeMessageViewModels: by uid, the first set wins.                       *)
Merge(incoming, current) == incoming \cup {m \in current : Uid(m) \notin Uids(incoming)}

(* A page of GET .../messages, internal messages left out.                   *)
StoredPage == {Message(r.turn, r.kind, FALSE, r.seq, r.size) : r \in rows \ Summaries}

NoLoad == [phase |-> "none", page |-> {}]
Streaming == stream # None
StreamsTurn(t) == Streaming /\ stream.turn = t

(* Mutant: the finally clause forgets the stream state. *)
ClearNothing(t) == UNCHANGED stream

(* clearStreamState with the consumer's own controller.                      *)
ClearOwn(t) == stream' = IF StreamsTurn(t) THEN None ELSE stream

(* The tab has selected the session and loaded it, or starts a new one.      *)
ConsoleInit ==
  /\ key = IF session = "present" THEN "real" ELSE "draft"
  /\ view = StoredPage /\ load = NoLoad /\ stream = None /\ restart = None /\ cancelling = {} /\ unsure = {}
  /\ aborted = {}
  /\ consumer = [t \in Turns |-> "none"] /\ read = [t \in Turns |-> 0]
  /\ page = [t \in Turns |-> None]

ConsoleIdle(t) == consumer[t] \in {"none", "closed"}

------------------------------------------------------------------------------
(* Sending and stopping.                                                     *)

(* sendMessage: optimistic messages, a stream state, then the request.  Left *)
(* out: sending while a restart's own requests are in flight, and sending    *)
(* again from a temporary session (it would open a second session).          *)
Send(t) ==
  /\ ~Streaming /\ restart = None /\ key # "temp"
  /\ Request(t, key = "draft")
  /\ key' = IF key = "draft" THEN "temp" ELSE key
  /\ LET last == Max({0} \cup {m.seq : m \in view})
     IN  view' = view \cup {Message(t, "user", TRUE, last + 1, UserSize[t]),
                            Message(t, "assistant", TRUE, last + 2, 0)}
  /\ stream' = [turn |-> t, status |-> "connecting", generation |-> FALSE]
  /\ consumer' = [consumer EXCEPT ![t] = "reading"]
  /\ unsure' = IF load.phase = "none" THEN unsure ELSE Turns
  /\ UNCHANGED <<read, aborted, page, load, restart, cancelling>>

(* cancelGeneration before the generation is known: the request is aborted.  *)
Abort(t) ==
  /\ StreamsTurn(t) /\ ~stream.generation
  /\ ClientLeaves(t) \/ (pc[t] \notin Running /\ UNCHANGED vars)
  /\ aborted' = aborted \cup {t} /\ unsure' = unsure \cup {t}
  /\ stream' = None
  /\ UNCHANGED <<key, view, consumer, read, page, load, restart, cancelling>>

AskCancel(t) ==
  /\ StreamsTurn(t) /\ stream.generation /\ stream.status = "streaming"
  /\ stream' = [stream EXCEPT !.status = "cancelling"]
  /\ cancelling' = cancelling \cup {t}
  /\ UNCHANGED <<vars, key, view, consumer, read, aborted, page, load, restart, unsure>>

(* The answer: refused, it puts back the status of whatever streams now.     *)
CancelAnswered(t) ==
  /\ t \in cancelling
  /\ \/ Cancel(t) /\ UNCHANGED stream
     \/ /\ ~(session = "present" /\ t \in registered)
        /\ stream' = IF Streaming THEN [stream EXCEPT !.status = "streaming"] ELSE stream
        /\ UNCHANGED vars
  /\ cancelling' = cancelling \ {t}
  /\ UNCHANGED <<key, view, consumer, read, aborted, page, load, restart, unsure>>

------------------------------------------------------------------------------
(* consumeChatStream.                                                        *)

Takes(t, name) ==
  /\ consumer[t] = "reading" /\ t \notin aborted
  /\ read[t] < Len(sent[t]) /\ sent[t][read[t] + 1].event = name
  /\ read' = [read EXCEPT ![t] = @ + 1]
  /\ UNCHANGED <<vars, aborted, page, load, restart, cancelling, unsure>>

Value(t) == sent[t][read[t] + 1].value

(* applySessionReady: the temporary key becomes the session's uid.           *)
TakeReady(t) ==
  /\ Takes(t, "session_ready")
  /\ key' = IF key = "temp" THEN "real" ELSE key
  /\ UNCHANGED <<view, stream, consumer>>

(* Titles and citations do not touch the messages' text.                     *)
TakeAside(t) ==
  /\ Takes(t, "session_title_updated") \/ Takes(t, "rag_ready")
  /\ UNCHANGED <<key, view, stream, consumer>>

(* applyGenerationStart: the stored messages replace the optimistic ones if  *)
(* the stream still names them, and are added otherwise.                     *)
TakeStart(t) ==
  /\ Takes(t, "generation_start")
  /\ LET pending == IF StreamsTurn(t) THEN {m \in view : m.turn = t /\ m.temp} ELSE {}
         stored  == {Message(t, "user", FALSE, Value(t), UserSize[t]),
                     Message(t, "assistant", FALSE, Value(t) + 1, 0)}
     IN  view' = IF pending = {} THEN Merge(view, stored) ELSE Merge(stored, view \ pending)
  /\ stream' = IF Streaming
                 THEN [turn |-> stream.turn, status |-> "streaming", generation |-> TRUE]
                 ELSE stream
  /\ UNCHANGED <<key, consumer>>

(* appendMessageDelta: a chunk for a message not shown is dropped.           *)
WithChunk(t) ==
  {IF m.turn = t /\ m.kind = "assistant" /\ ~m.temp THEN [m EXCEPT !.size = @ + Value(t)] ELSE m :
     m \in view}

TakeDelta(t) ==
  /\ Takes(t, "delta")
  /\ view' = WithChunk(t)
  /\ UNCHANGED <<key, stream, consumer>>

(* The closing events clear the session's stream state, whoever owns it.     *)
TakeCancelled(t) ==
  /\ Takes(t, "cancelled")
  /\ view' = WithChunk(t) /\ stream' = None
  /\ UNCHANGED <<key, consumer>>

TakeDone(t) ==
  /\ Takes(t, "message_done")
  /\ \E i \in DOMAIN sent[t] :
       /\ sent[t][i].event = "generation_start"
       /\ view' = Merge({Message(t, "assistant", FALSE, sent[t][i].value + 1, Value(t))}, view)
  /\ stream' = None
  /\ UNCHANGED <<key, consumer>>

(* handleStreamError: before generation_start the optimistic messages are    *)
(* taken back, afterwards the page is loaded again.                          *)
Started(t) == \E i \in 1..read[t] : sent[t][i].event = "generation_start"
HandleError(t) ==
  IF Started(t)
  THEN /\ consumer' = [consumer EXCEPT ![t] = "refreshing"]
       /\ UNCHANGED <<key, view, stream>>
  ELSE /\ consumer' = [consumer EXCEPT ![t] = "closed"]
       /\ view' = IF StreamsTurn(t) THEN {m \in view : ~(m.turn = t /\ m.temp)} ELSE view
       /\ key' = IF StreamsTurn(t) /\ key = "temp" THEN "draft" ELSE key
       /\ ClearOwn(t)

TakeError(t) == Takes(t, "error") /\ HandleError(t)

(* The connection breaks: a restart, an exception before the try block, or   *)
(* the network.  Events on their way may be lost.                            *)
ConnectionLost(t) ==
  /\ consumer[t] = "reading" /\ t \notin aborted
  /\ ~connected[t] \/ (pc[t] = "broken" /\ read[t] = Len(sent[t]))
  /\ HandleError(t)
  /\ unsure' = IF connected[t] \/ Started(t) THEN unsure ELSE unsure \cup {t}
  /\ UNCHANGED <<vars, read, aborted, page, load, restart, cancelling>>

NetworkDrops(t) ==
  /\ consumer[t] = "reading" /\ t \notin aborted
  /\ ClientLeaves(t)
  /\ UNCHANGED consoleVars

(* The body ends, or the abort is noticed: only the consumer's own stream    *)
(* state is cleared.                                                         *)
Closes(t) ==
  /\ consumer[t] = "reading"
  /\ \/ t \in aborted
     \/ connected[t] /\ pc[t] \in {"done", "cancelled", "error"} /\ read[t] = Len(sent[t])
  /\ consumer' = [consumer EXCEPT ![t] = "closed"]
  /\ ClearOwn(t)
  /\ UNCHANGED <<vars, key, view, read, aborted, page, load, restart, cancelling, unsure>>

(* Mutant: what is shown wins over the page. *)
RefreshEndsLocal(t) ==
  /\ consumer[t] = "refreshing"
  /\ \/ page[t] # None /\ view' = Merge(view, page[t]) /\ UNCHANGED unsure
     \/ page[t] = None /\ unsure' = unsure \cup {t} /\ UNCHANGED view
  /\ page' = [page EXCEPT ![t] = None]
  /\ consumer' = [consumer EXCEPT ![t] = "closed"]
  /\ ClearOwn(t)
  /\ UNCHANGED <<vars, key, read, aborted, load, restart, cancelling>>

(* refreshSessionMessagesAfterStreamError: the page wins over what is shown. *)
RefreshReads(t) ==
  /\ consumer[t] = "refreshing" /\ page[t] = None /\ session = "present"
  /\ page' = [page EXCEPT ![t] = StoredPage]
  /\ unsure' = IF pc[t] \in Running THEN unsure \cup {t} ELSE unsure
  /\ UNCHANGED <<vars, key, view, stream, consumer, read, aborted, load, restart, cancelling>>

RefreshEnds(t) ==
  /\ consumer[t] = "refreshing"
  /\ \/ page[t] # None /\ view' = Merge(page[t], view) /\ UNCHANGED unsure
     \/ page[t] = None /\ unsure' = unsure \cup {t} /\ UNCHANGED view
  /\ page' = [page EXCEPT ![t] = None]
  /\ consumer' = [consumer EXCEPT ![t] = "closed"]
  /\ ClearOwn(t)
  /\ UNCHANGED <<vars, key, read, aborted, load, restart, cancelling>>

------------------------------------------------------------------------------
(* Loading, restarting and deleting.                                         *)

(* loadInitialMessages: the page is read at the server...                    *)
LoadReads ==
  /\ load.phase = "asked"
  /\ load' = IF session = "present" THEN [phase |-> "read", page |-> StoredPage]
             ELSE [NoLoad EXCEPT !.phase = "failed"]
  /\ UNCHANGED <<vars, key, view, stream, consumer, read, aborted, page, restart, cancelling,
                 unsure>>

(* Mutant: the page replaces what a stream shows. *)
LoadShowsPage ==
  /\ load.phase = "read"
  /\ view' = load.page
  /\ load' = NoLoad
  /\ UNCHANGED <<vars, key, stream, consumer, read, aborted, page, restart, cancelling, unsure>>

(* ...and shown later: merged under a stream, in place of all else without.  *)
LoadShows ==
  /\ load.phase = "read"
  /\ view' = IF Streaming THEN Merge(view, load.page) ELSE load.page
  /\ load' = NoLoad
  /\ UNCHANGED <<vars, key, stream, consumer, read, aborted, page, restart, cancelling, unsure>>

(* restartFromMessage and deleteSession: refused while the session streams.  *)
MayChange == key = "real" /\ ~Streaming /\ restart = None /\ requests < MaxRequests

AskRestart(m) ==
  /\ MayChange /\ m \in view /\ m.kind = "user" /\ ~m.temp
  /\ restart' = [phase |-> "revert", empties |-> \A n \in view : m.seq <= n.seq, turn |-> m.turn]
  /\ UNCHANGED <<vars, key, view, stream, consumer, read, aborted, page, load, cancelling, unsure>>

(* The revert is answered: the timeline is loaded again, unless a load is    *)
(* already on its way.                                                       *)
RestartReverts ==
  /\ restart # None /\ restart.phase = "revert"
  /\ \/ /\ \E r \in rows : r.turn = restart.turn /\ Revert(r)
        /\ IF restart.empties
             THEN restart' = [restart EXCEPT !.phase = "delete"] /\ UNCHANGED <<load, unsure>>
             ELSE /\ restart' = None
                  /\ load' = IF load.phase \in {"none", "failed"} THEN [NoLoad EXCEPT !.phase = "asked"]
                             ELSE load
                  /\ unsure' = IF load.phase \in {"none", "failed"} THEN unsure ELSE Turns
     \/ /\ ~\E r \in rows : r.turn = restart.turn /\ r.kind = "user"
        /\ restart' = None
        /\ UNCHANGED <<vars, load, unsure>>
  /\ UNCHANGED <<key, view, stream, consumer, read, aborted, page, cancelling>>

AskDelete ==
  /\ MayChange
  /\ restart' = [phase |-> "delete", empties |-> TRUE, turn |-> None]
  /\ UNCHANGED <<vars, key, view, stream, consumer, read, aborted, page, load, cancelling, unsure>>

(* The session is deleted, here too (removeSessionLocally).                  *)
SessionDeleted ==
  /\ restart # None /\ restart.phase = "delete"
  /\ DeleteSession
  /\ key' = "draft" /\ view' = {} /\ stream' = None /\ restart' = None
  /\ UNCHANGED <<consumer, read, aborted, page, load, cancelling, unsure>>

------------------------------------------------------------------------------
ConsumerStep(t) ==
  \/ TakeReady(t) \/ TakeAside(t) \/ TakeStart(t) \/ TakeDelta(t) \/ TakeCancelled(t)
  \/ TakeDone(t) \/ TakeError(t) \/ ConnectionLost(t) \/ Closes(t)
  \/ RefreshReads(t) \/ RefreshEnds(t)

UserStep ==
  \/ \E t \in Turns : Send(t) \/ Abort(t) \/ AskCancel(t)
  \/ \E m \in view : AskRestart(m)
  \/ AskDelete

ServerTurn(t) ==
  /\ connected[t] => Len(sent[t]) < read[t] + MaxLag
  /\ TurnStep(t)
  /\ UNCHANGED consoleVars

ConsoleNext ==
  \/ UserStep
  \/ \E t \in Turns : ServerTurn(t) \/ ConsumerStep(t) \/ CancelAnswered(t) \/ NetworkDrops(t)
  \/ LoadReads \/ LoadShows \/ RestartReverts \/ SessionDeleted
  \/ Restart /\ UNCHANGED consoleVars

(* The server goes on with its turns and the browser with what has arrived;  *)
(* nothing is assumed of the user, of cancel requests and of the network.    *)
ConsoleSpec ==
  /\ Init /\ ConsoleInit /\ [][ConsoleNext]_allVars
  /\ \A t \in Turns : WF_allVars(ServerTurn(t)) /\ WF_allVars(ConsumerStep(t))
  /\ WF_allVars(LoadReads) /\ WF_allVars(LoadShows)

------------------------------------------------------------------------------
(* Properties.                                                               *)

(* Keys, stream states and messages hold what their types allow, and no uid  *)
(* is on screen twice.                                                       *)
ConsoleTypeOK ==
  /\ key \in {"draft", "temp", "real"}
  /\ stream \in StreamState \cup {None}
  /\ view \subseteq [turn : Turns, kind : {"user", "assistant"}, temp : BOOLEAN, seq : Nat, size : Nat]
  /\ Cardinality(view) = Cardinality(Uids(view))
  /\ consumer \in [Turns -> {"none", "reading", "refreshing", "closed"}]

(* When nothing is in flight, what the tab shows of a turn that ended is     *)
(* what is stored of it: no message lost, doubled, left optimistic or kept   *)
(* after a revert.  Turns the user aborted or the network cut off before     *)
(* they started are the exception, and a page that overlaps a new message.   *)
Quiet == ~Streaming /\ load.phase = "none" /\ restart = None /\ \A t \in Turns : ConsoleIdle(t)
Shown(t)  == {<<m.kind, m.temp, m.size>> : m \in {n \in view : n.turn = t}}
Stored(t) == {<<m.kind, m.temp, m.size>> : m \in {n \in StoredPage : n.turn = t}}
ViewMatchesStored ==
  Quiet /\ key = "real" =>
    \A t \in Turns \ unsure : pc[t] \in {"done", "cancelled", "error", "broken"} =>
      Shown(t) = Stored(t)

(* The text that streams is on screen in full, once: no page that arrives    *)
(* meanwhile sets it back, no chunk is added to another message or twice.    *)
StreamedTextShown ==
  \A t \in Turns : StreamsTurn(t) /\ stream.generation =>
    \E m \in view : /\ m.turn = t /\ m.kind = "assistant" /\ ~m.temp
                    /\ m.size = Cardinality({i \in 1..read[t] : sent[t][i].event = "delta"})

(* A session that streams, and so refuses to send, restart or delete, always *)
(* comes free again.                                                         *)
ComposerFreed == Streaming ~> ~Streaming
=============================================================================
