--------------------------- MODULE WidgetChatProofs ---------------------------
(***************************************************************************)
(* The widget of WidgetChat, proved for any number of requests, chats and  *)
(* events: when nothing is read any more, the composer is free and every   *)
(* answer has come to its end.  And the leases stay exact under it.        *)
(***************************************************************************)
EXTENDS WidgetChat, VisitorChatProofs, SequenceTheorems

-----------------------------------------------------------------------------
(* The invariant. *)

Finals   == {"message_done", "error", "cancelled"}
Events   == {"session_ready", "generation_start", "delta"} \cup Finals
Statuses == Settled \cup {"pending", "streaming"}
Messages == [chat : Nat, turn : WidgetRequests, role : {"user", "assistant"}, temp : BOOLEAN,
             status : Statuses]

WidgetTypes ==
  /\ pc \in [Requests -> Steps]
  /\ chat \in Nat /\ shown \subseteq Messages
  /\ composer \in Busy \cup {"idle", "error"}
  /\ current \in WidgetRequests \cup {NoRequest}
  /\ active \in [turn : WidgetRequests \cup {NoRequest}, temp : BOOLEAN]
  /\ reader \in [WidgetRequests -> {"none", "sending", "reading", "closed"}]
  /\ wire \in [WidgetRequests -> Seq(Events)]
  /\ callFailed \in BOOLEAN

Reading(r) == reader[r] \in {"sending", "reading"}
Unsettled(m) == m.status \notin Settled

(* A response begins with the turn and is open or over from then on.         *)
ResponsesFit ==
  /\ \A r \in WidgetRequests :
       /\ r \in opened => pc[r] \in {"answer", "ended"}
       /\ pc[r] = "answer" => r \in opened
       /\ r \notin opened => wire[r] = <<>>
       /\ r \in aborted => reader[r] # "none"
  /\ current \in WidgetRequests => reader[current] # "none" /\ current \notin aborted

(* Only the present chat is shown.                                           *)
OfThisChat == (\A m \in shown : m.chat = chat) /\ session \in {NoSession, chat}

(* The composer is busy with a request that is read, or by a failed cancel.  *)
BusyReads ==
  composer \in Busy => callFailed \/ (current \in WidgetRequests /\ Reading(current))

(* A message that is not settled is the active one of the present request.   *)
UnsettledIsActive ==
  \A m \in shown : Unsettled(m) =>
    /\ m.role = "assistant" /\ m.turn = current /\ Reading(current)
    /\ composer \in Busy
    /\ active = [turn |-> current, temp |-> m.temp]

(* The events of a stream that are still to be read, of a message that is    *)
(* temporary or not, while the answer goes on or after it: they lead from    *)
(* the temporary message to a last event.                                    *)
EventsFit(events, temp, answering) ==
  /\ \A i \in DOMAIN events :
       /\ events[i] = "session_ready" =>
            i = 1 /\ 2 \in DOMAIN events /\ events[2] = "generation_start"
       /\ events[i] = "generation_start" =>
            temp /\ (i = 1 \/ (i = 2 /\ events[1] = "session_ready"))
       /\ events[i] \in Finals => i = Len(events) /\ ~ answering
  /\ temp => \E i \in DOMAIN events : events[i] = "generation_start"
  /\ ~ answering /\ events # <<>> => events[Len(events)] \in Finals

WireFits(r) ==
  /\ active.turn = r
  /\ IF r \in opened THEN EventsFit(wire[r], active.temp, pc[r] = "answer") ELSE active.temp
  /\ r \in opened /\ pc[r] # "answer" /\ wire[r] = <<>> => \A m \in shown : ~ Unsettled(m)

WidgetInv ==
  /\ WidgetTypes /\ ResponsesFit /\ OfThisChat /\ BusyReads /\ UnsettledIsActive
  /\ current \in WidgetRequests /\ Reading(current) => WireFits(current)

-----------------------------------------------------------------------------
(* Events that come and events that are read. *)

(* A sequence without its head.                                              *)
LEMMA SeqTail ==
  ASSUME NEW E, NEW s \in Seq(E), s # <<>>
  PROVE  /\ Tail(s) \in Seq(E) /\ Len(s) \in Nat \ {0} /\ DOMAIN s = 1 .. Len(s)
         /\ Len(Tail(s)) = Len(s) - 1 /\ DOMAIN Tail(s) = 1 .. (Len(s) - 1)
         /\ \A i \in 1 .. (Len(s) - 1) : Tail(s)[i] = s[i + 1]
         /\ (Tail(s) = <<>> <=> Len(s) = 1)
<1>1. Len(s) \in Nat \ {0} /\ DOMAIN s = 1 .. Len(s)
  BY EmptySeq
<1>2. /\ Tail(s) \in Seq(E) /\ Len(Tail(s)) = Len(s) - 1
      /\ \A i \in 1 .. (Len(s) - 1) : Tail(s)[i] = s[i + 1]
  BY <1>1
<1>3. DOMAIN Tail(s) = 1 .. (Len(s) - 1)
  BY <1>1, <1>2
<1>4. Tail(s) = <<>> <=> Len(Tail(s)) = 0
  BY <1>2, EmptySeq
<1> QED
  BY <1>1, <1>2, <1>3, <1>4

(* A sequence with one entry more.                                           *)
LEMMA SeqGrows ==
  ASSUME NEW E, NEW s \in Seq(E), NEW e \in E
  PROVE  /\ s \o <<e>> \in Seq(E) /\ Len(s) \in Nat /\ DOMAIN s = 1 .. Len(s)
         /\ Len(s \o <<e>>) = Len(s) + 1 /\ DOMAIN (s \o <<e>>) = 1 .. (Len(s) + 1)
         /\ \A i \in 1 .. Len(s) : (s \o <<e>>)[i] = s[i]
         /\ (s \o <<e>>)[Len(s) + 1] = e /\ s \o <<e>> # <<>>
OBVIOUS

(* What the server adds: a delta while it answers, a last event at the end.  *)
LEMMA EventAdded ==
  ASSUME NEW s \in Seq(Events), NEW e \in Events, NEW temp \in BOOLEAN, EventsFit(s, temp, TRUE)
  PROVE  /\ e = "delta" => EventsFit(s \o <<e>>, temp, TRUE)
         /\ e \in Finals => EventsFit(s \o <<e>>, temp, FALSE)
<1> DEFINE t == s \o <<e>>
<1>1. /\ t \in Seq(Events) /\ Len(s) \in Nat /\ DOMAIN s = 1 .. Len(s)
      /\ Len(t) = Len(s) + 1 /\ DOMAIN t = 1 .. (Len(s) + 1)
      /\ \A i \in 1 .. Len(s) : t[i] = s[i]
      /\ t[Len(s) + 1] = e /\ t # <<>>
  BY SeqGrows
<1> HIDE DEF t
<1>2. CASE e = "delta"
  BY <1>1, <1>2 DEF EventsFit, Finals
<1>3. CASE e \in Finals
  BY <1>1, <1>3 DEF EventsFit, Finals
<1> QED
  BY <1>2, <1>3 DEF t, Finals

(* What the widget takes off: in the order of the stream.                    *)
LEMMA EventRead ==
  ASSUME NEW s \in Seq(Events), s # <<>>, NEW temp \in BOOLEAN, NEW answering \in BOOLEAN,
         EventsFit(s, temp, answering)
  PROVE  /\ s[1] = "session_ready" => EventsFit(Tail(s), temp, answering) /\ Tail(s) # <<>>
         /\ s[1] = "generation_start" =>
              EventsFit(Tail(s), FALSE, answering) /\ (Tail(s) # <<>> \/ answering)
         /\ s[1] = "delta" =>
              EventsFit(Tail(s), temp, answering) /\ ~ temp /\ (Tail(s) # <<>> \/ answering)
         /\ s[1] \in Finals =>
              EventsFit(Tail(s), temp, answering) /\ ~ temp /\ ~ answering /\ Tail(s) = <<>>
<1> DEFINE t == Tail(s)
<1>1. /\ t \in Seq(Events) /\ Len(s) \in Nat \ {0} /\ DOMAIN s = 1 .. Len(s)
      /\ Len(t) = Len(s) - 1 /\ DOMAIN t = 1 .. (Len(s) - 1)
      /\ \A i \in 1 .. (Len(s) - 1) : t[i] = s[i + 1]
      /\ (t = <<>> <=> Len(s) = 1)
  BY SeqTail
<1> HIDE DEF t
<1>2. CASE s[1] = "session_ready"
  BY <1>1, <1>2, SMTT(30) DEF EventsFit, Finals
<1>3. CASE s[1] = "generation_start"
  BY <1>1, <1>3 DEF EventsFit, Finals
<1>4. CASE s[1] = "delta"
  BY <1>1, <1>4 DEF EventsFit, Finals
<1>5. CASE s[1] \in Finals
  BY <1>1, <1>5 DEF EventsFit, Finals
<1> QED
  BY <1>2, <1>3, <1>4, <1>5 DEF t, Finals

-----------------------------------------------------------------------------
(* What the visitor does. *)

(* sendMessage: whoever may send has nothing unsettled on the screen.        *)
LEMMA SendKeeps ==
  ASSUME LeaseInv, WidgetInv, NEW r \in WidgetRequests, Send(r)
  PROVE  WidgetInv'
<1>1. /\ WidgetTypes /\ ResponsesFit /\ OfThisChat /\ UnsettledIsActive
      /\ pc' = pc /\ chat' = chat /\ session' = session /\ opened' = opened /\ wire' = wire
      /\ aborted' = aborted /\ callFailed' = callFailed
      /\ current' = r /\ composer' = "connecting" /\ active' = [turn |-> r, temp |-> TRUE]
      /\ reader' = [reader EXCEPT ![r] = "sending"]
      /\ composer \notin Busy /\ reader[r] = "none" /\ pc[r] = "idle"
  BY DEF WidgetInv, Send, visitorVars, chatVars
<1>2. r \notin opened /\ r \notin aborted
  BY <1>1 DEF ResponsesFit
<1> DEFINE question == Shown(r, "user", TRUE, "completed")
           answer   == Shown(r, "assistant", TRUE, "pending")
<1>3. /\ shown' = shown \cup {question, answer}
      /\ question \in Messages /\ question.chat = chat /\ ~ Unsettled(question)
      /\ answer \in Messages /\ answer.chat = chat
      /\ answer.role = "assistant" /\ answer.turn = r /\ answer.temp = TRUE
  BY <1>1 DEF Send, Shown, Unsettled, Settled, WidgetTypes, Messages, Statuses
<1> HIDE DEF question, answer
<1>4. \A m \in shown : ~ Unsettled(m)
  BY <1>1 DEF UnsettledIsActive
<1>5. WidgetTypes'
  BY <1>1, <1>3 DEF WidgetTypes, Busy
<1>6. ResponsesFit'
  BY <1>1, <1>2, WidgetAssumption DEF ResponsesFit, WidgetTypes
<1>7. OfThisChat'
  BY <1>1, <1>3 DEF OfThisChat
<1>8. BusyReads'
  BY <1>1 DEF BusyReads, Reading, WidgetTypes
<1>9. UnsettledIsActive'
  <2>1. \A m \in shown' : Unsettled(m) => m = answer
    BY <1>3, <1>4
  <2>2. reader'[r] = "sending"
    BY <1>1 DEF WidgetTypes
  <2> QED
    BY <1>1, <1>3, <2>1, <2>2 DEF UnsettledIsActive, Unsettled, Reading, Busy
<1>10. WireFits(r)'
  BY <1>1, <1>2 DEF WireFits
<1> QED
  BY <1>1, <1>5, <1>6, <1>7, <1>8, <1>9, <1>10 DEF WidgetInv, WireFits

(* cancelGeneration: the composer stays busy with its request.               *)
LEMMA AskCancelKeeps ==
  ASSUME WidgetInv, AskCancel
  PROVE  WidgetInv'
BY DEF AskCancel, WidgetInv, WidgetTypes, ResponsesFit, OfThisChat, BusyReads, UnsettledIsActive,
       WireFits, Reading, Unsettled, Busy, visitorVars, chatVars

(* A composer in error was not busy.                                         *)
LEMMA DismissErrorKeeps ==
  ASSUME WidgetInv, DismissError
  PROVE  WidgetInv'
BY DEF DismissError, WidgetInv, WidgetTypes, ResponsesFit, OfThisChat, BusyReads,
       UnsettledIsActive, WireFits, Reading, Unsettled, Busy, visitorVars, chatVars, streams

(* startNewChat: an empty screen, and the old stream aborted.                *)
LEMMA StartNewChatKeeps ==
  ASSUME WidgetInv, StartNewChat
  PROVE  WidgetInv'
<1>1. /\ WidgetTypes /\ ResponsesFit
      /\ pc' = pc /\ reader' = reader /\ opened' = opened /\ wire' = wire
      /\ callFailed' = callFailed /\ chat' = chat + 1 /\ shown' = {} /\ composer' = "idle"
      /\ session' = NoSession /\ current' = NoRequest /\ active' = NoActive
      /\ aborted' = IF current # NoRequest /\ reader[current] # "closed" THEN aborted \cup {current}
                    ELSE aborted
  BY DEF WidgetInv, StartNewChat, visitorVars, chatVars
<1>2. NoRequest \notin WidgetRequests
  BY WidgetAssumption
<1>3. WidgetTypes'
  BY <1>1 DEF WidgetTypes, NoActive
<1>4. ResponsesFit'
  BY <1>1, <1>2 DEF ResponsesFit, WidgetTypes
<1> QED
  BY <1>1, <1>2, <1>3, <1>4
     DEF WidgetInv, OfThisChat, BusyReads, UnsettledIsActive, Busy, WidgetTypes

-----------------------------------------------------------------------------
(* The server's side. *)

(* A preflight changes nothing on the screen.                                *)
LEMMA PreflightKeeps ==
  ASSUME WidgetInv, NEW r \in WidgetRequests, Preflight(r)
  PROVE  WidgetInv'
<1>1. /\ pc' = pc /\ chat' = chat /\ shown' = shown /\ composer' = composer
      /\ current' = current /\ active' = active /\ session' = session
      /\ callFailed' = callFailed /\ opened' = opened /\ wire' = wire /\ aborted' = aborted
      /\ reader' = [reader EXCEPT ![r] = "reading"] /\ reader[r] = "sending"
  BY DEF Preflight, visitorVars, chatVars, screen
<1>2. WidgetTypes'
  BY <1>1 DEF WidgetInv, WidgetTypes
<1>3. \A q \in WidgetRequests : /\ (Reading(q)' <=> Reading(q))
                                 /\ (reader'[q] = "none" <=> reader[q] = "none")
  BY <1>1 DEF WidgetInv, WidgetTypes, Reading
<1>4. ResponsesFit'
  BY <1>1, <1>3 DEF WidgetInv, ResponsesFit
<1>5. OfThisChat'
  BY <1>1 DEF WidgetInv, OfThisChat
<1>6. ASSUME NEW q \in WidgetRequests, q = current PROVE Reading(current)' <=> Reading(q)
  BY <1>1, <1>3, <1>6 DEF Reading
<1>7. BusyReads'
  BY <1>1, <1>6 DEF WidgetInv, BusyReads, Reading
<1>8. UnsettledIsActive'
  BY <1>1, <1>6 DEF WidgetInv, UnsettledIsActive, Unsettled, Reading, Messages, WidgetTypes
<1>9. current \in WidgetRequests /\ WireFits(current) => WireFits(current)'
  BY <1>1 DEF WireFits, Unsettled
<1> QED
  BY <1>1, <1>2, <1>4, <1>5, <1>6, <1>7, <1>8, <1>9 DEF WidgetInv

(* The steps that leave the widget alone: a request's way to its answer, its *)
(* client going away, other requests and the surroundings.                   *)
LEMMA OtherStepsKeep ==
  ASSUME WidgetInv, UNCHANGED widgetVars, pc' \in [Requests -> Steps],
         \A q \in WidgetRequests : \/ pc'[q] = pc[q]
                                   \/ q \notin opened /\ pc'[q] # "answer"
                                   \/ ~ Connected(q) /\ pc'[q] = "ended"
  PROVE  WidgetInv'
<1>1. /\ chat' = chat /\ shown' = shown /\ composer' = composer
      /\ current' = current /\ active' = active /\ session' = session
      /\ callFailed' = callFailed /\ opened' = opened /\ wire' = wire /\ aborted' = aborted
      /\ reader' = reader
  BY DEF widgetVars
<1>2. WidgetTypes'
  BY <1>1 DEF WidgetInv, WidgetTypes
<1>3. ResponsesFit'
  BY <1>1 DEF WidgetInv, ResponsesFit
<1>4. OfThisChat' /\ BusyReads'
  BY <1>1 DEF WidgetInv, OfThisChat, BusyReads, Reading
<1>5. UnsettledIsActive'
  BY <1>1 DEF WidgetInv, UnsettledIsActive, Unsettled, Reading
<1>6. ASSUME NEW q \in WidgetRequests, q = current, Reading(q) PROVE WireFits(q)'
  <2>1. WireFits(q) /\ q \notin aborted
    BY <1>6 DEF WidgetInv, ResponsesFit
  <2>2. Connected(q)
    BY <1>6, <2>1 DEF Connected, Reading
  <2>3. pc'[q] = pc[q] \/ q \notin opened
    BY <2>2
  <2> QED
    BY <1>1, <2>1, <2>3 DEF WireFits, Unsettled
<1>7. current' \in WidgetRequests /\ Reading(current)' => WireFits(current)'
  BY <1>1, <1>6 DEF Reading, WireFits
<1> QED
  BY <1>2, <1>3, <1>4, <1>5, <1>7 DEF WidgetInv

(* The answer begins, goes on or ends, and the stream tells it.              *)
LEMMA AnswersKeep ==
  ASSUME WidgetInv, NEW r \in WidgetRequests, NEW events, Tells(r, events),
         pc' \in [Requests -> Steps], \A q \in WidgetRequests \ {r} : pc'[q] = pc[q],
         \/ /\ pc[r] = "turn" /\ pc'[r] = "answer" /\ opened' = opened \cup {r}
            /\ events = <<"session_ready", "generation_start">>
         \/ pc[r] = "answer" /\ pc'[r] = "answer" /\ opened' = opened /\ events = <<"delta">>
         \/ /\ pc[r] = "answer" /\ pc'[r] = "ended" /\ opened' = opened
            /\ \E last \in Finals : events = <<last>>
  PROVE  WidgetInv'
<1>1. /\ chat' = chat /\ shown' = shown /\ composer' = composer
      /\ current' = current /\ active' = active /\ session' = session
      /\ callFailed' = callFailed /\ aborted' = aborted /\ reader' = reader
      /\ wire' = [wire EXCEPT ![r] = @ \o events]
  BY DEF Tells, screen
<1>2. WidgetTypes /\ ResponsesFit
  BY DEF WidgetInv
<1>3. wire[r] \in Seq(Events) /\ active.temp \in BOOLEAN
  BY <1>2 DEF WidgetTypes
<1>4. wire[r] \o events \in Seq(Events) /\ wire[r] \o events # <<>>
  <2>1. events \in Seq(Events) /\ events # <<>>
    <3>1. \A e \in Events : <<e>> \in Seq(Events) /\ <<e>> # <<>>
      OBVIOUS
    <3>2. /\ <<"session_ready", "generation_start">> \in Seq(Events)
          /\ <<"session_ready", "generation_start">> # <<>>
      BY DEF Events
    <3>3. "delta" \in Events /\ Finals \subseteq Events
      BY DEF Events
    <3>4. CASE events = <<"session_ready", "generation_start">>
      BY <3>2, <3>4
    <3>5. CASE \E e \in Events : events = <<e>>
      BY <3>1, <3>5
    <3> QED
      BY <3>3, <3>4, <3>5
  <2> QED
    BY <1>3, <2>1, ConcatProperties, ConcatEqualIffEmpty
<1>5. WidgetTypes'
  BY <1>1, <1>2, <1>4 DEF WidgetTypes
<1>6. ResponsesFit'
  BY <1>1, <1>2 DEF ResponsesFit, WidgetTypes
<1>7. OfThisChat' /\ BusyReads' /\ UnsettledIsActive'
  BY <1>1 DEF WidgetInv, OfThisChat, BusyReads, UnsettledIsActive, Unsettled, Reading
<1>8. ASSUME r = current, Reading(r) PROVE WireFits(r)'
  <2>1. WireFits(r)
    BY <1>8 DEF WidgetInv
  <2>2. r \in opened' /\ wire'[r] = wire[r] \o events
    BY <1>1, <1>2 DEF ResponsesFit, WidgetTypes
  <2>3. EventsFit(wire[r] \o events, active.temp, pc'[r] = "answer")
    <3>1. CASE pc[r] = "turn"
      <4>1. r \notin opened /\ wire[r] = <<>> /\ active.temp
        BY <1>2, <2>1, <3>1 DEF ResponsesFit, WireFits
      <4>2. /\ wire[r] \o events = <<"session_ready", "generation_start">>
            /\ pc'[r] = "answer"
        BY <3>1, <4>1, <1>3, <1>4, ConcatEmptySeq
      <4> QED
        BY <4>1, <4>2 DEF EventsFit, Finals
    <3>2. CASE pc[r] = "answer"
      <4>1. EventsFit(wire[r], active.temp, TRUE)
        BY <1>2, <2>1, <3>2 DEF ResponsesFit, WireFits
      <4> QED
        BY <1>3, <3>2, <4>1, EventAdded, ZenonT(30) DEF Events, Finals
    <3> QED
      BY <3>1, <3>2
  <2> QED
    BY <1>1, <1>4, <2>1, <2>2, <2>3 DEF WireFits
<1>9. ASSUME NEW q \in WidgetRequests, q # r, q = current, Reading(q) PROVE WireFits(q)'
  <2>1. WireFits(q)
    BY <1>9 DEF WidgetInv
  <2>2. wire'[q] = wire[q] /\ pc'[q] = pc[q] /\ (q \in opened' <=> q \in opened)
    BY <1>1, <1>2, <1>9 DEF WidgetTypes
  <2> QED
    BY <1>1, <2>1, <2>2 DEF WireFits, Unsettled
<1>10. current' \in WidgetRequests /\ Reading(current)' => WireFits(current)'
  BY <1>1, <1>8, <1>9 DEF Reading, WireFits
<1> QED
  BY <1>5, <1>6, <1>7, <1>10 DEF WidgetInv

(* The server's steps of a request of the widget.                            *)
LEMMA ServeKeeps ==
  ASSUME LeaseInv, WidgetInv, NEW r \in WidgetRequests, Serve(r)
  PROVE  WidgetInv' /\ LeaseInv'
<1> DEFINE Early == \/ Arrive(r) \/ TakeLease(r) \/ LoadProject(r) \/ CheckWidget(r)
                    \/ PreparePlugin(r)
           Mine(step) == pc' = [pc EXCEPT ![r] = step]
<1>1. r \in Requests /\ r # RagRequest
  BY WidgetAssumption
<1>2. pc \in [Requests -> Steps] /\ ResponsesFit
  BY DEF LeaseInv, WidgetInv
<1>3. CASE Early /\ UNCHANGED widgetVars
  <2>1. RequestStep(r)
    BY <1>3 DEF RequestStep
  <2>2. LeaseInv' /\ pc' \in [Requests -> Steps]
    BY <1>1, <2>1, RequestMovesOwnLease, MovesKeepLeases
  <2>3. /\ pc[r] \in {"idle", "lease", "project", "widget", "plugin"}
        /\ \E step \in Steps \ {"answer"} : Mine(step)
    BY <1>3 DEF Arrive, TakeLease, LoadProject, CheckWidget, PreparePlugin, Reject, Release,
                Passed, Goto, Steps
  <2>4. r \notin opened
    BY <1>2, <2>3 DEF ResponsesFit
  <2>5. \A q \in WidgetRequests : pc'[q] = pc[q] \/ (q \notin opened /\ pc'[q] # "answer")
    BY <1>2, <2>3, <2>4, WidgetAssumption
  <2> QED
    BY <1>3, <2>2, <2>5, OtherStepsKeep
<1>4. CASE /\ TurnStarts(r) /\ Tells(r, <<"session_ready", "generation_start">>)
           /\ opened' = opened \cup {r}
  <2>1. LeaseInv' /\ pc' \in [Requests -> Steps]
    BY <1>1, <1>4, RequestMovesOwnLease, MovesKeepLeases DEF RequestStep
  <2>2. pc[r] = "turn" /\ Mine("answer")
    BY <1>1, <1>4 DEF TurnStarts, Passed, Goto
  <2>3. pc'[r] = "answer" /\ \A q \in WidgetRequests \ {r} : pc'[q] = pc[q]
    BY <1>1, <1>2, <2>2, WidgetAssumption
  <2> QED
    BY <1>4, <2>1, <2>2, <2>3, AnswersKeep
<1>5. CASE /\ pc[r] = "answer" /\ Tells(r, <<"delta">>)
           /\ UNCHANGED <<visitorVars, opened>>
  <2>1. pc' = pc /\ opened' = opened
    BY <1>5 DEF visitorVars, chatVars
  <2>2. LeaseInv'
    BY <1>5, LeasesKept
  <2> QED
    BY <1>2, <1>5, <2>1, <2>2, AnswersKeep
<1>6. CASE /\ AnswerEnds(r) /\ opened' = opened
           /\ \E last \in Finals : Tells(r, <<last>>)
  <2>1. LeaseInv' /\ pc' \in [Requests -> Steps]
    BY <1>1, <1>6, RequestMovesOwnLease, MovesKeepLeases DEF RequestStep
  <2>2. pc[r] = "answer" /\ Mine("ended")
    BY <1>6 DEF AnswerEnds, Release, Goto
  <2>3. pc'[r] = "ended" /\ \A q \in WidgetRequests \ {r} : pc'[q] = pc[q]
    BY <1>1, <1>2, <2>2, WidgetAssumption
  <2>4. PICK last \in Finals : Tells(r, <<last>>)
    BY <1>6
  <2> QED
    BY <1>6, <2>1, <2>2, <2>3, <2>4, AnswersKeep
<1>7. CASE ~ Connected(r) /\ Leave(r) /\ UNCHANGED widgetVars
  <2>1. LeaseInv' /\ pc' \in [Requests -> Steps]
    BY <1>1, <1>7, RequestMovesOwnLease, MovesKeepLeases DEF RequestStep
  <2>2. Mine("ended")
    BY <1>7 DEF Leave, Release, Goto
  <2>3. \A q \in WidgetRequests : pc'[q] = pc[q] \/ (~ Connected(q) /\ pc'[q] = "ended")
    BY <1>2, <1>7, <2>2, WidgetAssumption
  <2> QED
    BY <1>7, <2>1, <2>3, OtherStepsKeep
<1> QED
  BY <1>3, <1>4, <1>5, <1>6, <1>7 DEF Serve, Finals

(* A cancel call that is over: a failed one makes the composer busy.         *)
LEMMA CallEndsKeeps ==
  ASSUME LeaseInv, WidgetInv, NEW call, CallEnds(call)
  PROVE  WidgetInv' /\ LeaseInv'
<1>1. /\ chat' = chat /\ shown' = shown /\ current' = current /\ active' = active
      /\ session' = session /\ reader' = reader /\ opened' = opened /\ wire' = wire
      /\ aborted' = aborted
  BY DEF CallEnds
<1>2. pc' = pc /\ UNCHANGED streamCounts
  BY DEF CallEnds, CheckRequest, visitorVars, chatVars, limiterVars, streamCounts
<1>3. LeaseInv'
  BY <1>2, MovesKeepLeases DEF LeaseInv, NoLeaseMoves, HoldersUnchanged, Holds
<1>4. \/ composer' = composer /\ callFailed' \in BOOLEAN /\ (callFailed => callFailed')
      \/ composer' = "streaming" /\ callFailed' = TRUE
  BY DEF CallEnds
<1>5. callFailed' \in BOOLEAN
  BY <1>4
<1>6. WidgetTypes'
  BY <1>1, <1>2, <1>4, <1>5 DEF WidgetInv, WidgetTypes, Busy
<1>7. ResponsesFit' /\ OfThisChat'
  BY <1>1, <1>2 DEF WidgetInv, ResponsesFit, OfThisChat
<1>8. BusyReads' /\ UnsettledIsActive'
  BY <1>1, <1>4 DEF WidgetInv, BusyReads, UnsettledIsActive, Unsettled, Reading, Busy
<1>9. current' \in WidgetRequests /\ Reading(current)' => WireFits(current)'
  BY <1>1, <1>2 DEF WidgetInv, Reading, WireFits, Unsettled
<1> QED
  BY <1>3, <1>6, <1>7, <1>8, <1>9 DEF WidgetInv

-----------------------------------------------------------------------------
(* The loop of sendMessage. *)

(* A stream is left: it has ended, was aborted, or failed.                   *)
LEMMA ClosingKeeps ==
  ASSUME WidgetInv, NEW r \in WidgetRequests, StreamEnds(r) \/ LoopLeft(r) \/ StreamFails(r)
  PROVE  WidgetInv'
<1>1. /\ WidgetTypes /\ ResponsesFit /\ OfThisChat /\ BusyReads /\ UnsettledIsActive
      /\ pc' = pc /\ chat' = chat /\ current' = current /\ session' = session
      /\ opened' = opened /\ aborted' = aborted /\ callFailed' = callFailed
      /\ reader' = [reader EXCEPT ![r] = "closed"] /\ Reading(r)
      /\ wire' = [wire EXCEPT ![r] = <<>>]
  <2>1. wire[r] = <<>> => wire = [wire EXCEPT ![r] = <<>>]
    BY DEF WidgetInv, WidgetTypes
  <2> QED
    BY <2>1 DEF WidgetInv, StreamEnds, LoopLeft, StreamFails, Connected, Closed, Reading,
                visitorVars, chatVars
<1>2. NoRequest \notin WidgetRequests
  BY WidgetAssumption
<1>3. <<>> \in Seq(Events)
  OBVIOUS
<1>4. ResponsesFit'
  BY <1>1 DEF ResponsesFit, WidgetTypes
<1>5. \A q \in WidgetRequests \ {r} : reader'[q] = reader[q] /\ wire'[q] = wire[q]
  BY <1>1 DEF WidgetTypes
<1>6. CASE current # r
  <2>1. shown' = shown /\ active' = active /\ composer' = composer
    BY <1>6 DEF StreamEnds, LoopLeft, StreamFails, Finally
  <2>2. WidgetTypes'
    BY <1>1, <1>3, <2>1 DEF WidgetTypes
  <2>3. OfThisChat'
    BY <1>1, <2>1 DEF OfThisChat
  <2>4. current \in WidgetRequests => reader'[current] = reader[current]
    BY <1>5, <1>6
  <2>5. BusyReads'
    BY <1>1, <2>1, <2>4 DEF BusyReads, Reading
  <2>6. UnsettledIsActive'
    BY <1>1, <2>1, <2>4 DEF UnsettledIsActive, Unsettled, Reading, WidgetTypes, Messages
  <2>7. ASSUME NEW q \in WidgetRequests, q = current, Reading(q) PROVE WireFits(q)'
    BY <1>1, <1>5, <1>6, <2>1, <2>7 DEF WidgetInv, WireFits, Unsettled
  <2>8. current' \in WidgetRequests /\ Reading(current)' => WireFits(current)'
    BY <1>1, <2>4, <2>7 DEF Reading, WireFits
  <2> QED
    BY <1>4, <2>2, <2>3, <2>5, <2>6, <2>8 DEF WidgetInv
<1>7. CASE current = r
  <2>1. ~ LoopLeft(r)
    BY <1>1, <1>7 DEF LoopLeft, LeavesLoop, ResponsesFit
  <2>2. active' = NoActive /\ composer' \in {"idle", "error"}
    BY <1>7, <2>1 DEF StreamEnds, StreamFails, Finally
  <2>3. /\ shown' \subseteq Messages
        /\ \A m \in shown' : m.chat = chat /\ ~ Unsettled(m)
    <3>1. CASE StreamEnds(r)
      <4>1. shown' = shown /\ r \in opened /\ pc[r] # "answer" /\ wire[r] = <<>>
        BY <3>1 DEF StreamEnds
      <4>2. WireFits(r)
        BY <1>1, <1>7 DEF WidgetInv
      <4> QED
        BY <1>1, <4>1, <4>2 DEF WireFits, OfThisChat, WidgetTypes
    <3>2. CASE StreamFails(r)
      <4>1. shown' = PatchedActive("error")
        BY <1>7, <3>2 DEF StreamFails
      <4>2. CASE active = NoActive
        BY <1>1, <1>2, <1>7, <4>1, <4>2
           DEF PatchedActive, UnsettledIsActive, NoActive, OfThisChat, WidgetTypes
      <4>3. CASE active # NoActive
        <5>1. ASSUME NEW m \in shown'
              PROVE  m \in Messages /\ m.chat = chat /\ ~ Unsettled(m)
          <6>1. PICK n \in shown :
                  m = IF n.role = "assistant" /\ n.turn = active.turn /\ n.temp = active.temp
                      THEN [n EXCEPT !.status = "error"] ELSE n
            BY <4>1, <4>3, <5>1 DEF PatchedActive, Patched
          <6>2. n \in Messages /\ n.chat = chat
            BY <1>1 DEF WidgetTypes, OfThisChat
          <6>3. CASE n.role = "assistant" /\ n.turn = active.turn /\ n.temp = active.temp
            <7>1. m = [n EXCEPT !.status = "error"]
              BY <6>1, <6>3
            <7> QED
              BY <6>2, <7>1 DEF Messages, Statuses, Settled, Unsettled
          <6>4. CASE ~ (n.role = "assistant" /\ n.turn = active.turn /\ n.temp = active.temp)
            BY <1>1, <6>1, <6>2, <6>4 DEF UnsettledIsActive
          <6> QED
            BY <6>3, <6>4
        <5> QED
          BY <5>1
      <4> QED
        BY <4>2, <4>3
    <3> QED
      BY <2>1, <3>1, <3>2
  <2>4. WidgetTypes'
    BY <1>1, <1>3, <2>2, <2>3 DEF WidgetTypes, NoActive
  <2>5. OfThisChat'
    BY <1>1, <2>3 DEF OfThisChat
  <2>6. BusyReads' /\ UnsettledIsActive'
    BY <2>2, <2>3 DEF BusyReads, UnsettledIsActive, Busy, Unsettled
  <2>7. reader'[r] = "closed" /\ current' = r
    BY <1>1, <1>7 DEF WidgetTypes
  <2> QED
    BY <1>4, <2>4, <2>5, <2>6, <2>7 DEF WidgetInv, Reading
<1> QED
  BY <1>6, <1>7

(* An event is applied: the steps of SessionReady, GenerationStart, Delta    *)
(* and Finished differ in what they do to the messages.                      *)
LEMMA ApplyingKeeps ==
  ASSUME WidgetInv, NEW r \in WidgetRequests, NEW event \in Events, Applies(r, event),
         shown' \subseteq Messages, \A m \in shown' : m.chat = chat,
         composer' \in Busy \cup {"idle", "error"}, session' \in {NoSession, chat},
         active' \in [turn : {r}, temp : BOOLEAN],
         EventsFit(Tail(wire[r]), active'.temp, pc[r] = "answer"),
         \A m \in shown' : Unsettled(m) =>
           /\ m.role = "assistant" /\ m.turn = r /\ composer' \in Busy
           /\ m.temp = active'.temp /\ (Tail(wire[r]) # <<>> \/ pc[r] = "answer")
  PROVE  WidgetInv'
<1>1. /\ pc' = pc /\ chat' = chat /\ current' = current /\ reader' = reader
      /\ opened' = opened /\ aborted' = aborted /\ callFailed' = callFailed
      /\ current = r /\ reader[r] = "reading" /\ wire[r] # <<>>
      /\ wire' = [wire EXCEPT ![r] = Tail(@)]
  BY DEF Applies, visitorVars, chatVars
<1>2. WidgetTypes /\ ResponsesFit
  BY DEF WidgetInv
<1>3. wire'[r] = Tail(wire[r]) /\ Tail(wire[r]) \in Seq(Events) /\ r \in opened
  BY <1>1, <1>2, SeqTail DEF WidgetTypes, ResponsesFit
<1>4. WidgetTypes'
  BY <1>1, <1>2, <1>3 DEF WidgetTypes
<1>5. ResponsesFit'
  BY <1>1, <1>2, <1>3 DEF ResponsesFit, WidgetTypes
<1>6. OfThisChat'
  BY <1>1 DEF OfThisChat
<1>7. BusyReads'
  BY <1>1 DEF BusyReads, Reading
<1>8. UnsettledIsActive'
  BY <1>1 DEF UnsettledIsActive, Unsettled, Reading
<1>9. WireFits(r)'
  BY <1>1, <1>3 DEF WireFits, Unsettled
<1> QED
  BY <1>1, <1>4, <1>5, <1>6, <1>7, <1>8, <1>9 DEF WidgetInv, WireFits

(* Each kind of event, read in its turn.                                     *)
LEMMA ReadingKeeps ==
  ASSUME WidgetInv, NEW r \in WidgetRequests,
         \/ SessionReady(r) \/ GenerationStart(r) \/ Delta(r)
         \/ \E end \in {<<"message_done", "completed">>, <<"cancelled", "cancelled">>,
                       <<"error", "error">>} : Finished(r, end[1], end[2])
  PROVE  WidgetInv'
<1> DEFINE event == wire[r][1]
           answering == pc[r] = "answer"
<1>1. /\ WidgetTypes /\ ResponsesFit /\ OfThisChat /\ BusyReads /\ UnsettledIsActive
      /\ current = r /\ reader[r] = "reading" /\ Reading(r) /\ wire[r] # <<>>
      /\ Applies(r, event) /\ event \in Events
  <2>1. PICK e \in Events : Applies(r, e)
    <3>1. CASE SessionReady(r) \/ GenerationStart(r) \/ Delta(r)
      BY <3>1 DEF SessionReady, GenerationStart, Delta, Events
    <3>2. ASSUME NEW last \in Finals, NEW status, Finished(r, last, status)
          PROVE  \E e \in Events : Applies(r, e)
      BY <3>2 DEF Finished, Events
    <3> QED
      BY <3>1, <3>2 DEF Finals
  <2> QED
    BY <2>1 DEF WidgetInv, Applies, Reading
<1>2. wire[r] \in Seq(Events) /\ active \in [turn : {r}, temp : BOOLEAN]
  BY <1>1 DEF WidgetInv, WireFits, WidgetTypes
<1>3. EventsFit(wire[r], active.temp, answering)
  BY <1>1 DEF WidgetInv, WireFits, ResponsesFit
<1>4. \A m \in shown : /\ m \in Messages /\ m.chat = chat
                       /\ Unsettled(m) => m.role = "assistant" /\ m.turn = r
                                          /\ m.temp = active.temp /\ composer \in Busy
  BY <1>1 DEF OfThisChat, UnsettledIsActive, WidgetTypes
<1>5. CASE SessionReady(r)
  <2>1. /\ event = "session_ready" /\ shown' = shown /\ active' = active
        /\ composer' = "thinking" /\ session' \in {NoSession, chat}
    BY <1>1, <1>5 DEF SessionReady, Applies, OfThisChat
  <2>2. EventsFit(Tail(wire[r]), active.temp, answering) /\ Tail(wire[r]) # <<>>
    BY <1>1, <1>2, <1>3, <2>1, EventRead
  <2> HIDE DEF event
  <2> QED
    BY <1>1, <1>2, <1>4, <2>1, <2>2, ApplyingKeeps DEF Busy
<1>6. CASE GenerationStart(r)
  <2> DEFINE question == Shown(r, "user", FALSE, "completed")
             answer   == Shown(r, "assistant", FALSE, "pending")
  <2>1. /\ event = "generation_start" /\ active' = [turn |-> r, temp |-> FALSE]
        /\ shown' = {m \in shown : ~(m.turn = r /\ m.temp)} \cup {question, answer}
        /\ composer' = "thinking" /\ session' \in {NoSession, chat}
    BY <1>1, <1>6 DEF GenerationStart, Applies, OfThisChat
  <2>2. /\ EventsFit(Tail(wire[r]), FALSE, answering) /\ (Tail(wire[r]) # <<>> \/ answering)
    BY <1>1, <1>2, <1>3, <2>1, EventRead
  <2>3. active.temp
    BY <1>1, <1>2, <1>3, <2>1, SeqTail DEF EventsFit
  <2>4. /\ question \in Messages /\ question.chat = chat /\ ~ Unsettled(question)
        /\ answer \in Messages /\ answer.chat = chat
        /\ answer.role = "assistant" /\ answer.turn = r /\ answer.temp = FALSE
    BY <1>1 DEF Shown, Unsettled, Settled, WidgetTypes, Messages, Statuses
  <2> HIDE DEF event, question, answer
  <2>5. \A m \in shown' : /\ m \in Messages /\ m.chat = chat
                          /\ Unsettled(m) => m = answer
    BY <1>4, <2>1, <2>3, <2>4
  <2> QED
    BY <1>1, <2>1, <2>2, <2>4, <2>5, ApplyingKeeps DEF Busy
<1>7. ASSUME NEW status \in Statuses, shown' = Patched(r, FALSE, status), active.temp = FALSE
      PROVE  \A m \in shown' :
               /\ m \in Messages /\ m.chat = chat
               /\ Unsettled(m) => /\ status \notin Settled
                                 /\ m.role = "assistant" /\ m.turn = r /\ m.temp = FALSE
  <2> SUFFICES ASSUME NEW m \in shown'
               PROVE  /\ m \in Messages /\ m.chat = chat
                      /\ Unsettled(m) => /\ status \notin Settled
                                        /\ m.role = "assistant" /\ m.turn = r /\ m.temp = FALSE
    OBVIOUS
  <2>1. PICK n \in shown : m = IF n.role = "assistant" /\ n.turn = r /\ n.temp = FALSE
                               THEN [n EXCEPT !.status = status] ELSE n
    BY <1>7 DEF Patched
  <2>2. n \in Messages /\ n.chat = chat
    BY <1>4
  <2>3. CASE n.role = "assistant" /\ n.turn = r /\ n.temp = FALSE
    <3>1. m = [n EXCEPT !.status = status]
      BY <2>1, <2>3
    <3> QED
      BY <2>2, <2>3, <3>1 DEF Messages, Unsettled
  <2>4. CASE ~ (n.role = "assistant" /\ n.turn = r /\ n.temp = FALSE)
    BY <1>4, <1>7, <2>1, <2>2, <2>4
  <2> QED
    BY <2>3, <2>4
<1>8. CASE Delta(r)
  <2>1. /\ event = "delta" /\ active' = active /\ shown' = Patched(r, FALSE, "streaming")
        /\ composer' = "streaming" /\ session' \in {NoSession, chat}
    BY <1>1, <1>8 DEF Delta, Applies, OfThisChat
  <2>2. /\ EventsFit(Tail(wire[r]), active.temp, answering)
        /\ active.temp = FALSE /\ (Tail(wire[r]) # <<>> \/ answering)
    BY <1>1, <1>2, <1>3, <2>1, EventRead
  <2>3. "streaming" \in Statuses
    BY DEF Statuses
  <2>4. \A m \in shown' : /\ m \in Messages /\ m.chat = chat
                          /\ Unsettled(m) => m.role = "assistant" /\ m.turn = r /\ m.temp = FALSE
    BY <1>7, <2>1, <2>2, <2>3
  <2> HIDE DEF event
  <2> QED
    BY <1>1, <1>2, <2>1, <2>2, <2>4, ApplyingKeeps DEF Busy
<1>9. ASSUME NEW status \in Settled, NEW last \in Finals, Finished(r, last, status)
      PROVE  WidgetInv'
  <2>1. /\ event \in Finals /\ active' = active /\ shown' = Patched(r, FALSE, status)
        /\ composer' \in {"idle", "error"} /\ session' \in {NoSession, chat}
    BY <1>1, <1>9 DEF Finished, Applies, OfThisChat
  <2>2. EventsFit(Tail(wire[r]), active.temp, answering) /\ active.temp = FALSE
    BY <1>1, <1>2, <1>3, <2>1, EventRead
  <2>3. status \in Statuses
    BY DEF Statuses
  <2>4. \A m \in shown' : m \in Messages /\ m.chat = chat /\ ~ Unsettled(m)
    BY <1>7, <2>1, <2>2, <2>3
  <2> HIDE DEF event
  <2> QED
    BY <1>1, <1>2, <2>1, <2>2, <2>4, ApplyingKeeps DEF Busy
<1> QED
  BY <1>5, <1>6, <1>8, <1>9 DEF Finals, Settled

-----------------------------------------------------------------------------
(* The invariant holds. *)

(* An empty chat.                                                            *)
LEMMA WidgetInitially == WidgetInit => LeaseInv /\ WidgetInv
<1> SUFFICES ASSUME WidgetInit PROVE LeaseInv /\ WidgetInv
  OBVIOUS
<1>1. LeaseInv
  BY LeasesInitially DEF WidgetInit
<1>2. /\ \A r \in WidgetRequests : r \in Requests /\ pc[r] \in {"idle", "ended"}
      /\ NoRequest \notin WidgetRequests
  BY WidgetAssumption DEF WidgetInit, Init
<1>3. <<>> \in Seq(Events)
  OBVIOUS
<1>4. WidgetTypes
  BY <1>1, <1>3 DEF WidgetInit, WidgetTypes, LeaseInv, NoActive
<1> QED
  BY <1>1, <1>2, <1>4
     DEF WidgetInit, WidgetInv, ResponsesFit, OfThisChat, BusyReads, UnsettledIsActive, Busy

(* Whatever the widget, its server and everyone else do.                     *)
LEMMA WidgetKept ==
  ASSUME LeaseInv, WidgetInv, [WidgetNext]_<<visitorVars, widgetVars>>
  PROVE  LeaseInv' /\ WidgetInv'
<1>1. ASSUME UNCHANGED visitorVars PROVE LeaseInv'
  BY <1>1, LeasesKept
<1>2. pc \in [Requests -> Steps]
  BY DEF LeaseInv
<1>3. CASE AskCancel \/ StartNewChat \/ DismissError
  <2>1. UNCHANGED visitorVars
    BY <1>3 DEF AskCancel, StartNewChat, DismissError
  <2> QED
    BY <1>1, <1>3, <2>1, AskCancelKeeps, StartNewChatKeeps, DismissErrorKeeps
<1>4. CASE \E call \in calls : CallEnds(call)
  BY <1>4, CallEndsKeeps
<1>5. ASSUME NEW r \in WidgetRequests, Send(r) \/ Preflight(r) PROVE LeaseInv' /\ WidgetInv'
  <2>1. UNCHANGED visitorVars
    BY <1>5 DEF Send, Preflight
  <2> QED
    BY <1>1, <1>5, <2>1, SendKeeps, PreflightKeeps
<1>6. ASSUME NEW r \in WidgetRequests, Serve(r) PROVE LeaseInv' /\ WidgetInv'
  BY <1>6, ServeKeeps
<1>7. ASSUME NEW r \in WidgetRequests, ReadStep(r) PROVE LeaseInv' /\ WidgetInv'
  <2>1. UNCHANGED visitorVars
    BY <1>7 DEF ReadStep, StreamEnds, LoopLeft, StreamFails, Closed, SessionReady,
                GenerationStart, Delta, Finished, Applies
  <2>2. WidgetInv'
    <3>1. CASE StreamEnds(r) \/ LoopLeft(r) \/ StreamFails(r)
      BY <3>1, ClosingKeeps
    <3>2. CASE SessionReady(r) \/ GenerationStart(r) \/ Delta(r)
      BY <3>2, ReadingKeeps
    <3>3. ASSUME NEW end \in {<<"message_done", "completed">>, <<"cancelled", "cancelled">>,
                             <<"error", "error">>}, Finished(r, end[1], end[2])
          PROVE  WidgetInv'
      BY <3>3, ReadingKeeps
    <3> QED
      BY <1>7, <3>1, <3>2, <3>3 DEF ReadStep
  <2> QED
    BY <1>1, <2>1, <2>2
<1>8. CASE Surroundings /\ UNCHANGED widgetVars
  BY <1>2, <1>8, SurroundingsMoveNoLease, MovesKeepLeases, OtherStepsKeep
<1>9. ASSUME NEW r \in Requests \ WidgetRequests, RequestStep(r), UNCHANGED widgetVars
      PROVE  LeaseInv' /\ WidgetInv'
  <2>1. LeaseInv' /\ pc' \in [Requests -> Steps]
    BY <1>9, RequestMovesOwnLease, MovesKeepLeases
  <2>2. \A q \in WidgetRequests : pc'[q] = pc[q]
    BY <1>2, <1>9, WidgetAssumption
       DEF RequestStep, Arrive, TakeLease, LoadProject, CheckWidget, PreparePlugin, TurnStarts,
           SearchEnds, AnswerEnds, Leave, CancelRequest, Reject, Release, Passed, Goto
  <2> QED
    BY <1>9, <2>1, <2>2, OtherStepsKeep
<1>10. CASE UNCHANGED <<visitorVars, widgetVars>>
  <2>1. UNCHANGED visitorVars /\ UNCHANGED widgetVars /\ pc' = pc
    BY <1>10 DEF visitorVars, chatVars
  <2> QED
    BY <1>1, <1>2, <2>1, OtherStepsKeep
<1> QED
  BY <1>3, <1>4, <1>5, <1>6, <1>7, <1>8, <1>9, <1>10 DEF WidgetNext, WidgetStep

(* What the invariant says when nothing is read.                             *)
LEMMA NothingReadIsSettled == WidgetInv => WidgetSettles
<1> SUFFICES ASSUME WidgetInv PROVE WidgetSettles
  OBVIOUS
<1>1. ASSUME \A r \in WidgetRequests : reader[r] \in {"none", "closed"}
      PROVE  /\ composer \in Busy => callFailed
             /\ \A m \in shown : m.status \in Settled
  <2>1. \A r \in WidgetRequests : ~ Reading(r)
    BY <1>1 DEF Reading
  <2>2. \A m \in shown : m \in Messages
    BY DEF WidgetInv, WidgetTypes
  <2> QED
    BY <2>1, <2>2 DEF WidgetInv, BusyReads, UnsettledIsActive, Unsettled, Messages
<1> QED
  BY <1>1 DEF WidgetInv, OfThisChat, WidgetSettles

(* Whatever was sent, cancelled, refused, broken off or left behind by a new *)
(* chat: once no stream is read any more, the composer of the widget is free *)
(* and every answer it shows has come to its end, and nothing of an earlier  *)
(* chat is shown (sendMessage, cancelGeneration, startNewChat).              *)
THEOREM WidgetAlwaysSettles == WidgetSpec => []WidgetSettles
<1> QED
  BY WidgetInitially, WidgetKept, NothingReadIsSettled, PTL DEF WidgetSpec

(* The leases stay exact under the widget's requests, its cancel calls and   *)
(* its streams left behind (visitor_stream_lease under use-widget-chat.ts).  *)
THEOREM LeasesAreExactUnderWidget == WidgetSpec => []LeasesExact
<1>1. LeaseInv => LeasesExact
  BY DEF LeaseInv
<1> QED
  BY <1>1, WidgetInitially, WidgetKept, PTL DEF WidgetSpec

(* What a search returns is right under the widget as well: its steps are    *)
(* requests' steps, or leave the search and the index alone.                 *)
LEMMA SearchKeptUnderWidget ==
  SearchInv /\ [WidgetNext]_<<visitorVars, widgetVars>> => SearchInv'
<1> SUFFICES ASSUME SearchInv, [WidgetNext]_<<visitorVars, widgetVars>> PROVE SearchInv'
  OBVIOUS
<1>1. \/ UNCHANGED visitorVars \/ Surroundings \/ \E r \in Requests : RequestStep(r)
      \/ UNCHANGED <<chatVars, indexVars, searchVars>>
  <2>1. CASE AskCancel \/ StartNewChat \/ DismissError
    BY <2>1 DEF AskCancel, StartNewChat, DismissError
  <2>2. CASE \E call \in calls : CallEnds(call)
    BY <2>2 DEF CallEnds, visitorVars
  <2>3. ASSUME NEW r \in WidgetRequests, Send(r) \/ Preflight(r) \/ ReadStep(r)
        PROVE  UNCHANGED visitorVars
    BY <2>3 DEF Send, Preflight, ReadStep, StreamEnds, LoopLeft, StreamFails, Closed, SessionReady,
                GenerationStart, Delta, Finished, Applies
  <2>4. ASSUME NEW r \in WidgetRequests, Serve(r)
        PROVE  UNCHANGED visitorVars \/ RequestStep(r)
    BY <2>4 DEF Serve, RequestStep
  <2>5. WidgetRequests \subseteq Requests
    BY WidgetAssumption
  <2> QED
    BY <2>1, <2>2, <2>3, <2>4, <2>5 DEF WidgetNext, WidgetStep
<1> QED
  BY <1>1, SearchKept DEF visitorVars

(* Whatever the widget does besides, what a search returns comes from its    *)
(* scope (the retrieval of a turn, under use-widget-chat.ts).                *)
THEOREM HitsComeFromTheScopeUnderWidget == WidgetSpec => []HitsFromScope
<1>1. SearchInv => HitsFromScope
  BY DEF SearchInv
<1>2. WidgetInit => Init
  BY DEF WidgetInit
<1> QED
  BY <1>1, <1>2, SearchInitially, SearchKeptUnderWidget, PTL DEF WidgetSpec

(* And in the order of its rankings (_rrf_merge, under use-widget-chat.ts).  *)
THEOREM BestHitsComeFirstUnderWidget == WidgetSpec => []BestFirst
<1>1. SearchInv => BestFirst
  BY DEF SearchInv
<1>2. WidgetInit => Init
  BY DEF WidgetInit
<1> QED
  BY <1>1, <1>2, SearchInitially, SearchKeptUnderWidget, PTL DEF WidgetSpec
=============================================================================
