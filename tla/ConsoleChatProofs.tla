--------------------------- MODULE ConsoleChatProofs ---------------------------
(***************************************************************************)
(* Proofs about the console's chat store over any number of turns, any     *)
(* past and any lag: what a tab shows is what the session stores, and the  *)
(* text that streams is shown in full.  A tab only sends the session the   *)
(* requests it serves, so what is proved of the session holds under a tab  *)
(* too.                                                                    *)
(***************************************************************************)
EXTENDS ConsoleChat, ChatSessionProofs

-----------------------------------------------------------------------------
(* A tab's steps are the session's. *)

LEMMA TabStepsAreTurnSteps == [ConsoleNext]_allVars => [Next]_vars
<1> SUFFICES ASSUME [ConsoleNext]_allVars PROVE [Next]_vars
  OBVIOUS
<1> USE DEF Next, RequestStep
<1>1. ASSUME NEW t \in Turns, Send(t) PROVE [Next]_vars
  BY <1>1 DEF Send
<1>2. ASSUME NEW t \in Turns, Abort(t) PROVE [Next]_vars
  BY <1>2 DEF Abort
<1>3. ASSUME NEW t \in Turns, AskCancel(t) PROVE [Next]_vars
  BY <1>3 DEF AskCancel
<1>4. ASSUME NEW t \in Turns, CancelAnswered(t) PROVE [Next]_vars
  BY <1>4 DEF CancelAnswered
<1>5. ASSUME NEW t \in Turns, ConsumerStep(t) PROVE [Next]_vars
  BY <1>5 DEF ConsumerStep, TakeReady, TakeAside, TakeStart, TakeDelta, TakeCancelled, TakeDone,
    TakeError, Takes, ConnectionLost, Closes, RefreshReads, RefreshEnds
<1>6. ASSUME NEW t \in Turns, ServerTurn(t) \/ NetworkDrops(t) PROVE [Next]_vars
  BY <1>6 DEF ServerTurn, NetworkDrops
<1>7. CASE LoadReads \/ LoadShows \/ AskDelete \/ \E m \in view : AskRestart(m)
  BY <1>7 DEF LoadReads, LoadShows, AskDelete, AskRestart
<1>8. CASE RestartReverts
  BY <1>8 DEF RestartReverts
<1>9. CASE SessionDeleted \/ Restart
  BY <1>9 DEF SessionDeleted
<1>10. CASE UNCHANGED allVars
  BY <1>10 DEF allVars
<1> QED
  BY <1>1, <1>2, <1>3, <1>4, <1>5, <1>6, <1>7, <1>8, <1>9, <1>10 DEF ConsoleNext, UserStep

(* What a tab does to the session is what the session's turns allow, so each *)
(* theorem about the turns is one about them under a tab.                    *)
THEOREM TabsDriveTheSession == ConsoleSpec => Spec
<1> QED
  BY TabStepsAreTurnSteps, PTL DEF ConsoleSpec, Spec

-----------------------------------------------------------------------------
(* The turns at the server, as a tab relies on them. *)

(* A delta is one chunk, a cancelled event one or none. *)
ValuesOfEvents ==
  \A t \in Turns : \A i \in DOMAIN sent[t] :
    /\ sent[t][i].event = "delta" => sent[t][i].value = 1
    /\ sent[t][i].event = "cancelled" => sent[t][i].value \in {0, 1}

(* A stream starts once, before its closing event, and not while it opens. *)
StartsOnce(t) ==
  /\ pc[t] \in {"idle", "broken"} \cup Opening => ~ Has(t, {"generation_start"})
  /\ \A i \in DOMAIN sent[t] :
       /\ sent[t][i].event = "generation_start" =>
            \A j \in 1..(i - 1) : sent[t][j].event # "generation_start"
       /\ sent[t][i].event \in Closing =>
            \E j \in 1..(i - 1) : sent[t][j].event = "generation_start"

(* The closing event says how the turn ended. *)
Closers == {<<"message_done", "done">>, <<"cancelled", "cancelled">>, <<"error", "error">>}
EndsAsTold(t) ==
  /\ \A i \in DOMAIN sent[t] : sent[t][i].event \in Closing =>
       connected[t] /\ <<sent[t][i].event, pc[t]>> \in Closers
  /\ connected[t] /\ pc[t] \in {"done", "cancelled", "error"} => Has(t, Closing)

(* A turn has one question, of its own size, and one answer; none when it    *)
(* broke.                                                                    *)
RowsOfTurns ==
  /\ \A q, r \in rows : q.turn = r.turn /\ q.kind = r.kind /\ q.kind # "summary" => q = r
  /\ \A r \in rows : r.kind = "user" => r.size = UserSize[r.turn]
  /\ \A r \in rows : pc[r.turn] # "broken"

ServerInv ==
  /\ ValuesOfEvents /\ RowsOfTurns
  /\ \A t \in Turns : StartsOnce(t) /\ EndsAsTold(t)

-----------------------------------------------------------------------------
(* What a tab holds. *)

MessageType == [turn : Turns, kind : {"user", "assistant"}, temp : BOOLEAN, seq : Nat, size : Nat]
Timelines   == {S \in SUBSET MessageType : IsFiniteSet(S) /\ \A m, n \in S : Uid(m) = Uid(n) => m = n}
Pages       == {S \in Timelines : \A m \in S : ~ m.temp}

ReadsTyped == read \in [Turns -> Nat] /\ \A t \in Turns : read[t] <= Len(sent[t])

LoadState == [phase : {"none", "asked", "read", "failed"}, page : Pages]

ShownTyped ==
  /\ key \in {"draft", "temp", "real"} /\ view \in Timelines
  /\ stream \in StreamState \cup {None} /\ restart \in RestartState \cup {None}
  /\ consumer \in [Turns -> {"none", "reading", "refreshing", "closed"}]
  /\ load \in LoadState
  /\ page \in [Turns -> Pages \cup {None}]
  /\ aborted \in SUBSET Turns /\ unsure \in SUBSET Turns

TabTyped == ReadsTyped /\ ShownTyped

Closed(t)  == \E i \in 1..read[t] : sent[t][i].event \in Closing
Deltas(t)  == Cardinality({i \in 1..read[t] : sent[t][i].event = "delta"})
Listens(t) == consumer[t] = "reading" /\ t \notin aborted /\ ~ Closed(t)
Active(t)  == consumer[t] = "refreshing" \/ Listens(t)

(* Of a turn that was not asked nothing is at hand. *)
NothingEarly ==
  /\ \A t \in Turns : pc[t] = "idle" => consumer[t] = "none"
  /\ \A t \in Turns : consumer[t] = "none" => read[t] = 0 /\ t \notin aborted
  /\ \A m \in view : pc[m.turn] # "idle"
  /\ \A m \in load.page : pc[m.turn] # "idle"
  /\ \A u \in Turns : page[u] # None => \A m \in page[u] : pc[m.turn] # "idle"

(* The stream state is that of the turn the tab is active for, and knows the *)
(* generation once it started; a restart waits for none.                     *)
OneStream ==
  /\ \A t \in Turns : Active(t) <=> StreamsTurn(t)
  /\ \A t \in Turns : consumer[t] = "refreshing" => Started(t)
  /\ \A t \in Turns : Active(t) /\ Started(t) => stream.generation
  /\ \A t \in Turns : page[t] # None => consumer[t] = "refreshing"
  /\ restart # None => ~ Streaming

(* The text of the stream is shown, or its optimistic messages. *)
TextInv ==
  \A t \in Turns : StreamsTurn(t) =>
    IF stream.generation
      THEN \E m \in view : m.turn = t /\ m.kind = "assistant" /\ ~ m.temp /\ m.size = Deltas(t)
      ELSE \E m \in view : m.turn = t /\ m.temp

(* What a set of messages shows of a turn. *)
Part(S, t)      == {<<m.kind, m.temp, m.size>> : m \in {n \in S : n.turn = t}}
Optimistic(t)   == {<<"user", TRUE, UserSize[t]>>, <<"assistant", TRUE, 0>>}
Answered(t, n)  == {<<"user", FALSE, UserSize[t]>>, <<"assistant", FALSE, n>>}
StoredInFull(t) == /\ \E r \in rows : r.turn = t /\ r.kind = "user"
                   /\ \E r \in rows : r.turn = t /\ r.kind = "assistant"
NotReverted     == restart # None => restart.phase = "revert"

(* A turn of which the tab is sure: it runs only while the tab is active for *)
(* it, and its two rows stay while it does; what is shown of it is, while it *)
(* is listened to, its text so far, and once it settled what is stored of it, *)
(* which is also what every page holds of it.                                *)
Settled(t)  == pc[t] \in {"done", "cancelled", "error", "broken"}
Attended(t) == pc[t] \in Running => Active(t)
KeptInFull(t) ==
  Active(t) /\ (pc[t] \in AfterAsk \/ Has(t, {"generation_start"})) => StoredInFull(t)
ShownLive(t) ==
  Listens(t) => Part(view, t) = IF Started(t) THEN Answered(t, Deltas(t)) ELSE Optimistic(t)
ShownBroken(t) ==
  consumer[t] = "refreshing" =>
    /\ Has(t, {"generation_start"})
    /\ \A m \in view : m.turn = t => ~ m.temp
    /\ page[t] # None => pc[t] \notin Running
PagesAgree(t) == \A u \in Turns : page[u] # None => Part(page[u], t) = Part(StoredPage, t)
LoadAgrees(t) == NotReverted /\ load.phase = "read" => Part(load.page, t) = Part(StoredPage, t)
ShownSettled(t) ==
  NotReverted /\ load.phase = "none" /\ ~ Active(t) /\ Settled(t) =>
    Part(view, t) = Part(StoredPage, t)

SureTurn(t) ==
  /\ Attended(t) /\ KeptInFull(t) /\ ShownLive(t) /\ ShownBroken(t)
  /\ PagesAgree(t) /\ LoadAgrees(t) /\ ShownSettled(t)

ViewInv ==
  /\ session = "deleted" => key = "draft"
  /\ Streaming /\ load.phase # "none" => unsure = Turns
  /\ session # "deleted" => \A t \in Turns \ unsure : SureTurn(t)

-----------------------------------------------------------------------------
(* The turns at the server. *)

LEMMA OpeningFirst ==
  ASSUME TypeInv, NEW t \in Turns, TurnStep(t), pc'[t] \in Opening \cup {"broken"}
  PROVE  pc[t] \in Opening /\ (pc'[t] = "broken" => pc[t] \in {"open", "append"} /\ rows' = rows)
<1> USE DEF TypeInv, TurnsTyped, Goto
<1>1. CASE OpenFails(t) \/ AppendFails(t)
  BY <1>1 DEF OpenFails, AppendFails, Breaks, EndTurn, dbVars, Opening
<1>2. CASE OpenSession(t) \/ AppendReads(t) \/ AppendInserts(t) \/ TitleEnds(t) \/ Register(t)
  BY <1>2 DEF OpenSession, AppendReads, AppendInserts, TitleEnds, Register, Opening
<1>3. ~ TurnRaises(t)
  BY DEF TurnRaises, EndTurn, Opening
<1>4. ~ ContextStep(t)
  BY <1>3 DEF ContextStep, LoadSummary, LoadRecent, SummaryReads, SummaryInserts, Reload, Retrieve,
    CancelledInContext, StartStream, AfterContext, EndTurn, Opening
<1>5. ~ AnswerStep(t)
  <2>1. ~ Chunk(t) /\ ~ StreamEnds(t)
    BY DEF Chunk, StreamEnds, Opening
  <2>2. ~ StoreCancelled(t) /\ ~ StoreAnswer(t) /\ ~ StoreFailed(t) /\ ~ StoreInterrupted(t)
    BY EndTurnEnds DEF StoreCancelled, StoreAnswer, StoreAndEnd, StoreFailed, StoreInterrupted, Opening
  <2>3. ~ Interrupted(t)
    BY DEF Interrupted, EndTurn, Opening
  <2> QED
    BY <1>3, <2>1, <2>2, <2>3 DEF AnswerStep, Fails
<1> QED
  BY <1>1, <1>2, <1>4, <1>5 DEF TurnStep, OpeningStep

LEMMA ErrorsAreTold ==
  ASSUME TypeInv, NEW t \in Turns, TurnStep(t), pc'[t] = "error", connected[t]
  PROVE  Says(t, Event("error", 0))
<1> USE DEF TypeInv, TurnsTyped, Goto
<1>1. ~ OpeningStep(t)
  BY DEF OpeningStep, OpenFails, AppendFails, Breaks, EndTurn, OpenSession, AppendReads,
    AppendInserts, TitleEnds, Register
<1>2. Yield(t, <<Event("error", 0)>>)
  <2>1. CASE TurnRaises(t)
    BY <2>1 DEF TurnRaises
  <2>2. CASE ContextStep(t) /\ ~ TurnRaises(t)
    BY <2>2 DEF ContextStep, LoadSummary, LoadRecent, SummaryReads, SummaryInserts, Reload, Retrieve,
      CancelledInContext, StartStream, AfterContext, EndTurn
  <2>3. CASE AnswerStep(t) /\ ~ TurnRaises(t)
    <3>1. ~ Chunk(t) /\ ~ StreamEnds(t) /\ ~ Interrupted(t)
      BY DEF Chunk, StreamEnds, Interrupted, EndTurn
    <3>2. ~ StoreCancelled(t) /\ ~ StoreAnswer(t) /\ ~ StoreInterrupted(t)
      BY EndTurnEnds DEF StoreCancelled, StoreAnswer, StoreAndEnd, StoreInterrupted
    <3> QED
      BY <2>3, <3>1, <3>2 DEF AnswerStep, Fails, StoreFailed
  <2> QED
    BY <1>1, <2>1, <2>2, <2>3 DEF TurnStep
<1> QED
  BY <1>2, YieldSays, EventsTyped

(* What one event says of where its turn was and is. *)
Told1(t, e) ==
  /\ Says(t, e)
  /\ e.event = "generation_start" => pc[t] = "register" /\ pc'[t] = "load"
  /\ e.event = "delta" => e.value = 1
  /\ e.event = "cancelled" => e.value \in {0, 1}
  /\ e.event \in Closing => pc[t] \in Generating /\ <<e.event, pc'[t]>> \in Closers

LEMMA TurnSays ==
  ASSUME TypeInv, NEW t \in Turns, TurnStep(t)
  PROVE  sent'[t] = sent[t] \/ \E e \in EventType : Told1(t, e)
<1>1. Tells(t)
  BY TurnTells
<1>2. CASE EndsQuietly(t) \/ MovesQuietly(t)
  BY <1>2 DEF EndsQuietly, MovesQuietly
<1>3. CASE TellsStart(t)
  BY <1>3 DEF TellsStart, Told1, Closing
<1>4. CASE TellsChunk(t)
  BY <1>4, EventsTyped DEF TellsChunk, Told1, Closing, Event
<1>5. CASE TellsEnd(t)
  BY <1>5 DEF TellsEnd, Told1, Closing, Closers, Event, Says
<1> QED
  BY <1>1, <1>2, <1>3, <1>4, <1>5 DEF Tells

LEMMA TurnKeepsStarts ==
  ASSUME TypeInv, NEW t \in Turns, TurnStep(t), TurnStream(t), StartsOnce(t), EndsAsTold(t)
  PROVE  StartsOnce(t)' /\ EndsAsTold(t)'
<1>1. /\ pc[t] \in Running /\ connected'[t] = connected[t] /\ ~ Has(t, Closing)
      /\ sent[t] \in Seq(EventType) /\ (pc'[t] \in Opening \cup {"broken"} => pc[t] \in Opening)
      /\ pc'[t] # "idle"
  BY PlaceMoves, TurnTells, OpeningFirst DEF TurnStream, TypeInv, StreamsTyped
<1>2. pc'[t] \in {"idle", "broken"} \cup Opening => ~ Has(t, {"generation_start"})
  BY <1>1 DEF StartsOnce
<1>3. CASE sent'[t] = sent[t]
  <2>1. ~ (connected[t] /\ pc'[t] \in {"done", "cancelled", "error"})
    <3>1. sent'[t] = sent[t] \o <<Event("error", 0)>> => FALSE
      <4>1. \A e \in EventType : Len(sent[t] \o <<e>>) = Len(sent[t]) + 1 /\ Len(sent[t]) \in Nat
        BY <1>1, OneMoreEvent
      <4>2. \A n \in Nat : n # n + 1
        OBVIOUS
      <4> QED
        BY <1>3, <4>1, <4>2, EventsTyped
    <3>2. ~ (connected[t] /\ pc'[t] = "error")
      BY <3>1, ErrorsAreTold DEF Says
    <3>3. Tells(t) /\ \A e \in EventType : sent[t] \o <<e>> # sent[t]
      <4>1. \A e \in EventType : Len(sent[t] \o <<e>>) = Len(sent[t]) + 1 /\ Len(sent[t]) \in Nat
        BY <1>1, OneMoreEvent
      <4>2. \A n \in Nat : n # n + 1
        OBVIOUS
      <4> QED
        BY <4>1, <4>2, TurnTells
    <3>4. ~ TellsStart(t) /\ ~ TellsChunk(t) /\ ~ TellsEnd(t)
      BY <1>3, <3>3 DEF TellsStart, TellsChunk, TellsEnd, Says
    <3> QED
      BY <3>2, <3>3, <3>4 DEF Tells, EndsQuietly, MovesQuietly, Running, Opening, Generating
  <2>2. \A i \in DOMAIN sent[t] : sent[t][i].event \notin Closing
    BY <1>1 DEF Has
  <2> QED
    BY <1>1, <1>2, <1>3, <2>1, <2>2, QuietStream DEF StartsOnce, EndsAsTold, Closing
<1>4. ASSUME NEW e \in EventType, Told1(t, e) PROVE StartsOnce(t)' /\ EndsAsTold(t)'
  <2> DEFINE s == sent[t]
             z == sent'[t]
  <2>1. PICK n \in Nat : n = Len(s)
    BY <1>1
  <2>2. /\ DOMAIN s = 1..n /\ DOMAIN z = 1..(n + 1) /\ z[n + 1] = e
        /\ \A i \in 1..n : z[i] = s[i]
    BY <1>1, <1>4, <2>1, OneMoreEvent DEF Told1, Says
  <2>3. /\ \A i \in 1..(n + 1) : i = n + 1 \/ i \in 1..n
        /\ \A i \in 1..n : i \in 1..(n + 1)
        /\ n + 1 \in 1..(n + 1) /\ (n + 1) - 1 = n
        /\ \A i \in 1..n : \A j \in 1..(i - 1) : j \in 1..n
    OBVIOUS
  <2> HIDE DEF s, z
  <2>4. Has(t, {"generation_start"})' <=> Has(t, {"generation_start"}) \/ e.event = "generation_start"
    BY <1>4, HasMoves DEF Told1, Says
  <2>5. Has(t, Closing)' <=> e.event \in Closing
    BY <1>1, <1>4, <2>2, <2>3 DEF Has, s, z, Closing
  <2>6. e.event = "generation_start" => ~ Has(t, {"generation_start"})
    BY <1>4 DEF Told1, StartsOnce, Opening
  <2>7. e.event \in Closing => Has(t, {"generation_start"})
    BY <1>4 DEF Told1, Says, TurnStream
  <2>8. pc'[t] \in {"idle", "broken"} \cup Opening => e.event # "generation_start"
    BY <1>4 DEF Told1, Opening
  <2>9. \A i \in 1..(n + 1) :
          /\ z[i].event = "generation_start" => \A j \in 1..(i - 1) : z[j].event # "generation_start"
          /\ z[i].event \in Closing => \E j \in 1..(i - 1) : z[j].event = "generation_start"
    <3> SUFFICES ASSUME NEW i \in 1..(n + 1)
                 PROVE  /\ z[i].event = "generation_start" =>
                             \A j \in 1..(i - 1) : z[j].event # "generation_start"
                        /\ z[i].event \in Closing =>
                             \E j \in 1..(i - 1) : z[j].event = "generation_start"
      OBVIOUS
    <3>1. CASE i \in 1..n
      BY <2>2, <2>3, <3>1 DEF StartsOnce, s
    <3>2. CASE i = n + 1
      BY <2>2, <2>3, <2>6, <2>7, <3>2 DEF Has, s
    <3> QED
      BY <2>3, <3>1, <3>2
  <2>10. StartsOnce(t)'
    BY <1>2, <2>2, <2>4, <2>8, <2>9 DEF StartsOnce, z, Closing
  <2>11. e.event \in Closing => connected'[t] /\ <<e.event, pc'[t]>> \in Closers
    BY <1>1, <1>4 DEF Told1, Says
  <2>12. \A i \in 1..(n + 1) : z[i].event \in Closing => i = n + 1
    BY <1>1, <2>2, <2>3 DEF Has, s
  <2>13. connected'[t] /\ pc'[t] \in {"done", "cancelled", "error"} => e.event \in Closing
    <3>1. ASSUME connected[t], pc'[t] = "error" PROVE e.event \in Closing
      <4>1. Says(t, Event("error", 0))
        BY <3>1, ErrorsAreTold
      <4>2. sent'[t][Len(sent'[t])] = e /\ sent'[t][Len(sent'[t])] = Event("error", 0)
        BY <1>4, <4>1, LastEvent, EventsTyped DEF Says, Told1
      <4> QED
        BY <4>2 DEF Event, Closing
    <3>2. ASSUME connected[t], pc'[t] \in {"done", "cancelled"} PROVE e.event \in Closing
      <4>1. Tells(t)
        BY TurnTells
      <4>2. TellsEnd(t)
        BY <3>2, <4>1 DEF Tells, EndsQuietly, MovesQuietly, TellsStart, TellsChunk, Running, Opening,
          Generating
      <4>3. PICK f \in EventType : Says(t, f) /\ f.event \in Closing
        BY <4>2, EventsTyped DEF TellsEnd, Says, Event, Closing
      <4>4. sent'[t][Len(sent'[t])] = e /\ sent'[t][Len(sent'[t])] = f
        BY <1>4, <4>3, LastEvent DEF Says, Told1
      <4> QED
        BY <4>3, <4>4
    <3> QED
      BY <1>1, <3>1, <3>2
  <2>14. EndsAsTold(t)'
    BY <2>2, <2>5, <2>11, <2>12, <2>13 DEF EndsAsTold, z, Closing
  <2> QED
    BY <2>10, <2>14
<1> QED
  BY <1>3, <1>4, TurnSays

LEMMA OthersKeepStarts ==
  ASSUME NEW u, StartsOnce(u), EndsAsTold(u), pc'[u] = pc[u], sent'[u] = sent[u],
         connected'[u] = connected[u]
  PROVE  StartsOnce(u)' /\ EndsAsTold(u)'
  BY QuietStream DEF StartsOnce, EndsAsTold, Closing

LEMMA RequestKeepsStarts ==
  ASSUME TypeInv, StreamInv, RequestStep, NEW u \in Turns, StartsOnce(u), EndsAsTold(u)
  PROVE  StartsOnce(u)' /\ EndsAsTold(u)' /\ sent' = sent
<1>1. TurnStream(u) /\ sent' = sent
  BY DEF StreamInv, RequestStep, Request, Cancel, ClientLeaves, Revert, DeleteSession, Restart, netVars
<1>2. /\ pc'[u] = pc[u] \/ (pc[u] \in Running /\ pc'[u] = "gone") \/ (pc[u] = "idle" /\ pc'[u] = "open")
      /\ connected'[u] = connected[u] \/ pc[u] \in Running \cup {"idle"}
      /\ pc'[u] = "open" => pc[u] \in {"idle", "open"}
  <2>1. pc'[u] = pc[u] \/ (pc[u] \in Running /\ pc'[u] = "gone") \/ (pc[u] = "idle" /\ pc'[u] = "open")
    BY RequestMoves
  <2>2. connected'[u] = connected[u] \/ pc[u] \in Running \cup {"idle"}
    <3>1. ASSUME NEW t \in Turns, NEW new \in BOOLEAN, Request(t, new)
          PROVE  connected'[u] = connected[u] \/ pc[u] = "idle"
      BY <3>1 DEF Request, TypeInv, StreamsTyped
    <3>2. ASSUME NEW t \in Turns, Cancel(t) \/ ClientLeaves(t)
          PROVE  connected'[u] = connected[u] \/ pc[u] \in Running
      BY <3>2 DEF Cancel, ClientLeaves, netVars, TypeInv, StreamsTyped
    <3>3. (\E r \in rows : Revert(r)) \/ DeleteSession => connected' = connected
      BY DEF Revert, DeleteSession, netVars
    <3>4. CASE Restart
      BY <3>4 DEF Restart, TypeInv, StreamsTyped
    <3> QED
      BY <3>1, <3>2, <3>3, <3>4 DEF RequestStep
  <2> QED
    BY <2>1, <2>2 DEF Running, Opening, Generating
<1>3. pc[u] \in Running \cup {"idle"} =>
        ~ Has(u, Closing) /\ pc[u] \notin {"done", "cancelled", "error"}
        /\ pc'[u] \notin {"done", "cancelled", "error"}
  <2>1. pc[u] = "idle" => ~ Has(u, Closing)
    BY <1>1 DEF TurnStream, Has
  <2> QED
    BY <1>1, <1>2, <2>1 DEF TurnStream, Running, Opening, Generating
<1>4. EndsAsTold(u)'
  <2>1. CASE pc[u] \in Running \cup {"idle"}
    <3>1. \A i \in DOMAIN sent[u] : sent[u][i].event \notin Closing
      BY <1>3, <2>1 DEF Has
    <3> QED
      BY <1>1, <1>3, <2>1, <3>1 DEF EndsAsTold, Closing
  <2>2. CASE pc[u] \notin Running \cup {"idle"}
    BY <1>1, <1>2, <2>2, QuietStream DEF EndsAsTold, Closing
  <2> QED
    BY <2>1, <2>2
<1>5. StartsOnce(u)'
  <2>1. pc'[u] \in {"idle", "broken"} \cup Opening => pc[u] \in {"idle", "broken"} \cup Opening
    BY <1>2 DEF Opening
  <2> QED
    BY <1>1, <2>1, QuietStream DEF StartsOnce, Closing
<1> QED
  BY <1>1, <1>4, <1>5

LEMMA StartsKept ==
  TypeInv /\ StreamInv /\ (\A t \in Turns : StartsOnce(t) /\ EndsAsTold(t)) /\ [Next]_vars
  => (\A t \in Turns : StartsOnce(t) /\ EndsAsTold(t))'
<1> SUFFICES ASSUME TypeInv, StreamInv, \A t \in Turns : StartsOnce(t) /\ EndsAsTold(t), [Next]_vars,
                    NEW u \in Turns
             PROVE  StartsOnce(u)' /\ EndsAsTold(u)'
  OBVIOUS
<1>1. ASSUME NEW t \in Turns, TurnStep(t) PROVE StartsOnce(u)' /\ EndsAsTold(u)'
  <2>1. CASE u = t
    BY <1>1, <2>1, TurnKeepsStarts DEF StreamInv
  <2>2. CASE u # t
    BY <1>1, <2>2, TurnIsOwn, OthersKeepStarts DEF OthersKept
  <2> QED
    BY <2>1, <2>2
<1>2. CASE UNCHANGED vars
  BY <1>2, OthersKeepStarts DEF vars
<1> QED
  BY <1>1, <1>2, RequestKeepsStarts DEF Next

LEMMA ValuesKept == TypeInv /\ ValuesOfEvents /\ [Next]_vars => ValuesOfEvents'
<1> SUFFICES ASSUME TypeInv, ValuesOfEvents, [Next]_vars PROVE ValuesOfEvents'
  OBVIOUS
<1>1. CASE sent' = sent
  BY <1>1 DEF ValuesOfEvents
<1>2. ASSUME NEW t \in Turns, TurnStep(t) PROVE ValuesOfEvents'
  <2> SUFFICES ASSUME NEW u \in Turns, NEW i \in DOMAIN sent'[u]
               PROVE  /\ sent'[u][i].event = "delta" => sent'[u][i].value = 1
                      /\ sent'[u][i].event = "cancelled" => sent'[u][i].value \in {0, 1}
    BY DEF ValuesOfEvents
  <2>1. CASE sent'[u] = sent[u]
    BY <2>1 DEF ValuesOfEvents
  <2>2. CASE sent'[u] # sent[u]
    <3>1. u = t
      BY <1>2, <2>2, TurnIsOwn DEF OthersKept
    <3>2. PICK e \in EventType : Told1(u, e)
      BY <1>2, <2>2, <3>1, TurnSays
    <3>3. sent[u] \in Seq(EventType) /\ sent'[u] = sent[u] \o <<e>>
      BY <3>2 DEF Told1, Says, TypeInv, StreamsTyped
    <3>4. PICK n \in Nat : n = Len(sent[u])
      BY <3>3
    <3>5. /\ DOMAIN sent[u] = 1..n /\ DOMAIN sent'[u] = 1..(n + 1) /\ sent'[u][n + 1] = e
          /\ \A j \in 1..n : sent'[u][j] = sent[u][j]
      BY <3>3, <3>4, OneMoreEvent
    <3>6. \A j \in 1..(n + 1) : j = n + 1 \/ j \in 1..n
      OBVIOUS
    <3>7. CASE i = n + 1
      BY <3>2, <3>5, <3>7 DEF Told1
    <3>8. CASE i \in 1..n
      BY <3>5, <3>8 DEF ValuesOfEvents
    <3> QED
      BY <3>5, <3>6, <3>7, <3>8
  <2> QED
    BY <2>1, <2>2
<1>3. RequestStep \/ UNCHANGED vars => sent' = sent
  BY DEF RequestStep, Request, Cancel, ClientLeaves, Revert, DeleteSession, Restart, netVars, vars
<1> QED
  BY <1>1, <1>2, <1>3 DEF Next

LEMMA TurnKeepsRows ==
  ASSUME TypeInv, RowsHaveTurns, RowsOfTurns, NEW t \in Turns, TurnStep(t)
  PROVE  RowsOfTurns'
<1>1. \A r \in rows : r.turn \in Turns /\ r.kind \in {"user", "assistant", "summary"}
  BY DEF TypeInv, RowsTyped, RowType
<1>2. \A r \in rows : pc'[r.turn] # "broken"
  <2> SUFFICES ASSUME NEW r \in rows, pc'[r.turn] = "broken" PROVE FALSE
    OBVIOUS
  <2>1. CASE r.turn = t
    BY <1>1, <2>1, OpeningFirst DEF RowsHaveTurns
  <2>2. CASE r.turn # t
    BY <1>1, <2>2, TurnIsOwn DEF OthersKept, RowsOfTurns
  <2> QED
    BY <2>1, <2>2
<1>3. CASE AppendInserts(t)
  <2>1. PICK last \in Nat : rows' = rows \cup {Question(seqRead[t], t), Answer(last + 1, t, 0)}
    BY <1>3, MessagesInserted
  <2>2. \A r \in rows : r.turn # t
    BY <1>3 DEF AppendInserts, RowsHaveTurns
  <2>3. /\ Question(seqRead[t], t).turn = t /\ Question(seqRead[t], t).kind = "user"
        /\ Question(seqRead[t], t).size = UserSize[t]
        /\ Answer(last + 1, t, 0).turn = t /\ Answer(last + 1, t, 0).kind = "assistant"
    BY DEF Question, Answer, Row
  <2>4. pc'[t] # "broken"
    BY <1>3 DEF AppendInserts, Goto, TypeInv, TurnsTyped
  <2> QED
    BY <1>2, <2>1, <2>2, <2>3, <2>4 DEF RowsOfTurns
<1>4. CASE SummaryInserts(t)
  <2>1. rows' = rows \cup {NewSummary(t)} /\ pc'[t] = "reload" /\ pc[t] = "insert"
    BY <1>4 DEF SummaryInserts, Goto, TypeInv, TurnsTyped
  <2>2. NewSummary(t).turn = t /\ NewSummary(t).kind = "summary"
    BY <2>1, NewSummaryTyped
  <2> QED
    BY <1>2, <2>1, <2>2 DEF RowsOfTurns
<1>5. CASE Stores(t)
  <2> DEFINE S == AnswerOf(t)
  <2>1. \A r \in S : r.turn = t /\ r.kind = "assistant"
    BY DEF AnswerOf
  <2> HIDE DEF S
  <2>2. S \in SUBSET rows /\ produced[t] \in Nat /\ RowsTyped /\ rows' = Rewrite(S, produced[t])
    BY <1>5 DEF S, TypeInv, TurnsTyped, AnswerOf, Stores
  <2>3. \A q \in rows' : \E r \in rows :
          /\ SameRow(q, r)
          /\ IF r \in S THEN q = [r EXCEPT !.size = produced[t]] /\ q.size = produced[t] ELSE q = r
    BY <2>2, RewriteKeeps
  <2>4. ASSUME NEW q \in rows', NEW p \in rows', q.turn = p.turn, q.kind = p.kind, q.kind # "summary"
        PROVE  q = p
    <3>1. PICK r \in rows :
            /\ SameRow(q, r)
            /\ IF r \in S THEN q = [r EXCEPT !.size = produced[t]] /\ q.size = produced[t] ELSE q = r
      BY <2>3, Zenon
    <3>2. PICK s \in rows :
            /\ SameRow(p, s)
            /\ IF s \in S THEN p = [s EXCEPT !.size = produced[t]] /\ p.size = produced[t] ELSE p = s
      BY <2>3, Zenon
    <3>3. r = s
      BY <2>4, <3>1, <3>2 DEF SameRow, RowsOfTurns
    <3> QED
      BY <3>1, <3>2, <3>3
  <2>5. ASSUME NEW q \in rows', q.kind = "user" PROVE q.size = UserSize[q.turn]
    <3>1. PICK r \in rows :
            /\ SameRow(q, r)
            /\ IF r \in S THEN q = [r EXCEPT !.size = produced[t]] /\ q.size = produced[t] ELSE q = r
      BY <2>3, Zenon
    <3> QED
      BY <2>1, <2>5, <3>1 DEF SameRow, RowsOfTurns
  <2>6. ASSUME NEW q \in rows' PROVE pc'[q.turn] # "broken"
    <3>1. PICK r \in rows : SameRow(q, r)
      BY <2>3
    <3> QED
      BY <1>2, <3>1 DEF SameRow
  <2> QED
    BY <2>4, <2>5, <2>6 DEF RowsOfTurns
<1>6. CASE rows' = rows
  BY <1>2, <1>6 DEF RowsOfTurns
<1> QED
  BY <1>3, <1>4, <1>5, <1>6, RowsOfTurn

LEMMA RowsKept == TypeInv /\ RowsHaveTurns /\ RowsOfTurns /\ [Next]_vars => RowsOfTurns'
<1> SUFFICES ASSUME TypeInv, RowsHaveTurns, RowsOfTurns, [Next]_vars PROVE RowsOfTurns'
  OBVIOUS
<1>1. CASE UNCHANGED vars
  BY <1>1 DEF vars, RowsOfTurns
<1>2. CASE RequestStep
  <2>1. /\ rows' \subseteq rows
        /\ \A t \in Turns : pc'[t] = "broken" => pc[t] = "broken"
    BY <1>2, RequestMoves
  <2>2. \A r \in rows : r.turn \in Turns
    BY DEF TypeInv, RowsTyped, RowType
  <2> QED
    BY <2>1, <2>2 DEF RowsOfTurns
<1> QED
  BY <1>1, <1>2, TurnKeepsRows DEF Next

LEMMA InitRows == Init => RowsOfTurns
<1> SUFFICES ASSUME Init PROVE RowsOfTurns
  OBVIOUS
<1>1. PICK order \in {<<>>, Past}, sizes \in [PastTurns -> 0..MaxChunks] :
        rows = PastRows(order, sizes)
  BY DEF Init
<1>2. PICK n \in Nat : n = Len(order)
  <2>1. order \in Seq(Turns)
    BY <1>1, PastRowsShape
  <2> QED
    BY <2>1
<1> DEFINE q(i) == Question(2 * i - 1, order[i])
           a(i) == Answer(2 * i, order[i], sizes[order[i]])
<1>3. \A r \in rows : \E i \in 1..n : r = q(i) \/ r = a(i)
  BY <1>1, <1>2, PastRowsShape
<1>4. \A i \in 1..n : /\ q(i).turn = order[i] /\ q(i).kind = "user" /\ q(i).size = UserSize[order[i]]
                      /\ a(i).turn = order[i] /\ a(i).kind = "assistant"
  BY DEF Question, Answer, Row
<1> HIDE DEF q, a
<1>5. \A i, j \in 1..n : order[i] = order[j] => i = j
  <2>1. CASE order = <<>>
    BY <1>2, <2>1
  <2>2. CASE order = Past
    <3>1. DOMAIN Past = 1..n
      BY <1>2, <2>2, ChatSessionAssumption
    <3> QED
      BY <2>2, <3>1, ConsoleAssumption
  <2> QED
    BY <1>1, <2>1, <2>2
<1>6. ASSUME NEW r \in rows, NEW s \in rows, r.turn = s.turn, r.kind = s.kind PROVE r = s
  <2>1. PICK i \in 1..n : r = q(i) \/ r = a(i)
    BY <1>3
  <2>2. PICK j \in 1..n : s = q(j) \/ s = a(j)
    BY <1>3
  <2>3. i = j
    BY <1>4, <1>5, <1>6, <2>1, <2>2
  <2> QED
    BY <1>4, <1>6, <2>1, <2>2, <2>3
<1>7. \A r \in rows : r.kind = "user" => r.size = UserSize[r.turn]
  BY <1>3, <1>4
<1>8. \A r \in rows : pc[r.turn] # "broken"
  <2>1. \A r \in rows : r.turn \in Turns
    BY InitTyped DEF TypeInv, RowsTyped, RowType
  <2> QED
    BY <2>1 DEF Init
<1> QED
  BY <1>6, <1>7, <1>8 DEF RowsOfTurns

LEMMA InitServer == Init => ServerInv
<1> SUFFICES ASSUME Init PROVE ServerInv
  OBVIOUS
<1>1. \A t \in Turns : sent[t] = <<>> /\ connected[t] = FALSE
  BY DEF Init
<1>2. ValuesOfEvents /\ \A t \in Turns : StartsOnce(t) /\ EndsAsTold(t)
  BY <1>1 DEF ValuesOfEvents, StartsOnce, EndsAsTold, Has
<1> QED
  BY <1>2, InitRows DEF ServerInv

(* All that is used of the session. *)
SessionFacts == TypeInv /\ SessionInv /\ RowsHaveTurns /\ StreamInv /\ AnswerInv /\ ServerInv

LEMMA AnswerAlways == Spec => []AnswerInv
<1>1. TypeInv /\ StreamInv /\ FactsInv /\ AnswerInv /\ [Next]_vars => AnswerInv'
  BY AnswerInvKept DEF FactsInv
<1> QED
  BY <1>1, InitAnswer, StreamAlways, FactsAlways, PTL DEF Spec

LEMMA ServerAlways == Spec => []SessionFacts
<1>1. TypeInv /\ FactsInv /\ StreamInv /\ ServerInv /\ [Next]_vars => ServerInv'
  BY ValuesKept, RowsKept, StartsKept DEF ServerInv, FactsInv
<1>2. FactsInv => RowsHaveTurns
  BY DEF FactsInv
<1>3. TypeInv /\ SessionInv /\ FactsInv /\ StreamInv /\ AnswerInv /\ ServerInv => SessionFacts
  BY <1>2 DEF SessionFacts
<1> QED
  BY <1>1, <1>3, InitServer, StreamAlways, FactsAlways, AnswerAlways, PTL DEF Spec

LEMMA FactsUnderTabs == ConsoleSpec => []SessionFacts
  BY ServerAlways, TabsDriveTheSession, PTL

-----------------------------------------------------------------------------
(* Sets of messages. *)

LEMMA UidSame ==
  ASSUME NEW m, NEW n
  PROVE  Uid(m) = Uid(n) <=> m.turn = n.turn /\ m.kind = n.kind /\ m.temp = n.temp
  BY DEF Uid

LEMMA MergeKeeps ==
  ASSUME NEW A \in Timelines, NEW B \in Timelines
  PROVE  /\ Merge(A, B) \in Timelines
         /\ \A m : m \in Merge(A, B) <=> m \in A \/ (m \in B /\ \A n \in A : Uid(n) # Uid(m))
<1>1. \A m : m \in Merge(A, B) <=> m \in A \/ (m \in B /\ \A n \in A : Uid(n) # Uid(m))
  BY DEF Merge, Uids
<1>2. IsFiniteSet(Merge(A, B))
  <2>1. IsFiniteSet(A \cup B)
    BY FS_Union DEF Timelines
  <2>2. Merge(A, B) \subseteq A \cup B
    BY <1>1
  <2> QED
    BY <2>1, <2>2, FS_Subset
<1>3. \A m, n \in Merge(A, B) : Uid(m) = Uid(n) => m = n
  BY <1>1 DEF Timelines
<1>4. Merge(A, B) \in SUBSET MessageType
  BY <1>1 DEF Timelines
<1> QED
  BY <1>1, <1>2, <1>3, <1>4 DEF Timelines

LEMMA SubTimeline ==
  ASSUME NEW A \in Timelines, NEW B \in SUBSET A
  PROVE  B \in Timelines
<1>1. IsFiniteSet(B)
  BY FS_Subset DEF Timelines
<1> QED
  BY <1>1 DEF Timelines

LEMMA PairTimeline ==
  ASSUME NEW m \in MessageType, NEW n \in MessageType, m.kind # n.kind
  PROVE  {m, n} \in Timelines
<1>1. IsFiniteSet({m, n})
  BY PairFinite
<1> QED
  BY <1>1, UidSame DEF Timelines

LEMMA OneTimeline ==
  ASSUME NEW m \in MessageType
  PROVE  {m} \in Timelines
  BY FS_Singleton DEF Timelines

LEMMA MessageTyped ==
  ASSUME NEW t \in Turns, NEW kind \in {"user", "assistant"}, NEW temp \in BOOLEAN,
         NEW seq \in Nat, NEW size \in Nat
  PROVE  Message(t, kind, temp, seq, size) \in MessageType
  BY DEF Message, MessageType

(* What a page holds of the rows. *)
LEMMA PageRows ==
  ASSUME TypeInv
  PROVE  /\ \A r \in rows : r.kind # "summary" =>
              Message(r.turn, r.kind, FALSE, r.seq, r.size) \in StoredPage
         /\ \A m \in StoredPage : \E r \in rows :
              r.kind # "summary" /\ m = Message(r.turn, r.kind, FALSE, r.seq, r.size)
  BY DEF StoredPage, Summaries

LEMMA StoredPageTyped ==
  ASSUME TypeInv, RowsOfTurns
  PROVE  StoredPage \in Pages
<1> DEFINE shown == rows \ Summaries
           f == [r \in shown |-> Message(r.turn, r.kind, FALSE, r.seq, r.size)]
<1>1. \A r \in rows : /\ r.turn \in Turns /\ r.seq \in Nat /\ r.size \in Nat
                      /\ r.kind # "summary" => r.kind \in {"user", "assistant"}
  BY DEF TypeInv, RowsTyped, RowType
<1>2. StoredPage \in SUBSET MessageType
  <2> SUFFICES ASSUME NEW m \in StoredPage PROVE m \in MessageType
    OBVIOUS
  <2>1. PICK r \in rows : r.kind # "summary" /\ m = Message(r.turn, r.kind, FALSE, r.seq, r.size)
    BY PageRows
  <2> QED
    BY <1>1, <2>1 DEF Message, MessageType
<1>3. IsFiniteSet(StoredPage)
  <2>1. IsFiniteSet(shown)
    BY FS_Subset DEF TypeInv, RowsTyped
  <2>2. f \in Surjection(shown, StoredPage)
    BY DEF Surjection, StoredPage
  <2> QED
    BY <2>1, <2>2, FS_Surjection
<1>4. ASSUME NEW m \in StoredPage, NEW n \in StoredPage, Uid(m) = Uid(n) PROVE m = n
  <2>1. PICK r \in rows : r.kind # "summary" /\ m = Message(r.turn, r.kind, FALSE, r.seq, r.size)
    BY PageRows
  <2>2. PICK s \in rows : s.kind # "summary" /\ n = Message(s.turn, s.kind, FALSE, s.seq, s.size)
    BY PageRows
  <2>3. r.turn = s.turn /\ r.kind = s.kind
    BY <1>4, <2>1, <2>2 DEF Uid, Message
  <2>4. r = s
    BY <2>1, <2>3 DEF RowsOfTurns
  <2> QED
    BY <2>1, <2>2, <2>4
<1>5. \A m \in StoredPage : m.temp = FALSE
  BY PageRows DEF Message
<1> QED
  BY <1>2, <1>3, <1>4, <1>5 DEF Pages, Timelines

(* A chunk is added to the messages of one uid. *)
Grown(m, t, n) ==
  IF m.turn = t /\ m.kind = "assistant" /\ ~ m.temp THEN [m EXCEPT !.size = @ + n] ELSE m

LEMMA GrownIs ==
  ASSUME NEW m \in MessageType, NEW t, NEW n \in Nat
  PROVE  /\ Grown(m, t, n) \in MessageType /\ Uid(Grown(m, t, n)) = Uid(m)
         /\ Grown(m, t, n).turn = m.turn /\ Grown(m, t, n).kind = m.kind
         /\ Grown(m, t, n).temp = m.temp
         /\ m.turn = t /\ m.kind = "assistant" /\ ~ m.temp => Grown(m, t, n).size = m.size + n
         /\ ~ (m.turn = t /\ m.kind = "assistant" /\ ~ m.temp) => Grown(m, t, n) = m
  BY DEF Grown, MessageType, Uid

LEMMA GrownTimeline ==
  ASSUME NEW A \in Timelines, NEW t, NEW n \in Nat
  PROVE  {Grown(m, t, n) : m \in A} \in Timelines
<1> DEFINE B == {Grown(m, t, n) : m \in A}
           f == [m \in A |-> Grown(m, t, n)]
<1>1. A \in SUBSET MessageType /\ IsFiniteSet(A)
  BY DEF Timelines
<1>2. B \in SUBSET MessageType
  BY <1>1, GrownIs
<1>3. f \in Surjection(A, B)
  BY DEF Surjection
<1>4. IsFiniteSet(B)
  BY <1>1, <1>3, FS_Surjection
<1>5. \A m \in A : Uid(Grown(m, t, n)) = Uid(m)
  BY <1>1, GrownIs
<1>6. \A x, y \in B : Uid(x) = Uid(y) => x = y
  BY <1>5 DEF Timelines
<1> QED
  BY <1>2, <1>4, <1>6 DEF Timelines

(* No uid is on screen twice. *)
LEMMA UidsAreAsMany ==
  ASSUME NEW A \in Timelines
  PROVE  Cardinality(A) = Cardinality(Uids(A))
<1> DEFINE f == [m \in A |-> Uid(m)]
<1>1. f \in Surjection(A, Uids(A))
  BY DEF Surjection, Uids
<1>2. \A m, n \in A : f[m] = f[n] => m = n
  BY DEF Timelines
<1>3. f \in [A -> Uids(A)]
  BY DEF Uids
<1> HIDE DEF f
<1>4. f \in Injection(A, Uids(A))
  BY <1>2, <1>3 DEF Injection, IsInjective
<1>5. IsFiniteSet(A)
  BY DEF Timelines
<1> QED
  BY <1>1, <1>4, <1>5, FS_Surjection

-----------------------------------------------------------------------------
(* What a tab has read. *)

LEMMA SentGrows ==
  ASSUME TypeInv, [Next]_vars, NEW t \in Turns
  PROVE  \E n \in Nat :
           /\ n = Len(sent[t]) /\ DOMAIN sent[t] = 1..n /\ Len(sent'[t]) \in Nat
           /\ n <= Len(sent'[t]) /\ \A i \in 1..n : sent'[t][i] = sent[t][i]
<1>1. sent[t] \in Seq(EventType)
  BY DEF TypeInv, StreamsTyped
<1>2. PICK n \in Nat : n = Len(sent[t]) /\ DOMAIN sent[t] = 1..n
  BY <1>1
<1>3. CASE sent'[t] = sent[t]
  BY <1>2, <1>3
<1>4. ASSUME NEW e \in EventType, sent'[t] = sent[t] \o <<e>>
      PROVE  Len(sent'[t]) = n + 1 /\ \A i \in 1..n : sent'[t][i] = sent[t][i]
  BY <1>1, <1>2, <1>4, OneMoreEvent
<1>5. sent'[t] = sent[t] \/ \E e \in EventType : sent'[t] = sent[t] \o <<e>>
  <2>1. ASSUME NEW u \in Turns, TurnStep(u)
        PROVE  sent'[t] = sent[t] \/ \E e \in EventType : sent'[t] = sent[t] \o <<e>>
    <3>1. CASE u = t
      BY <2>1, <3>1, TurnSays DEF Told1, Says
    <3>2. CASE u # t
      BY <2>1, <3>2, TurnIsOwn DEF OthersKept
    <3> QED
      BY <3>1, <3>2
  <2>2. RequestStep \/ UNCHANGED vars => sent' = sent
    BY DEF RequestStep, Request, Cancel, ClientLeaves, Revert, DeleteSession, Restart, netVars, vars
  <2> QED
    BY <2>1, <2>2 DEF Next
<1>6. n + 1 \in Nat /\ n <= n + 1
  OBVIOUS
<1> QED
  BY <1>2, <1>3, <1>4, <1>5, <1>6

(* What was read stays as it was read. *)
LEMMA ReadStays ==
  ASSUME TypeInv, TabTyped, [Next]_vars, NEW t \in Turns, read'[t] = read[t]
  PROVE  /\ read'[t] <= Len(sent'[t])
         /\ Closed(t)' <=> Closed(t)
         /\ Started(t)' <=> Started(t)
         /\ Deltas(t)' = Deltas(t)
<1>1. PICK n \in Nat : /\ n = Len(sent[t]) /\ Len(sent'[t]) \in Nat /\ n <= Len(sent'[t])
                       /\ \A i \in 1..n : sent'[t][i] = sent[t][i]
  BY SentGrows
<1>2. PICK k \in Nat : k = read[t] /\ k <= n
  BY <1>1 DEF TabTyped, ReadsTyped
<1>3. \A i \in 1..k : i \in 1..n
  BY <1>2
<1>4. \A i \in 1..k : sent'[t][i] = sent[t][i]
  BY <1>1, <1>3
<1>5. k <= Len(sent'[t])
  BY <1>1, <1>2
<1>6. Closed(t)' <=> Closed(t)
  BY <1>2, <1>4 DEF Closed, Closing
<1>7. Started(t)' <=> Started(t)
  BY <1>2, <1>4 DEF Started
<1>8. {i \in 1..k : sent'[t][i].event = "delta"} = {i \in 1..k : sent[t][i].event = "delta"}
  BY <1>4
<1>9. Deltas(t)' = Deltas(t)
  BY <1>2, <1>8 DEF Deltas
<1> QED
  BY <1>2, <1>5, <1>6, <1>7, <1>9

(* The event a tab takes comes before any closing one. *)
TakesEvent(t, e) ==
  /\ e \in EventType /\ e.value = Value(t)
  /\ read[t] + 1 \in DOMAIN sent[t] /\ sent[t][read[t] + 1] = e
  /\ Listens(t) /\ read'[t] = read[t] + 1 /\ read'[t] <= Len(sent[t]) /\ read'[t] \in Nat
  /\ Closed(t)' <=> e.event \in Closing
  /\ Started(t)' <=> Started(t) \/ e.event = "generation_start"
  /\ Deltas(t)' = IF e.event = "delta" THEN Deltas(t) + 1 ELSE Deltas(t)
  /\ Deltas(t) \in Nat

LEMMA DeltasFinite ==
  ASSUME TabTyped, NEW t \in Turns
  PROVE  /\ IsFiniteSet({i \in 1..read[t] : sent[t][i].event = "delta"})
         /\ Deltas(t) \in Nat
<1>1. IsFiniteSet(1..read[t])
  BY FS_Interval DEF TabTyped, ReadsTyped
<1>2. IsFiniteSet({i \in 1..read[t] : sent[t][i].event = "delta"})
  BY <1>1, FS_Subset
<1> QED
  BY <1>2, FS_CardinalityType DEF Deltas

LEMMA TakenIs ==
  ASSUME TypeInv, StreamInv, TabTyped, NEW t \in Turns, NEW name, Takes(t, name)
  PROVE  \E e \in EventType : TakesEvent(t, e) /\ e.event = name
<1>1. sent[t] \in Seq(EventType) /\ sent' = sent
  BY DEF TypeInv, StreamsTyped, Takes, vars
<1>2. PICK n \in Nat : n = Len(sent[t]) /\ DOMAIN sent[t] = 1..n
  BY <1>1
<1>3. PICK k \in Nat : k = read[t] /\ k < n /\ read'[t] = k + 1
  BY <1>2 DEF TabTyped, ReadsTyped, Takes
<1>4. /\ k + 1 \in 1..n /\ k + 1 \in Nat /\ k + 1 <= n /\ (k + 1) - 1 = k
      /\ \A i \in 1..(k + 1) : i = k + 1 \/ i \in 1..k
      /\ \A i \in 1..k : i \in 1..(k + 1) /\ i \in 1..n /\ i # k + 1
      /\ k + 1 \in 1..(k + 1)
  BY <1>3
<1>5. PICK e \in EventType : e = sent[t][k + 1]
  BY <1>1, <1>2, <1>4
<1>6. e.event = name /\ e.value = Value(t)
  BY <1>3, <1>5 DEF Takes, Value
<1>7. \A i \in 1..k : sent[t][i].event \notin Closing
  BY <1>2, <1>4 DEF StreamInv, TurnStream, InOrder
<1>8. ~ Closed(t) /\ Listens(t)
  BY <1>3, <1>7 DEF Closed, Listens, Takes
<1>9. Closed(t)' <=> e.event \in Closing
  BY <1>1, <1>3, <1>4, <1>5, <1>7 DEF Closed, Closing
<1>10. Started(t)' <=> Started(t) \/ e.event = "generation_start"
  BY <1>1, <1>3, <1>4, <1>5 DEF Started
<1> DEFINE D == {i \in 1..k : sent[t][i].event = "delta"}
<1>11. Deltas(t) = Cardinality(D) /\ IsFiniteSet(D) /\ Cardinality(D) \in Nat /\ k + 1 \notin D
  BY <1>3, <1>4, DeltasFinite DEF Deltas
<1>12. Deltas(t)' = Cardinality({i \in 1..(k + 1) : sent[t][i].event = "delta"})
  BY <1>1, <1>3 DEF Deltas
<1>13. {i \in 1..(k + 1) : sent[t][i].event = "delta"}
         = IF e.event = "delta" THEN D \cup {k + 1} ELSE D
  BY <1>4, <1>5
<1>14. Deltas(t)' = IF e.event = "delta" THEN Deltas(t) + 1 ELSE Deltas(t)
  BY <1>11, <1>12, <1>13, FS_AddElement
<1> QED
  BY <1>2, <1>3, <1>4, <1>5, <1>6, <1>8, <1>9, <1>10, <1>11, <1>14 DEF TakesEvent

-----------------------------------------------------------------------------
(* What a tab holds keeps its type. *)

LEMMA ReadsStayTyped ==
  ASSUME TypeInv, StreamInv, TabTyped, [ConsoleNext]_allVars
  PROVE  ReadsTyped'
<1>1. [Next]_vars
  BY TabStepsAreTurnSteps
<1>2. CASE read' = read
  BY <1>1, <1>2, ReadStays DEF TabTyped, ReadsTyped
<1>3. ASSUME NEW t \in Turns, NEW name, Takes(t, name) PROVE ReadsTyped'
  <2>1. sent' = sent /\ read' = [read EXCEPT ![t] = @ + 1] /\ read'[t] \in Nat /\ read'[t] <= Len(sent[t])
    BY <1>3, TakenIs DEF Takes, vars, TakesEvent
  <2> QED
    BY <2>1 DEF TabTyped, ReadsTyped
<1>4. read' = read \/ \E t \in Turns, name \in {"session_ready", "session_title_updated", "rag_ready",
        "generation_start", "delta", "cancelled", "message_done", "error"} : Takes(t, name)
  <2>1. CASE UserStep
    BY <2>1 DEF UserStep, Send, Abort, AskCancel, AskRestart, AskDelete
  <2>2. ASSUME NEW t \in Turns, ConsumerStep(t)
        PROVE  read' = read \/ \E name \in {"session_ready", "session_title_updated", "rag_ready",
                 "generation_start", "delta", "cancelled", "message_done", "error"} : Takes(t, name)
    BY <2>2 DEF ConsumerStep, TakeReady, TakeAside, TakeStart, TakeDelta, TakeCancelled, TakeDone,
      TakeError, ConnectionLost, Closes, RefreshReads, RefreshEnds
  <2>3. ASSUME NEW t \in Turns, ServerTurn(t) \/ CancelAnswered(t) \/ NetworkDrops(t)
        PROVE  read' = read
    BY <2>3 DEF ServerTurn, CancelAnswered, NetworkDrops, consoleVars
  <2>4. LoadReads \/ LoadShows \/ RestartReverts \/ SessionDeleted \/ (Restart /\ UNCHANGED consoleVars)
        \/ UNCHANGED allVars => read' = read
    BY DEF LoadReads, LoadShows, RestartReverts, SessionDeleted, consoleVars, allVars
  <2> QED
    BY <2>1, <2>2, <2>3, <2>4 DEF ConsoleNext
<1> QED
  BY <1>2, <1>3, <1>4

LEMMA SendTyped ==
  ASSUME TypeInv, TabTyped, NothingEarly, NEW t \in Turns, Send(t)
  PROVE  ShownTyped'
<1> DEFINE last == Max({0} \cup {m.seq : m \in view})
           q == Message(t, "user", TRUE, last + 1, UserSize[t])
           a == Message(t, "assistant", TRUE, last + 2, 0)
<1>1. view \in Timelines
  BY DEF TabTyped, ShownTyped
<1>2. last \in Nat
  <2> DEFINE S == {m.seq : m \in view}
             f == [m \in view |-> m.seq]
  <2>1. S \in SUBSET Nat /\ IsFiniteSet(view)
    BY <1>1 DEF Timelines, MessageType
  <2>2. f \in Surjection(view, S)
    BY DEF Surjection
  <2>3. IsFiniteSet(S)
    BY <2>1, <2>2, FS_Surjection
  <2> HIDE DEF S
  <2>5. IsFiniteSet({0})
    BY FS_Singleton
  <2>6. IsFiniteSet({0} \cup S) /\ {0} \cup S \in SUBSET Nat /\ {0} \cup S # {}
    <3>1. IsFiniteSet({0} \cup S)
      BY <2>3, <2>5, FS_Union
    <3> QED
      BY <2>1, <3>1
  <2>4. Max({0} \cup S) \in Nat
    BY <2>6, MaxOfSet
  <2> QED
    BY <2>4 DEF S
<1>3. view' = view \cup {q, a}
  BY DEF Send
<1> HIDE DEF last
<1>4. q \in MessageType /\ a \in MessageType /\ q.kind # a.kind /\ q.turn = t /\ a.turn = t
  <2>1. UserSize[t] \in Nat /\ last + 1 \in Nat /\ last + 2 \in Nat
    BY <1>2, ChatSessionAssumption
  <2> QED
    BY <2>1 DEF Message, MessageType
<1> HIDE DEF q, a
<1>5. {q, a} \in Timelines
  BY <1>4, PairTimeline
<1>6. \A m \in view : m.turn # t
  BY DEF NothingEarly, Send, Request
<1>7. view' \in Timelines
  <2>1. IsFiniteSet(view \cup {q, a})
    BY <1>1, <1>5, FS_Union DEF Timelines
  <2>2. \A m, n \in view \cup {q, a} : Uid(m) = Uid(n) => m = n
    <3>1. \A m \in view : \A n \in {q, a} : Uid(m) # Uid(n)
      BY <1>4, <1>6, UidSame
    <3> QED
      BY <1>1, <1>5, <3>1 DEF Timelines
  <2> QED
    BY <1>1, <1>3, <1>5, <2>1, <2>2 DEF Timelines
<1>8. stream' \in StreamState
  BY DEF Send, StreamState
<1> QED
  BY <1>7, <1>8 DEF TabTyped, ShownTyped, Send

(* What a tab does with an event to its messages. *)
LEMMA TakenTyped ==
  ASSUME TypeInv, StreamInv, TabTyped, NEW t \in Turns,
         TakeReady(t) \/ TakeAside(t) \/ TakeStart(t) \/ TakeDelta(t) \/ TakeCancelled(t)
         \/ TakeDone(t) \/ TakeError(t)
  PROVE  ShownTyped'
<1> USE DEF TabTyped, ShownTyped
<1>1. view \in Timelines /\ UNCHANGED <<aborted, page, load, restart, unsure>>
  BY DEF TakeReady, TakeAside, TakeStart, TakeDelta, TakeCancelled, TakeDone, TakeError, Takes
<1>2. Value(t) \in Nat
  <2>1. \A name : Takes(t, name) => Value(t) \in Nat
    BY TakenIs DEF TakesEvent, EventType
  <2> QED
    BY <2>1 DEF TakeReady, TakeAside, TakeStart, TakeDelta, TakeCancelled, TakeDone, TakeError
<1>3. CASE TakeReady(t) \/ TakeAside(t)
  BY <1>1, <1>3 DEF TakeReady, TakeAside
<1>4. CASE TakeStart(t)
  <2> DEFINE q == Message(t, "user", FALSE, Value(t), UserSize[t])
             a == Message(t, "assistant", FALSE, Value(t) + 1, 0)
             pending == IF StreamsTurn(t) THEN {m \in view : m.turn = t /\ m.temp} ELSE {}
  <2>1. q \in MessageType /\ a \in MessageType /\ q.kind # a.kind
    <3>1. UserSize[t] \in Nat /\ Value(t) + 1 \in Nat
      BY <1>2, ChatSessionAssumption
    <3> QED
      BY <1>2, <3>1 DEF Message, MessageType
  <2>2. view' = IF pending = {} THEN Merge(view, {q, a}) ELSE Merge({q, a}, view \ pending)
    BY <1>4 DEF TakeStart
  <2> HIDE DEF q, a, pending
  <2>3. {q, a} \in Timelines /\ view \ pending \in Timelines
    BY <1>1, <2>1, PairTimeline, SubTimeline
  <2>4. view' \in Timelines
    BY <1>1, <2>2, <2>3, MergeKeeps
  <2>5. stream' \in StreamState \cup {None}
    BY <1>4 DEF TakeStart, StreamState, Streaming
  <2> QED
    BY <1>1, <1>4, <2>4, <2>5 DEF TakeStart
<1>5. CASE TakeDelta(t) \/ TakeCancelled(t)
  <2>1. view' = {Grown(m, t, Value(t)) : m \in view}
    BY <1>5 DEF TakeDelta, TakeCancelled, WithChunk, Grown
  <2>2. view' \in Timelines
    BY <1>1, <1>2, <2>1, GrownTimeline
  <2> QED
    BY <1>1, <1>5, <2>2 DEF TakeDelta, TakeCancelled
<1>6. CASE TakeDone(t)
  <2>1. PICK i \in DOMAIN sent[t] :
          view' = Merge({Message(t, "assistant", FALSE, sent[t][i].value + 1, Value(t))}, view)
    BY <1>6 DEF TakeDone
  <2>2. sent[t][i].value + 1 \in Nat
    <3>1. sent[t] \in Seq(EventType)
      BY DEF TypeInv, StreamsTyped
    <3>2. sent[t][i] \in EventType
      BY <3>1
    <3> QED
      BY <3>2 DEF EventType
  <2>3. {Message(t, "assistant", FALSE, sent[t][i].value + 1, Value(t))} \in Timelines
    BY <1>2, <2>2, MessageTyped, OneTimeline
  <2>4. view' \in Timelines
    BY <1>1, <2>1, <2>3, MergeKeeps
  <2> QED
    BY <1>1, <1>6, <2>4 DEF TakeDone
<1>7. CASE TakeError(t)
  <2>1. view' \in Timelines
    BY <1>1, <1>7, SubTimeline DEF TakeError, HandleError
  <2> QED
    BY <1>1, <1>7, <2>1 DEF TakeError, HandleError, ClearOwn
<1> QED
  BY <1>3, <1>4, <1>5, <1>6, <1>7

LEMMA TabStaysTyped ==
  ASSUME TypeInv, StreamInv, RowsOfTurns, TabTyped, NothingEarly, [ConsoleNext]_allVars
  PROVE  TabTyped'
<1> USE DEF TabTyped, ShownTyped
<1>1. view \in Timelines /\ StoredPage \in Pages /\ Pages \subseteq Timelines /\ {} \in Pages
  BY StoredPageTyped, FS_EmptySet DEF Pages, Timelines
<1>2. ASSUME NEW t \in Turns, Abort(t) \/ AskCancel(t) \/ CancelAnswered(t) PROVE ShownTyped'
  <2>1. stream' \in StreamState \cup {None}
    BY <1>2 DEF Abort, AskCancel, CancelAnswered, StreamState, StreamsTurn, Streaming
  <2> QED
    BY <1>2, <2>1 DEF Abort, AskCancel, CancelAnswered
<1>3. ASSUME NEW t \in Turns, ConnectionLost(t) \/ Closes(t) PROVE ShownTyped'
  <2>1. view' \in Timelines
    BY <1>1, <1>3, SubTimeline DEF ConnectionLost, Closes, HandleError
  <2> QED
    BY <1>3, <2>1 DEF ConnectionLost, Closes, HandleError, ClearOwn
<1>4. ASSUME NEW t \in Turns, RefreshReads(t) PROVE ShownTyped'
  BY <1>1, <1>4 DEF RefreshReads
<1>5. ASSUME NEW t \in Turns, RefreshEnds(t) PROVE ShownTyped'
  <2>1. page[t] # None => page[t] \in Timelines
    BY <1>1
  <2>2. view' \in Timelines
    BY <1>1, <1>5, <2>1, MergeKeeps DEF RefreshEnds
  <2> QED
    BY <1>5, <2>2 DEF RefreshEnds, ClearOwn
<1>6. ASSUME LoadReads PROVE ShownTyped'
  <2>1. load' \in LoadState
    BY <1>1, <1>6 DEF LoadReads, NoLoad, LoadState
  <2> QED
    BY <1>6, <2>1 DEF LoadReads
<1>7. ASSUME LoadShows PROVE ShownTyped'
  <2>1. load.page \in Timelines /\ NoLoad \in LoadState
    BY <1>1 DEF LoadState, NoLoad
  <2>2. view' \in Timelines
    BY <1>1, <1>7, <2>1, MergeKeeps DEF LoadShows
  <2> QED
    BY <1>7, <2>1, <2>2 DEF LoadShows
<1>8. ASSUME NEW m \in view, AskRestart(m) PROVE ShownTyped'
  <2>1. restart' \in RestartState
    BY <1>1, <1>8 DEF AskRestart, RestartState, Timelines, MessageType
  <2> QED
    BY <1>8, <2>1 DEF AskRestart
<1>9. ASSUME AskDelete PROVE ShownTyped'
  <2>1. restart' \in RestartState
    BY <1>9 DEF AskDelete, RestartState
  <2> QED
    BY <1>9, <2>1 DEF AskDelete
<1>10. ASSUME RestartReverts PROVE ShownTyped'
  <2>1. restart' \in RestartState \cup {None}
    BY <1>10 DEF RestartReverts, RestartState
  <2>2. load' \in LoadState
    BY <1>1, <1>10 DEF RestartReverts, NoLoad, LoadState
  <2>3. unsure' \in SUBSET Turns
    BY <1>10 DEF RestartReverts
  <2> QED
    BY <1>10, <2>1, <2>2, <2>3 DEF RestartReverts
<1>11. ASSUME SessionDeleted PROVE ShownTyped'
  BY <1>1, <1>11 DEF SessionDeleted
<1>12. ASSUME UNCHANGED consoleVars PROVE ShownTyped'
  BY <1>12 DEF consoleVars
<1>13. ASSUME NEW t \in Turns, ServerTurn(t) \/ NetworkDrops(t) PROVE UNCHANGED consoleVars
  BY <1>13 DEF ServerTurn, NetworkDrops
<1>14. UNCHANGED allVars => UNCHANGED consoleVars
  BY DEF allVars
<1>15. ShownTyped'
  BY <1>2, <1>3, <1>4, <1>5, <1>6, <1>7, <1>8, <1>9, <1>10, <1>11, <1>12, <1>13, <1>14, SendTyped,
    TakenTyped DEF ConsoleNext, UserStep, ConsumerStep
<1> QED
  BY <1>15, ReadsStayTyped

-----------------------------------------------------------------------------
(* Which turn a tab is active for. *)

LEMMA IdleStays ==
  ASSUME TypeInv, [Next]_vars, NEW t \in Turns, pc'[t] = "idle"
  PROVE  pc[t] = "idle"
<1>1. ASSUME NEW u \in Turns, TurnStep(u) PROVE pc[t] = "idle"
  BY <1>1, PlaceMoves, TurnIsOwn DEF OthersKept
<1>2. RequestStep => pc[t] = "idle"
  BY RequestMoves
<1>3. UNCHANGED vars => pc[t] = "idle"
  BY DEF vars
<1> QED
  BY <1>1, <1>2, <1>3 DEF Next

Keeps(u) ==
  consumer'[u] = consumer[u] /\ read'[u] = read[u] /\ (u \in aborted' <=> u \in aborted)

LEMMA ActiveStays ==
  ASSUME TypeInv, TabTyped, [Next]_vars, NEW u \in Turns, Keeps(u)
  PROVE  /\ Listens(u)' <=> Listens(u)
         /\ Active(u)' <=> Active(u)
         /\ Started(u)' <=> Started(u)
         /\ Deltas(u)' = Deltas(u)
  BY ReadStays DEF Listens, Active, Keeps

(* Where only one consumer moves. *)
LEMMA OthersKeep ==
  ASSUME TabTyped, NEW t \in Turns, ConsumerStep(t) \/ Send(t) \/ Abort(t), NEW u \in Turns, u # t
  PROVE  Keeps(u)
<1> USE DEF Keeps, TabTyped, ReadsTyped, ShownTyped
<1>1. CASE Send(t) \/ Abort(t)
  BY <1>1 DEF Send, Abort
<1>2. CASE TakeReady(t) \/ TakeAside(t) \/ TakeStart(t) \/ TakeDelta(t) \/ TakeCancelled(t) \/ TakeDone(t)
  BY <1>2 DEF TakeReady, TakeAside, TakeStart, TakeDelta, TakeCancelled, TakeDone, Takes
<1>3. CASE TakeError(t) \/ ConnectionLost(t)
  BY <1>3 DEF TakeError, ConnectionLost, HandleError, Takes
<1>4. CASE Closes(t) \/ RefreshReads(t) \/ RefreshEnds(t)
  BY <1>4 DEF Closes, RefreshReads, RefreshEnds
<1> QED
  BY <1>1, <1>2, <1>3, <1>4 DEF ConsumerStep

(* A broken connection has told no closing event, and one that ended well has. *)
LEMMA LostIsOpen ==
  ASSUME TypeInv, ServerInv, TabTyped, NEW t \in Turns, ConnectionLost(t)
  PROVE  Listens(t)
<1>1. EndsAsTold(t) /\ (~ connected[t] \/ pc[t] = "broken") /\ consumer[t] = "reading" /\ t \notin aborted
  BY DEF ServerInv, ConnectionLost
<1>2. \A i \in DOMAIN sent[t] : sent[t][i].event \notin Closing
  BY <1>1 DEF EndsAsTold, Closers
<1>3. \A i \in 1..read[t] : i \in DOMAIN sent[t]
  <2>1. sent[t] \in Seq(EventType)
    BY DEF TypeInv, StreamsTyped
  <2> QED
    BY <2>1 DEF TabTyped, ReadsTyped
<1> QED
  BY <1>1, <1>2, <1>3 DEF Listens, Closed

LEMMA ClosesIsOver ==
  ASSUME TypeInv, ServerInv, TabTyped, NEW t \in Turns, Closes(t)
  PROVE  ~ Active(t) /\ consumer[t] = "reading"
<1>1. CASE t \in aborted
  BY <1>1 DEF Closes, Active, Listens
<1>2. CASE connected[t] /\ pc[t] \in {"done", "cancelled", "error"} /\ read[t] = Len(sent[t])
  <2>1. Has(t, Closing)
    BY <1>2 DEF ServerInv, EndsAsTold
  <2>2. sent[t] \in Seq(EventType)
    BY DEF TypeInv, StreamsTyped
  <2>3. Closed(t)
    BY <1>2, <2>1, <2>2 DEF Has, Closed
  <2> QED
    BY <2>3 DEF Closes, Active, Listens
<1> QED
  BY <1>1, <1>2 DEF Closes

(* At most one turn is active, and none without a stream state. *)
LEMMA ActiveAlone ==
  ASSUME TabTyped, OneStream, NEW t \in Turns, Active(t), NEW u \in Turns, u # t
  PROVE  ~ Active(u) /\ ~ StreamsTurn(u)
  BY DEF OneStream, StreamsTurn

LEMMA StreamIsOf ==
  ASSUME TabTyped, Streaming
  PROVE  stream \in StreamState /\ stream.turn \in Turns /\ StreamsTurn(stream.turn)
  BY DEF TabTyped, ShownTyped, Streaming, StreamsTurn, StreamState

TabInv == TabTyped /\ NothingEarly /\ OneStream

LEMMA ConsumersArePast ==
  ASSUME TypeInv, TabInv, [ConsoleNext]_allVars, NEW t \in Turns
  PROVE  /\ pc'[t] = "idle" => consumer'[t] = "none"
         /\ consumer'[t] = "none" => read'[t] = 0 /\ t \notin aborted'
<1> USE DEF TabInv, NothingEarly, Keeps
<1>1. pc'[t] = "idle" => pc[t] = "idle"
  BY IdleStays, TabStepsAreTurnSteps
<1>2. CASE Keeps(t)
  BY <1>1, <1>2
<1>3. ASSUME NEW u \in Turns, u # t, ConsumerStep(u) \/ Send(u) \/ Abort(u) PROVE Keeps(t)
  BY <1>3, OthersKeep
<1>4. CASE Send(t)
  BY <1>4 DEF Send, Request, Goto, TypeInv, TurnsTyped, TabTyped, ShownTyped
<1>5. CASE Abort(t)
  <2>1. consumer[t] # "none" /\ consumer' = consumer
    BY <1>5 DEF Abort, OneStream, Active, Listens
  <2> QED
    BY <1>1, <2>1
<1>6. CASE ConsumerStep(t)
  <2>1. consumer[t] # "none"
    BY <1>6 DEF ConsumerStep, TakeReady, TakeAside, TakeStart, TakeDelta, TakeCancelled, TakeDone,
      TakeError, Takes, ConnectionLost, Closes, RefreshReads, RefreshEnds
  <2>2. consumer'[t] = consumer[t] \/ consumer'[t] \in {"refreshing", "closed"}
    BY <1>6 DEF ConsumerStep, TakeReady, TakeAside, TakeStart, TakeDelta, TakeCancelled, TakeDone,
      TakeError, Takes, ConnectionLost, HandleError, Closes, RefreshReads, RefreshEnds, TabTyped,
      ShownTyped
  <2> QED
    BY <1>1, <2>1, <2>2
<1>7. ASSUME NEW u \in Turns, ServerTurn(u) \/ CancelAnswered(u) \/ NetworkDrops(u) \/ AskCancel(u)
      PROVE  Keeps(t)
  BY <1>7 DEF ServerTurn, CancelAnswered, NetworkDrops, AskCancel, consoleVars
<1>8. LoadReads \/ LoadShows \/ RestartReverts \/ SessionDeleted \/ (Restart /\ UNCHANGED consoleVars)
      \/ UNCHANGED allVars \/ (\E m \in view : AskRestart(m)) \/ AskDelete => Keeps(t)
  BY DEF LoadReads, LoadShows, RestartReverts, SessionDeleted, consoleVars, allVars, AskRestart,
    AskDelete
<1> QED
  BY <1>2, <1>3, <1>4, <1>5, <1>6, <1>7, <1>8 DEF ConsoleNext, UserStep

(* The turns a tab's messages are of have been asked. *)
LEMMA TakenAreAsked ==
  ASSUME TypeInv, TabInv, NEW t \in Turns, ConsumerStep(t), NEW m \in view'
  PROVE  \/ m.turn = t /\ pc[t] # "idle"
         \/ \E n \in view : n.turn = m.turn
         \/ page[t] # None /\ m \in page[t]
<1>1. pc[t] # "idle"
  <2>1. consumer[t] # "none"
    BY DEF ConsumerStep, TakeReady, TakeAside, TakeStart, TakeDelta, TakeCancelled, TakeDone,
      TakeError, Takes, ConnectionLost, Closes, RefreshReads, RefreshEnds
  <2> QED
    BY <2>1 DEF TabInv, NothingEarly
<1>2. CASE m \in view
  BY <1>2
<1>3. CASE TakeStart(t)
  BY <1>1, <1>3 DEF TakeStart, Merge, Message
<1>4. CASE TakeDelta(t) \/ TakeCancelled(t)
  <2>1. PICK n \in view : m = Grown(n, t, Value(t))
    BY <1>4 DEF TakeDelta, TakeCancelled, WithChunk, Grown
  <2>2. m.turn = n.turn
    BY <2>1 DEF Grown, TabInv, TabTyped, ShownTyped, Timelines, MessageType
  <2> QED
    BY <2>2
<1>5. CASE TakeDone(t)
  <2>1. PICK i \in DOMAIN sent[t] :
          view' = Merge({Message(t, "assistant", FALSE, sent[t][i].value + 1, Value(t))}, view)
    BY <1>5 DEF TakeDone
  <2> QED
    BY <1>1, <2>1 DEF Merge, Message
<1>6. CASE TakeError(t) \/ ConnectionLost(t)
  BY <1>2, <1>6 DEF TakeError, ConnectionLost, HandleError
<1>7. CASE TakeReady(t) \/ TakeAside(t) \/ Closes(t) \/ RefreshReads(t)
  BY <1>2, <1>7 DEF TakeReady, TakeAside, Closes, RefreshReads
<1>8. CASE RefreshEnds(t)
  BY <1>2, <1>8 DEF RefreshEnds, Merge
<1> QED
  BY <1>3, <1>4, <1>5, <1>6, <1>7, <1>8 DEF ConsumerStep

LEMMA MessagesAreAsked ==
  ASSUME TypeInv, TabInv, RowsHaveTurns, [ConsoleNext]_allVars
  PROVE  /\ \A m \in view' : pc'[m.turn] # "idle"
         /\ \A m \in load.page' : pc'[m.turn] # "idle"
         /\ \A u \in Turns : page'[u] # None => \A m \in page'[u] : pc'[m.turn] # "idle"
<1>1. ASSUME NEW t \in Turns, pc[t] # "idle" PROVE pc'[t] # "idle"
  BY <1>1, IdleStays, TabStepsAreTurnSteps
<1>2. /\ \A m \in view : m.turn \in Turns /\ pc[m.turn] # "idle"
      /\ \A m \in load.page : m.turn \in Turns /\ pc[m.turn] # "idle"
      /\ \A u \in Turns : page[u] # None => \A m \in page[u] : m.turn \in Turns /\ pc[m.turn] # "idle"
  BY DEF TabInv, NothingEarly, TabTyped, ShownTyped, LoadState, Pages, Timelines, MessageType
<1>3. \A m \in StoredPage : m.turn \in Turns /\ pc[m.turn] # "idle"
  BY PageRows DEF Message, RowsHaveTurns, TypeInv, RowsTyped, RowType
<1>4. \A m \in view' : pc'[m.turn] # "idle"
  <2>1. CASE view' = view
    BY <1>1, <1>2, <2>1
  <2>2. ASSUME NEW t \in Turns, ConsumerStep(t), NEW m \in view' PROVE pc'[m.turn] # "idle"
    BY <1>1, <1>2, <2>2, TakenAreAsked
  <2>3. ASSUME NEW t \in Turns, Send(t), NEW m \in view' PROVE pc'[m.turn] # "idle"
    <3>1. pc'[t] = "open"
      BY <2>3 DEF Send, Request, Goto, TypeInv, TurnsTyped
    <3>2. m \in view \/ m.turn = t
      BY <2>3 DEF Send, Message
    <3> QED
      BY <1>1, <1>2, <3>1, <3>2
  <2>4. ASSUME LoadShows, NEW m \in view' PROVE pc'[m.turn] # "idle"
    BY <1>1, <1>2, <2>4 DEF LoadShows, Merge
  <2>5. SessionDeleted => view' = {}
    BY DEF SessionDeleted
  <2>6. ASSUME NEW t \in Turns, ServerTurn(t) \/ CancelAnswered(t) \/ NetworkDrops(t) \/ AskCancel(t)
                                \/ Abort(t)
        PROVE  view' = view
    BY <2>6 DEF ServerTurn, CancelAnswered, NetworkDrops, AskCancel, consoleVars, Abort
  <2>7. LoadReads \/ RestartReverts \/ (Restart /\ UNCHANGED consoleVars) \/ UNCHANGED allVars
        \/ (\E m \in view : AskRestart(m)) \/ AskDelete => view' = view
    BY DEF LoadReads, RestartReverts, consoleVars, allVars, AskRestart, AskDelete
  <2> QED
    BY <2>1, <2>2, <2>3, <2>4, <2>5, <2>6, <2>7 DEF ConsoleNext, UserStep
<1>5. load' = load \/ load'.page \in {{}, StoredPage, load.page}
  <2>1. ASSUME NEW t \in Turns, ConsumerStep(t) PROVE load' = load
    BY <2>1 DEF ConsumerStep, TakeReady, TakeAside, TakeStart, TakeDelta, TakeCancelled, TakeDone,
      TakeError, Takes, ConnectionLost, Closes, RefreshReads, RefreshEnds
  <2>2. ASSUME NEW t \in Turns, Send(t) \/ Abort(t) \/ AskCancel(t) \/ ServerTurn(t)
                                \/ CancelAnswered(t) \/ NetworkDrops(t)
        PROVE  load' = load
    BY <2>2 DEF Send, Abort, AskCancel, ServerTurn, CancelAnswered, NetworkDrops, consoleVars
  <2>3. (Restart /\ UNCHANGED consoleVars) \/ UNCHANGED allVars \/ SessionDeleted
        \/ (\E m \in view : AskRestart(m)) \/ AskDelete => load' = load
    BY DEF consoleVars, allVars, AskRestart, AskDelete, SessionDeleted
  <2>4. LoadReads \/ LoadShows \/ RestartReverts => load' = load \/ load'.page \in {{}, StoredPage}
    BY DEF LoadReads, LoadShows, RestartReverts, NoLoad
  <2> QED
    BY <2>1, <2>2, <2>3, <2>4 DEF ConsoleNext, UserStep
<1>6. \A m \in load.page' : pc'[m.turn] # "idle"
  BY <1>1, <1>2, <1>3, <1>5
<1>7. ASSUME NEW u \in Turns PROVE page'[u] \in {page[u], None, StoredPage}
  <2>1. ASSUME NEW t \in Turns, RefreshReads(t) \/ RefreshEnds(t)
        PROVE  page'[u] \in {page[u], None, StoredPage}
    BY <2>1 DEF RefreshReads, RefreshEnds, TabInv, TabTyped, ShownTyped
  <2>2. ASSUME NEW t \in Turns, ConsumerStep(t), ~ RefreshReads(t), ~ RefreshEnds(t)
        PROVE  page' = page
    BY <2>2 DEF ConsumerStep, TakeReady, TakeAside, TakeStart, TakeDelta, TakeCancelled, TakeDone,
      TakeError, Takes, ConnectionLost, Closes
  <2>3. ASSUME NEW t \in Turns, Send(t) \/ Abort(t) \/ AskCancel(t) \/ ServerTurn(t)
                                \/ CancelAnswered(t) \/ NetworkDrops(t)
        PROVE  page' = page
    BY <2>3 DEF Send, Abort, AskCancel, ServerTurn, CancelAnswered, NetworkDrops, consoleVars
  <2>4. (Restart /\ UNCHANGED consoleVars) \/ UNCHANGED allVars \/ SessionDeleted \/ LoadReads
        \/ LoadShows \/ RestartReverts \/ (\E m \in view : AskRestart(m)) \/ AskDelete => page' = page
    BY DEF consoleVars, allVars, AskRestart, AskDelete, SessionDeleted, LoadReads, LoadShows,
      RestartReverts
  <2> QED
    BY <2>1, <2>2, <2>3, <2>4 DEF ConsoleNext, UserStep
<1>8. \A u \in Turns : page'[u] # None => \A m \in page'[u] : pc'[m.turn] # "idle"
  BY <1>1, <1>2, <1>3, <1>7
<1> QED
  BY <1>4, <1>6, <1>8

LEMMA NothingEarlyKept ==
  ASSUME TypeInv, TabInv, RowsHaveTurns, [ConsoleNext]_allVars
  PROVE  NothingEarly'
  BY ConsumersArePast, MessagesAreAsked DEF NothingEarly

(* A step that moves no consumer leaves OneStream as it is if it leaves the   *)
(* stream state's turn and generation, and asks for no restart under a stream. *)
SameStream ==
  \/ stream' = stream
  \/ /\ stream \in StreamState /\ stream' \in StreamState
     /\ stream'.turn = stream.turn /\ stream'.generation = stream.generation

LEMMA StillOne ==
  ASSUME TypeInv, TabInv, [Next]_vars, \A u \in Turns : Keeps(u), SameStream,
         \A u \in Turns : page'[u] # None => page[u] # None \/ consumer[u] = "refreshing",
         restart' # None => restart # None \/ ~ Streaming
  PROVE  OneStream'
<1> USE DEF TabInv
<1>1. \A u \in Turns : (Active(u)' <=> Active(u)) /\ (Started(u)' <=> Started(u))
  BY ActiveStays
<1>2. /\ Streaming' <=> Streaming
      /\ \A u \in Turns : StreamsTurn(u)' <=> StreamsTurn(u)
      /\ stream'.generation = stream.generation
  BY ConsoleAssumption DEF SameStream, Streaming, StreamsTurn
<1>3. \A u \in Turns : consumer'[u] = consumer[u]
  BY DEF Keeps
<1> QED
  BY <1>1, <1>2, <1>3 DEF OneStream

(* A step of one turn's consumer, that turn's part of OneStream given. *)
LEMMA OthersStillOne ==
  ASSUME TypeInv, TabInv, [Next]_vars, NEW t \in Turns, \A u \in Turns \ {t} : Keeps(u),
         Active(t)' <=> StreamsTurn(t)', consumer'[t] = "refreshing" => Started(t)',
         Active(t)' /\ Started(t)' => stream'.generation,
         page'[t] # None => consumer'[t] = "refreshing",
         \A u \in Turns \ {t} : page'[u] = page[u],
         \/ SameStream
         \/ \A u \in Turns \ {t} : ~ Active(u) /\ ~ StreamsTurn(u)',
         restart' # None => ~ Streaming'
  PROVE  OneStream'
<1> USE DEF TabInv
<1>1. \A u \in Turns \ {t} : (Active(u)' <=> Active(u)) /\ (Started(u)' <=> Started(u))
  BY ActiveStays
<1>2. \A u \in Turns \ {t} : consumer'[u] = consumer[u]
  BY DEF Keeps
<1>3. CASE SameStream
  <2>1. /\ \A u \in Turns : StreamsTurn(u)' <=> StreamsTurn(u)
        /\ stream'.generation = stream.generation
    BY <1>3, ConsoleAssumption DEF SameStream, Streaming, StreamsTurn
  <2> QED
    BY <1>1, <1>2, <2>1 DEF OneStream
<1>4. CASE \A u \in Turns \ {t} : ~ Active(u) /\ ~ StreamsTurn(u)'
  BY <1>1, <1>2, <1>4 DEF OneStream
<1> QED
  BY <1>3, <1>4

LEMMA SendKeepsOne ==
  ASSUME TypeInv, TabInv, [Next]_vars, NEW t \in Turns, Send(t)
  PROVE  OneStream'
<1> USE DEF TabInv
<1>1. \A u \in Turns : ~ Active(u) /\ page[u] = None /\ ~ StreamsTurn(u)
  BY DEF Send, OneStream, StreamsTurn, Active
<1>2. pc[t] = "idle" /\ consumer[t] = "none" /\ read[t] = 0 /\ t \notin aborted
  BY DEF Send, Request, NothingEarly
<1>3. stream' \in StreamState /\ stream'.turn = t
  BY DEF Send, StreamState
<1>4. Streaming' /\ StreamsTurn(t)' /\ \A u \in Turns \ {t} : ~ StreamsTurn(u)'
  BY <1>3, ConsoleAssumption DEF Streaming, StreamsTurn
<1>5. \A u \in Turns \ {t} : Keeps(u)
  BY OthersKeep
<1>6. read'[t] = 0 /\ consumer'[t] = "reading" /\ t \notin aborted' /\ page' = page /\ restart' = None
  BY <1>2 DEF Send, TabTyped, ShownTyped
<1>7. Active(t)' /\ ~ Started(t)'
  BY <1>6 DEF Active, Listens, Closed, Started
<1> QED
  BY <1>1, <1>4, <1>5, <1>6, <1>7, OthersStillOne

LEMMA AbortKeepsOne ==
  ASSUME TypeInv, TabInv, [Next]_vars, NEW t \in Turns, Abort(t)
  PROVE  OneStream'
<1> USE DEF TabInv
<1>1. StreamsTurn(t) /\ ~ stream.generation
  BY DEF Abort
<1>2. Active(t) /\ ~ Started(t) /\ consumer[t] # "refreshing"
  BY <1>1 DEF OneStream
<1>3. \A u \in Turns \ {t} : ~ Active(u)
  BY <1>2, ActiveAlone
<1>4. /\ stream' = None /\ consumer' = consumer /\ t \in aborted' /\ page' = page /\ restart' = restart
  BY DEF Abort
<1>5. \A u \in Turns : ~ StreamsTurn(u)' /\ ~ Streaming'
  BY <1>4 DEF StreamsTurn, Streaming
<1>6. ~ Active(t)' /\ consumer'[t] # "refreshing"
  BY <1>2, <1>4 DEF Active, Listens
<1>7. \A u \in Turns \ {t} : Keeps(u)
  BY OthersKeep
<1>8. page[t] = None
  BY <1>2 DEF OneStream
<1> QED
  BY <1>3, <1>4, <1>5, <1>6, <1>7, <1>8, OthersStillOne

(* What an event does to the activity of its consumer. *)
LEMMA TakenKeepsOne ==
  ASSUME TypeInv, StreamInv, ServerInv, TabInv, [Next]_vars, NEW t \in Turns,
         TakeReady(t) \/ TakeAside(t) \/ TakeStart(t) \/ TakeDelta(t) \/ TakeCancelled(t)
         \/ TakeDone(t) \/ TakeError(t)
  PROVE  OneStream'
<1> USE DEF TabInv
<1>1. PICK e \in EventType : TakesEvent(t, e) /\ Takes(t, e.event)
  BY TakenIs DEF TakeReady, TakeAside, TakeStart, TakeDelta, TakeCancelled, TakeDone, TakeError
<1>2. /\ Listens(t) /\ consumer[t] = "reading" /\ t \notin aborted
      /\ UNCHANGED <<aborted, page, restart>>
  BY <1>1 DEF TakesEvent, Takes, Listens
<1>3. StreamsTurn(t) /\ Active(t) /\ page[t] = None /\ restart = None
  <2>1. Active(t)
    BY <1>2 DEF Active
  <2> QED
    BY <1>2, <2>1 DEF OneStream, StreamsTurn
<1>4. \A u \in Turns \ {t} : ~ Active(u) /\ ~ StreamsTurn(u)
  BY <1>3, ActiveAlone
<1>5. \A u \in Turns \ {t} : Keeps(u)
  BY OthersKeep DEF ConsumerStep
<1>6. CASE TakeReady(t) \/ TakeAside(t) \/ TakeDelta(t)
  <2>1. stream' = stream /\ consumer' = consumer /\ e.event \notin Closing \cup {"generation_start"}
    BY <1>1, <1>6, TakenIs DEF TakeReady, TakeAside, TakeDelta, Takes, Closing, TakesEvent
  <2>2. Active(t)' /\ (Started(t)' <=> Started(t)) /\ StreamsTurn(t)' /\ consumer'[t] = "reading"
    BY <1>1, <1>2, <1>3, <2>1 DEF Active, Listens, TakesEvent, StreamsTurn, Streaming
  <2>3. Active(t)' /\ Started(t)' => stream'.generation
    BY <1>3, <2>1, <2>2 DEF OneStream
  <2> QED
    BY <1>2, <1>3, <1>5, <2>1, <2>2, <2>3, OthersStillOne DEF SameStream
<1>7. CASE TakeStart(t)
  <2>1. stream' = [turn |-> stream.turn, status |-> "streaming", generation |-> TRUE]
        /\ consumer' = consumer /\ e.event \notin Closing
    BY <1>1, <1>3, <1>7, TakenIs DEF TakeStart, StreamsTurn, Takes, Closing, TakesEvent
  <2>2. stream' \in StreamState /\ stream'.turn = t /\ stream'.generation
    BY <1>3, <2>1 DEF StreamsTurn, StreamState
  <2>3. StreamsTurn(t)' /\ \A u \in Turns \ {t} : ~ StreamsTurn(u)'
    BY <2>2, ConsoleAssumption DEF StreamsTurn, Streaming
  <2>4. Active(t)' /\ consumer'[t] = "reading"
    BY <1>1, <1>2, <2>1 DEF Active, Listens, TakesEvent
  <2> QED
    BY <1>2, <1>3, <1>4, <1>5, <2>2, <2>3, <2>4, OthersStillOne
<1>8. CASE TakeCancelled(t) \/ TakeDone(t)
  <2>1. stream' = None /\ consumer' = consumer /\ e.event \in Closing
    BY <1>1, <1>8, TakenIs DEF TakeCancelled, TakeDone, Takes, Closing, TakesEvent
  <2>2. ~ Active(t)' /\ consumer'[t] = "reading" /\ \A u \in Turns : ~ StreamsTurn(u)'
    BY <1>1, <1>2, <2>1 DEF Active, Listens, TakesEvent, StreamsTurn, Streaming
  <2> QED
    BY <1>2, <1>3, <1>4, <1>5, <2>2, OthersStillOne
<1>9. CASE TakeError(t)
  <2>1. e.event = "error" /\ HandleError(t)
    BY <1>1, <1>9, TakenIs DEF TakeError, Takes, TakesEvent
  <2>2. Started(t)' <=> Started(t)
    BY <1>1, <2>1 DEF TakesEvent
  <2>3. CASE Started(t)
    <3>1. stream' = stream /\ consumer'[t] = "refreshing"
      BY <2>1, <2>3 DEF HandleError, TabTyped, ShownTyped
    <3>2. Active(t)' /\ StreamsTurn(t)' /\ stream'.generation
      BY <1>3, <2>3, <3>1 DEF Active, StreamsTurn, Streaming, OneStream
    <3> QED
      BY <1>2, <1>3, <1>5, <2>2, <2>3, <3>1, <3>2, OthersStillOne DEF SameStream
  <2>4. CASE ~ Started(t)
    <3>1. stream' = None /\ consumer'[t] = "closed"
      BY <1>3, <2>1, <2>4 DEF HandleError, ClearOwn, TabTyped, ShownTyped
    <3>2. ~ Active(t)' /\ \A u \in Turns : ~ StreamsTurn(u)'
      BY <3>1 DEF Active, Listens, StreamsTurn, Streaming
    <3> QED
      BY <1>2, <1>3, <1>4, <1>5, <3>1, <3>2, OthersStillOne
  <2> QED
    BY <2>3, <2>4
<1> QED
  BY <1>6, <1>7, <1>8, <1>9

LEMMA ClosingKeepsOne ==
  ASSUME TypeInv, StreamInv, ServerInv, TabInv, [Next]_vars, NEW t \in Turns,
         ConnectionLost(t) \/ Closes(t) \/ RefreshReads(t) \/ RefreshEnds(t)
  PROVE  OneStream'
<1> USE DEF TabInv
<1>1. \A u \in Turns \ {t} : Keeps(u)
  BY OthersKeep DEF ConsumerStep
<1>2. UNCHANGED <<read, aborted, restart>>
  BY DEF ConnectionLost, Closes, RefreshReads, RefreshEnds
<1>3. Started(t)' <=> Started(t)
  BY <1>2, ReadStays
<1>4. CASE ConnectionLost(t)
  <2>1. Active(t) /\ StreamsTurn(t) /\ page[t] = None /\ page' = page /\ restart = None
    <3>1. Listens(t)
      BY <1>4, LostIsOpen
    <3>2. Active(t) /\ consumer[t] = "reading"
      BY <3>1 DEF Active, Listens
    <3> QED
      BY <1>4, <3>2 DEF OneStream, ConnectionLost, StreamsTurn
  <2>2. \A u \in Turns \ {t} : ~ Active(u) /\ ~ StreamsTurn(u)
    BY <2>1, ActiveAlone
  <2>3. CASE Started(t)
    <3>1. stream' = stream /\ consumer'[t] = "refreshing"
      BY <1>4, <2>3 DEF ConnectionLost, HandleError, TabTyped, ShownTyped
    <3>2. Active(t)' /\ StreamsTurn(t)' /\ stream'.generation
      BY <2>1, <2>3, <3>1 DEF Active, StreamsTurn, Streaming, OneStream
    <3> QED
      BY <1>1, <1>2, <1>3, <2>1, <2>3, <3>1, <3>2, OthersStillOne DEF SameStream
  <2>4. CASE ~ Started(t)
    <3>1. stream' = None /\ consumer'[t] = "closed"
      BY <1>4, <2>1, <2>4 DEF ConnectionLost, HandleError, ClearOwn, TabTyped, ShownTyped
    <3>2. ~ Active(t)' /\ \A u \in Turns : ~ StreamsTurn(u)'
      BY <3>1 DEF Active, Listens, StreamsTurn, Streaming
    <3> QED
      BY <1>1, <1>2, <2>1, <2>2, <3>1, <3>2, OthersStillOne
  <2> QED
    BY <2>3, <2>4
<1>5. CASE Closes(t)
  <2>1. ~ Active(t) /\ consumer[t] = "reading"
    BY <1>5, ClosesIsOver
  <2>2. stream' = stream /\ consumer'[t] = "closed" /\ page' = page /\ page[t] = None
    BY <1>5, <2>1 DEF Closes, ClearOwn, OneStream, TabTyped, ShownTyped
  <2>3. ~ Active(t)' /\ ~ StreamsTurn(t)'
    BY <2>1, <2>2 DEF Active, Listens, OneStream, StreamsTurn, Streaming
  <2>4. restart' # None => ~ Streaming'
    BY <1>2, <2>2 DEF OneStream, Streaming
  <2> QED
    BY <1>1, <2>2, <2>3, <2>4, OthersStillOne DEF SameStream
<1>6. CASE RefreshReads(t)
  <2>1. \A u \in Turns : page'[u] # None => page[u] # None \/ consumer[u] = "refreshing"
    BY <1>6 DEF RefreshReads, TabTyped, ShownTyped
  <2>2. stream' = stream /\ \A u \in Turns : Keeps(u)
    BY <1>6 DEF RefreshReads, Keeps
  <2> QED
    BY <1>2, <2>1, <2>2, StillOne DEF SameStream
<1>7. CASE RefreshEnds(t)
  <2>1. Active(t) /\ StreamsTurn(t) /\ restart = None
    BY <1>7 DEF RefreshEnds, Active, OneStream, StreamsTurn
  <2>2. \A u \in Turns \ {t} : ~ Active(u) /\ page'[u] = page[u]
    BY <1>7, <2>1, ActiveAlone DEF RefreshEnds, TabTyped, ShownTyped
  <2>3. stream' = None /\ consumer'[t] = "closed" /\ page'[t] = None
    BY <1>7, <2>1 DEF RefreshEnds, ClearOwn, TabTyped, ShownTyped
  <2>4. ~ Active(t)' /\ \A u \in Turns : ~ StreamsTurn(u)'
    BY <2>3 DEF Active, Listens, StreamsTurn, Streaming
  <2> QED
    BY <1>1, <1>2, <2>1, <2>2, <2>3, <2>4, OthersStillOne
<1> QED
  BY <1>4, <1>5, <1>6, <1>7

LEMMA OneStreamKept ==
  ASSUME TypeInv, StreamInv, ServerInv, TabInv, [ConsoleNext]_allVars
  PROVE  OneStream'
<1>1. [Next]_vars
  BY TabStepsAreTurnSteps
<1>2. ASSUME UNCHANGED consoleVars PROVE OneStream'
  BY <1>1, <1>2, StillOne DEF consoleVars, Keeps, SameStream
<1>3. ASSUME NEW t \in Turns, AskCancel(t) \/ CancelAnswered(t) PROVE OneStream'
  <2>1. SameStream
    BY <1>3, StreamIsOf DEF AskCancel, CancelAnswered, SameStream, StreamState, StreamsTurn, Streaming,
      TabInv
  <2>2. UNCHANGED <<consumer, read, aborted, page, restart>>
    BY <1>3 DEF AskCancel, CancelAnswered
  <2> QED
    BY <1>1, <2>1, <2>2, StillOne DEF Keeps
<1>4. ASSUME LoadReads \/ LoadShows \/ RestartReverts \/ (\E m \in view : AskRestart(m)) \/ AskDelete
      PROVE  OneStream'
  <2>1. UNCHANGED <<stream, consumer, read, aborted, page>>
    BY <1>4 DEF LoadReads, LoadShows, RestartReverts, AskRestart, AskDelete
  <2>2. restart' # None => restart # None \/ ~ Streaming
    BY <1>4 DEF LoadReads, LoadShows, RestartReverts, AskRestart, AskDelete, MayChange
  <2> QED
    BY <1>1, <2>1, <2>2, StillOne DEF Keeps, SameStream
<1>5. ASSUME SessionDeleted PROVE OneStream'
  <2>1. ~ Streaming /\ UNCHANGED <<consumer, read, aborted, page>> /\ stream' = None /\ restart' = None
    BY <1>5 DEF SessionDeleted, OneStream, TabInv
  <2>2. stream' = stream
    BY <2>1 DEF Streaming
  <2> QED
    BY <1>1, <2>1, <2>2, StillOne DEF Keeps, SameStream
<1>6. ASSUME NEW t \in Turns, ServerTurn(t) \/ NetworkDrops(t) PROVE UNCHANGED consoleVars
  BY <1>6 DEF ServerTurn, NetworkDrops
<1>7. UNCHANGED allVars => UNCHANGED consoleVars
  BY DEF allVars
<1> QED
  BY <1>1, <1>2, <1>3, <1>4, <1>5, <1>6, <1>7, SendKeepsOne, AbortKeepsOne, TakenKeepsOne,
    ClosingKeepsOne DEF ConsoleNext, UserStep, ConsumerStep

LEMMA InitTab == Init /\ ConsoleInit => TabInv
<1> SUFFICES ASSUME Init, ConsoleInit PROVE TabInv
  OBVIOUS
<1>1. TypeInv /\ RowsOfTurns /\ StoredPage \in Pages /\ view = StoredPage
  BY InitTyped, InitRows, StoredPageTyped DEF ConsoleInit
<1>2. StoredPage \in Timelines /\ {} \in Pages /\ NoLoad.page = {}
  BY <1>1, FS_EmptySet DEF Pages, Timelines, NoLoad
<1>3. \A t \in Turns : sent[t] = <<>> /\ consumer[t] = "none" /\ read[t] = 0 /\ page[t] = None
  BY DEF Init, ConsoleInit
<1>4. ReadsTyped
  BY <1>3 DEF ConsoleInit, ReadsTyped
<1>5. ShownTyped
  BY <1>1, <1>2 DEF ConsoleInit, ShownTyped, NoLoad, LoadState
<1>6. \A m \in StoredPage : pc[m.turn] # "idle"
  <2>1. \A r \in rows : r.turn \in Turns /\ pc[r.turn] = "done"
    BY <1>1 DEF Init, TypeInv, RowsTyped, RowType
  <2> QED
    BY <1>1, <2>1, PageRows DEF Message
<1>7. NothingEarly
  BY <1>1, <1>2, <1>3, <1>6 DEF ConsoleInit, NothingEarly
<1>8. OneStream
  BY <1>3 DEF ConsoleInit, OneStream, Active, Listens, StreamsTurn, Streaming
<1> QED
  BY <1>4, <1>5, <1>7, <1>8 DEF TabInv, TabTyped

TabFacts == SessionFacts /\ TabInv

LEMMA TabAlways == ConsoleSpec => []TabFacts
<1>1. SessionFacts /\ TabInv /\ [ConsoleNext]_allVars => TabInv'
  BY TabStaysTyped, NothingEarlyKept, OneStreamKept DEF SessionFacts, ServerInv, TabInv
<1>2. SessionFacts /\ TabInv => TabFacts
  BY DEF TabFacts
<1> QED
  BY <1>1, <1>2, InitTab, FactsUnderTabs, PTL DEF ConsoleSpec

(* What the store keeps holds what its types allow, whatever arrives in      *)
(* whatever order, and no message is on screen twice: a merge replaces by    *)
(* uid and a chunk grows the one message it is of.                           *)
THEOREM ConsoleTypesAreCorrect == ConsoleSpec => []ConsoleTypeOK
<1>1. TabFacts => ConsoleTypeOK
  <2> SUFFICES ASSUME TabFacts PROVE ConsoleTypeOK
    OBVIOUS
  <2>1. view \in Timelines /\ Cardinality(view) = Cardinality(Uids(view))
    BY UidsAreAsMany DEF TabFacts, TabInv, TabTyped, ShownTyped
  <2> QED
    BY <2>1 DEF TabFacts, TabInv, TabTyped, ShownTyped, ConsoleTypeOK, Timelines, MessageType
<1> QED
  BY <1>1, TabAlways, PTL

-----------------------------------------------------------------------------
(* The text that streams. *)

(* No chunk comes before the start, and there is one start. *)
LEMMA StartIsFirst ==
  ASSUME TypeInv, StreamInv, ServerInv, TabTyped, NEW t \in Turns, Takes(t, "generation_start")
  PROVE  ~ Started(t) /\ Deltas(t) = 0
<1>1. sent[t] \in Seq(EventType)
  BY DEF TypeInv, StreamsTyped
<1>2. PICK n \in Nat : n = Len(sent[t]) /\ DOMAIN sent[t] = 1..n
  BY <1>1
<1>3. PICK k \in Nat : k = read[t] /\ k < n
  BY <1>2 DEF TabTyped, ReadsTyped, Takes
<1>4. /\ k + 1 \in 1..n /\ (k + 1) - 1 = k
      /\ \A i \in 1..k : i \in 1..n /\ \A j \in 1..(i - 1) : j \in 1..k
  BY <1>3
<1>5. sent[t][k + 1].event = "generation_start"
  BY <1>3 DEF Takes
<1>6. \A j \in 1..k : sent[t][j].event # "generation_start"
  BY <1>2, <1>4, <1>5 DEF ServerInv, StartsOnce
<1>7. \A i \in 1..k : sent[t][i].event # "delta"
  <2>1. \A i \in 1..n : sent[t][i].event = "delta" =>
          \E j \in 1..(i - 1) : sent[t][j].event = "generation_start"
    <3>1. InOrder(sent[t], t)
      BY DEF StreamInv, TurnStream
    <3> QED
      BY <1>2, <3>1 DEF InOrder
  <2> QED
    BY <1>4, <1>6, <2>1
<1>8. {i \in 1..k : sent[t][i].event = "delta"} = {}
  BY <1>7
<1> QED
  BY <1>3, <1>6, <1>8, FS_EmptySet DEF Started, Deltas

(* What is shown of the stream of a turn. *)
TextOf(t) ==
  IF stream.generation
    THEN \E m \in view : m.turn = t /\ m.kind = "assistant" /\ ~ m.temp /\ m.size = Deltas(t)
    ELSE \E m \in view : m.turn = t /\ m.temp

LEMMA TextStays ==
  ASSUME TypeInv, TabInv, [Next]_vars, TextInv, \A u \in Turns : Keeps(u), SameStream,
         Streaming => \A m \in view : m \in view'
  PROVE  TextInv'
<1> USE DEF TabInv
<1>1. \A u \in Turns : Deltas(u)' = Deltas(u)
  BY ActiveStays
<1>2. /\ Streaming' <=> Streaming
      /\ \A u \in Turns : StreamsTurn(u)' <=> StreamsTurn(u)
      /\ stream'.generation = stream.generation
  BY ConsoleAssumption DEF SameStream, Streaming, StreamsTurn
<1> SUFFICES ASSUME NEW u \in Turns, StreamsTurn(u)' PROVE TextOf(u)'
  BY DEF TextInv, TextOf
<1>3. TextOf(u) /\ Streaming
  BY <1>2 DEF TextInv, TextOf, StreamsTurn
<1> QED
  BY <1>1, <1>2, <1>3 DEF TextOf

LEMMA SendKeepsText ==
  ASSUME NEW t \in Turns, Send(t)
  PROVE  TextInv'
<1>1. stream' = [turn |-> t, status |-> "connecting", generation |-> FALSE]
  BY DEF Send
<1> DEFINE last == Max({0} \cup {m.seq : m \in view})
           q == Message(t, "user", TRUE, last + 1, UserSize[t])
<1>2. q \in view' /\ q.turn = t /\ q.temp
  <2>1. q \in view'
    BY DEF Send
  <2> QED
    BY <2>1 DEF Message
<1> HIDE DEF q
<1>3. stream'.turn = t /\ stream'.generation = FALSE
  BY <1>1
<1> SUFFICES ASSUME NEW u \in Turns, StreamsTurn(u)' PROVE TextOf(u)'
  BY DEF TextInv, TextOf
<1> QED
  BY <1>2, <1>3 DEF TextOf, StreamsTurn

LEMMA TakenKeepsText ==
  ASSUME TypeInv, StreamInv, ServerInv, TabInv, TextInv, [Next]_vars, NEW t \in Turns,
         TakeReady(t) \/ TakeAside(t) \/ TakeStart(t) \/ TakeDelta(t) \/ TakeCancelled(t)
         \/ TakeDone(t) \/ TakeError(t)
  PROVE  TextInv'
<1> USE DEF TabInv
<1>1. PICK e \in EventType : TakesEvent(t, e) /\ Takes(t, e.event)
  BY TakenIs DEF TakeReady, TakeAside, TakeStart, TakeDelta, TakeCancelled, TakeDone, TakeError
<1>2. StreamsTurn(t) /\ view \in Timelines /\ stream \in StreamState
  BY <1>1 DEF TakesEvent, OneStream, Active, StreamsTurn, Streaming, TabTyped, ShownTyped
<1>3. TextOf(t)
  BY <1>2 DEF TextInv, TextOf
<1>4. ~ Streaming' => TextInv'
  BY DEF TextInv, StreamsTurn
<1>5. stream'.turn = t /\ TextOf(t)' => TextInv'
  BY DEF TextInv, StreamsTurn, TextOf
<1>6. CASE TakeReady(t) \/ TakeAside(t)
  <2>1. stream' = stream /\ view' = view /\ e.event # "delta"
    BY <1>1, <1>6, TakenIs DEF TakeReady, TakeAside, Takes, TakesEvent
  <2>2. Deltas(t)' = Deltas(t)
    BY <1>1, <2>1 DEF TakesEvent
  <2>3. TextOf(t)'
    BY <1>3, <2>1, <2>2 DEF TextOf
  <2> QED
    BY <1>2, <1>5, <2>1, <2>3 DEF StreamsTurn
<1>7. CASE TakeStart(t)
  <2> DEFINE q == Message(t, "user", FALSE, Value(t), UserSize[t])
             a == Message(t, "assistant", FALSE, Value(t) + 1, 0)
             pending == {m \in view : m.turn = t /\ m.temp}
  <2>1. view' = IF pending = {} THEN Merge(view, {q, a}) ELSE Merge({q, a}, view \ pending)
    BY <1>2, <1>7 DEF TakeStart
  <2>2. Takes(t, "generation_start")
    BY <1>7 DEF TakeStart
  <2>3. Deltas(t) = 0
    BY <2>2, StartIsFirst
  <2>4. Deltas(t)' = 0
    BY <1>1, <2>2, <2>3, TakenIs DEF TakesEvent, Takes
  <2>5. stream'.turn = t /\ stream'.generation
    BY <1>2, <1>7 DEF TakeStart, StreamsTurn
  <2>6. a.turn = t /\ a.kind = "assistant" /\ ~ a.temp /\ a.size = 0
    BY DEF Message
  <2> HIDE DEF q, a
  <2>7. \E m \in view' : m.turn = t /\ m.kind = "assistant" /\ ~ m.temp /\ m.size = 0
    <3>1. CASE pending = {}
      <4>1. stream.generation
        BY <1>3, <3>1 DEF TextOf
      <4>2. \E m \in view : m.turn = t /\ m.kind = "assistant" /\ ~ m.temp /\ m.size = 0
        BY <1>3, <2>3, <4>1 DEF TextOf
      <4> QED
        BY <2>1, <3>1, <4>2 DEF Merge
    <3>2. CASE pending # {}
      <4>1. a \in view'
        BY <2>1, <3>2 DEF Merge
      <4> QED
        BY <2>6, <4>1
    <3> QED
      BY <3>1, <3>2
  <2>8. TextOf(t)'
    BY <2>4, <2>5, <2>7 DEF TextOf
  <2> QED
    BY <1>5, <2>5, <2>8
<1>8. CASE TakeDelta(t)
  <2>1. Takes(t, "delta") /\ stream' = stream
    BY <1>8 DEF TakeDelta
  <2>2. PICK f \in EventType : TakesEvent(t, f) /\ f.event = "delta"
    BY <2>1, TakenIs
  <2>3. Value(t) = 1
    BY <2>2 DEF TakesEvent, ServerInv, ValuesOfEvents
  <2>4. view' = {Grown(m, t, 1) : m \in view}
    BY <1>8, <2>3 DEF TakeDelta, WithChunk, Grown
  <2>5. Deltas(t)' = Deltas(t) + 1
    BY <2>2 DEF TakesEvent
  <2>6. TextOf(t)'
    <3>1. PICK m \in view :
            IF stream.generation
              THEN m.turn = t /\ m.kind = "assistant" /\ ~ m.temp /\ m.size = Deltas(t)
              ELSE m.turn = t /\ m.temp
      BY <1>3 DEF TextOf
    <3>2. m \in MessageType /\ Grown(m, t, 1) \in view'
      BY <1>2, <2>4 DEF Timelines
    <3>3. IF stream.generation
            THEN /\ Grown(m, t, 1).turn = t /\ Grown(m, t, 1).kind = "assistant"
                 /\ ~ Grown(m, t, 1).temp /\ Grown(m, t, 1).size = Deltas(t) + 1
            ELSE Grown(m, t, 1).turn = t /\ Grown(m, t, 1).temp
      BY <3>1, <3>2, GrownIs
    <3> QED
      BY <2>1, <2>5, <3>2, <3>3 DEF TextOf
  <2> QED
    BY <1>2, <1>5, <2>1, <2>6 DEF StreamsTurn
<1>9. CASE TakeCancelled(t) \/ TakeDone(t)
  BY <1>4, <1>9 DEF TakeCancelled, TakeDone, Streaming
<1>10. CASE TakeError(t)
  <2>1. PICK f \in EventType : TakesEvent(t, f) /\ f.event = "error"
    BY <1>10, TakenIs DEF TakeError
  <2>2. Deltas(t)' = Deltas(t)
    BY <2>1 DEF TakesEvent
  <2>3. (stream' = stream /\ view' = view) \/ stream' = None
    BY <1>2, <1>10 DEF TakeError, HandleError, ClearOwn
  <2>4. CASE stream' = stream /\ view' = view
    <3>1. TextOf(t)'
      BY <1>3, <2>2, <2>4 DEF TextOf
    <3> QED
      BY <1>2, <1>5, <2>4, <3>1 DEF StreamsTurn
  <2> QED
    BY <1>4, <2>3, <2>4 DEF Streaming
<1> QED
  BY <1>6, <1>7, <1>8, <1>9, <1>10

LEMMA ClosingKeepsText ==
  ASSUME TypeInv, StreamInv, ServerInv, TabInv, TextInv, [Next]_vars, NEW t \in Turns,
         ConnectionLost(t) \/ Closes(t) \/ RefreshReads(t) \/ RefreshEnds(t)
  PROVE  TextInv'
<1> USE DEF TabInv
<1>1. ~ Streaming' => TextInv'
  BY DEF TextInv, StreamsTurn
<1>2. read' = read /\ \A u \in Turns : Deltas(u)' = Deltas(u)
  <2>1. read' = read
    BY DEF ConnectionLost, Closes, RefreshReads, RefreshEnds
  <2> QED
    BY <2>1, ReadStays
<1>3. (stream' = stream /\ view' = view) \/ stream' = None
  <2>1. CASE ConnectionLost(t)
    <3>1. StreamsTurn(t)
      BY <2>1, LostIsOpen DEF OneStream, Active
    <3> QED
      BY <2>1, <3>1 DEF ConnectionLost, HandleError, ClearOwn
  <2>2. CASE Closes(t)
    <3>1. ~ StreamsTurn(t)
      BY <2>2, ClosesIsOver DEF OneStream
    <3> QED
      BY <2>2, <3>1 DEF Closes, ClearOwn
  <2>3. CASE RefreshReads(t)
    BY <2>3 DEF RefreshReads
  <2>4. CASE RefreshEnds(t)
    <3>1. StreamsTurn(t)
      BY <2>4 DEF RefreshEnds, OneStream, Active
    <3> QED
      BY <2>4, <3>1 DEF RefreshEnds, ClearOwn
  <2> QED
    BY <2>1, <2>2, <2>3, <2>4
<1>4. CASE stream' = stream /\ view' = view
  <2> SUFFICES ASSUME NEW u \in Turns, StreamsTurn(u)' PROVE TextOf(u)'
    BY DEF TextInv, TextOf
  <2>1. TextOf(u)
    BY <1>4 DEF TextInv, TextOf, StreamsTurn, Streaming
  <2> QED
    BY <1>2, <1>4, <2>1 DEF TextOf
<1> QED
  BY <1>1, <1>3, <1>4 DEF Streaming

LEMMA TextKept ==
  ASSUME TypeInv, StreamInv, ServerInv, TabInv, TextInv, [ConsoleNext]_allVars
  PROVE  TextInv'
<1>1. [Next]_vars
  BY TabStepsAreTurnSteps
<1>2. ASSUME UNCHANGED consoleVars PROVE TextInv'
  BY <1>1, <1>2, TextStays DEF consoleVars, Keeps, SameStream
<1>3. ASSUME NEW t \in Turns, AskCancel(t) \/ CancelAnswered(t) PROVE TextInv'
  <2>1. SameStream
    BY <1>3, StreamIsOf DEF AskCancel, CancelAnswered, SameStream, StreamState, StreamsTurn, Streaming,
      TabInv
  <2>2. UNCHANGED <<consumer, read, aborted, view>>
    BY <1>3 DEF AskCancel, CancelAnswered
  <2> QED
    BY <1>1, <2>1, <2>2, TextStays DEF Keeps
<1>4. ASSUME LoadReads \/ LoadShows \/ RestartReverts \/ (\E m \in view : AskRestart(m)) \/ AskDelete
      PROVE  TextInv'
  <2>1. UNCHANGED <<stream, consumer, read, aborted>>
    BY <1>4 DEF LoadReads, LoadShows, RestartReverts, AskRestart, AskDelete
  <2>2. Streaming => \A m \in view : m \in view'
    BY <1>4 DEF LoadReads, LoadShows, RestartReverts, AskRestart, AskDelete, Merge
  <2> QED
    BY <1>1, <2>1, <2>2, TextStays DEF Keeps, SameStream
<1>5. ASSUME SessionDeleted \/ (\E t \in Turns : Abort(t)) PROVE TextInv'
  BY <1>5 DEF SessionDeleted, Abort, TextInv, StreamsTurn, Streaming
<1>6. ASSUME NEW t \in Turns, ServerTurn(t) \/ NetworkDrops(t) PROVE UNCHANGED consoleVars
  BY <1>6 DEF ServerTurn, NetworkDrops
<1>7. UNCHANGED allVars => UNCHANGED consoleVars
  BY DEF allVars
<1> QED
  BY <1>1, <1>2, <1>3, <1>4, <1>5, <1>6, <1>7, SendKeepsText, TakenKeepsText, ClosingKeepsText
  DEF ConsoleNext, UserStep, ConsumerStep

(* The text of a running stream is on screen in full and once, for any       *)
(* number of chunks: no page that arrives meanwhile sets it back, and no     *)
(* chunk is added to another message or twice (mergeMessageViewModels, appendMessageDelta).      *)
THEOREM StreamedTextIsShown == ConsoleSpec => []StreamedTextShown
<1>1. TextInv => StreamedTextShown
  BY DEF TextInv, StreamedTextShown, Deltas
<1>2. TabFacts /\ TextInv /\ [ConsoleNext]_allVars => TextInv'
  BY TextKept DEF TabFacts, SessionFacts
<1>3. Init /\ ConsoleInit => TextInv
  BY DEF ConsoleInit, TextInv, StreamsTurn, Streaming
<1> QED
  BY <1>1, <1>2, <1>3, TabAlways, PTL DEF ConsoleSpec

-----------------------------------------------------------------------------
(* What is shown of a turn. *)

Mark(m) == <<m.kind, m.temp, m.size>>

LEMMA PartIs ==
  ASSUME NEW S, NEW t
  PROVE  \A x : x \in Part(S, t) <=> \E m \in S : m.turn = t /\ x = Mark(m)
  BY DEF Part, Mark

LEMMA PartSame ==
  ASSUME NEW A, NEW B, NEW t, \A m \in A : m.turn = t => m \in B, \A m \in B : m.turn = t => m \in A
  PROVE  Part(A, t) = Part(B, t)
<1>1. {m \in A : m.turn = t} = {m \in B : m.turn = t}
  OBVIOUS
<1> QED
  BY <1>1 DEF Part

(* A merge shows what comes in, of the turns it covers... *)
LEMMA PartCovered ==
  ASSUME NEW A \in Timelines, NEW B \in Timelines, NEW t,
         \A m \in B : m.turn = t => \E n \in A : Uid(n) = Uid(m)
  PROVE  Part(Merge(A, B), t) = Part(A, t)
<1>1. \A m \in Merge(A, B) : m.turn = t => m \in A
  BY MergeKeeps
<1>2. \A m \in A : m \in Merge(A, B)
  BY MergeKeeps
<1> QED
  BY <1>1, <1>2, PartSame

(* ...a turn that is shown as it comes in among them. *)
LEMMA PartAgreed ==
  ASSUME NEW A \in Timelines, NEW B \in Timelines, NEW t, Part(A, t) = Part(B, t)
  PROVE  Part(Merge(A, B), t) = Part(A, t)
<1>1. ASSUME NEW m \in B, m.turn = t PROVE \E n \in A : Uid(n) = Uid(m)
  <2>1. Mark(m) \in Part(A, t)
    BY <1>1, PartIs
  <2>2. PICK n \in A : n.turn = t /\ Mark(m) = Mark(n)
    BY <2>1, PartIs
  <2> QED
    BY <1>1, <2>2, UidSame DEF Mark
<1> QED
  BY <1>1, PartCovered

(* A turn's answer shown, and its question. *)
LEMMA AnsweredIs ==
  ASSUME NEW A \in Timelines, NEW t, NEW n, Part(A, t) = Answered(t, n)
  PROVE  /\ \A m \in A : m.turn = t => /\ ~ m.temp
                                       /\ \/ m.kind = "user" /\ m.size = UserSize[t]
                                          \/ m.kind = "assistant" /\ m.size = n
         /\ \E m \in A : m.turn = t /\ m.kind = "user" /\ ~ m.temp
         /\ \E m \in A : m.turn = t /\ m.kind = "assistant" /\ ~ m.temp
<1>1. \A m \in A : m.turn = t => Mark(m) \in Answered(t, n)
  BY PartIs
<1>2. \A x \in Answered(t, n) : \E m \in A : m.turn = t /\ x = Mark(m)
  BY PartIs
<1>3. PICK m \in A : m.turn = t /\ <<"user", FALSE, UserSize[t]>> = Mark(m)
  BY <1>2 DEF Answered
<1>4. PICK k \in A : k.turn = t /\ <<"assistant", FALSE, n>> = Mark(k)
  BY <1>2 DEF Answered
<1>5. m.kind = "user" /\ m.temp = FALSE /\ k.kind = "assistant" /\ k.temp = FALSE
  BY <1>3, <1>4 DEF Mark
<1> QED
  BY <1>1, <1>3, <1>4, <1>5 DEF Answered, Mark

LEMMA IsAnswered ==
  ASSUME NEW A \in Timelines, NEW t, NEW n,
         \A m \in A : m.turn = t => /\ ~ m.temp
                                    /\ \/ m.kind = "user" /\ m.size = UserSize[t]
                                       \/ m.kind = "assistant" /\ m.size = n,
         \E m \in A : m.turn = t /\ m.kind = "user",
         \E m \in A : m.turn = t /\ m.kind = "assistant"
  PROVE  Part(A, t) = Answered(t, n)
<1>1. \A m \in A : m.temp \in BOOLEAN
  BY DEF Timelines, MessageType
<1>2. \A m \in A : m.turn = t => Mark(m) \in Answered(t, n)
  BY <1>1 DEF Mark, Answered
<1>3. \A x \in Part(A, t) : x \in Answered(t, n)
  BY <1>2, PartIs
<1>4. PICK m \in A : m.turn = t /\ m.kind = "user"
  OBVIOUS
<1>5. PICK k \in A : k.turn = t /\ k.kind = "assistant"
  OBVIOUS
<1>6. Mark(m) = <<"user", FALSE, UserSize[t]>> /\ Mark(k) = <<"assistant", FALSE, n>>
  BY <1>1, <1>4, <1>5 DEF Mark
<1>7. Mark(m) \in Part(A, t) /\ Mark(k) \in Part(A, t)
  BY <1>4, <1>5, PartIs
<1> QED
  BY <1>3, <1>6, <1>7 DEF Answered

LEMMA GrownAnswer ==
  ASSUME NEW A \in Timelines, NEW t, NEW n \in Nat, NEW k \in Nat, Part(A, t) = Answered(t, n)
  PROVE  Part({Grown(m, t, k) : m \in A}, t) = Answered(t, n + k)
<1> DEFINE B == {Grown(m, t, k) : m \in A}
<1>1. B \in Timelines
  BY GrownTimeline
<1>2. \A m : m \in B <=> \E j \in A : m = Grown(j, t, k)
  OBVIOUS
<1> HIDE DEF B
<1>3. \A j \in A : j \in MessageType
  BY DEF Timelines
<1>4. ASSUME NEW m \in B, m.turn = t
      PROVE  /\ ~ m.temp
             /\ \/ m.kind = "user" /\ m.size = UserSize[t]
                \/ m.kind = "assistant" /\ m.size = n + k
  <2>1. PICK j \in A : m = Grown(j, t, k)
    BY <1>2
  <2>2. j.turn = t /\ m.kind = j.kind /\ m.temp = j.temp
    BY <1>3, <1>4, <2>1, GrownIs
  <2>3. /\ ~ j.temp
        /\ \/ j.kind = "user" /\ j.size = UserSize[t]
           \/ j.kind = "assistant" /\ j.size = n
    BY <2>2, AnsweredIs
  <2> QED
    BY <1>3, <2>1, <2>2, <2>3, GrownIs
<1>5. ASSUME NEW kind, \E j \in A : j.turn = t /\ j.kind = kind
      PROVE  \E m \in B : m.turn = t /\ m.kind = kind
  <2>1. PICK j \in A : j.turn = t /\ j.kind = kind
    BY <1>5
  <2>2. Grown(j, t, k) \in B /\ Grown(j, t, k).turn = t /\ Grown(j, t, k).kind = kind
    BY <1>2, <1>3, <2>1, GrownIs
  <2> QED
    BY <2>2
<1>6. (\E m \in B : m.turn = t /\ m.kind = "user") /\ (\E m \in B : m.turn = t /\ m.kind = "assistant")
  BY <1>5, AnsweredIs
<1>7. Part(B, t) = Answered(t, n + k)
  BY <1>1, <1>4, <1>6, IsAnswered
<1> QED
  BY <1>7 DEF B

LEMMA OptimisticIs ==
  ASSUME NEW A \in Timelines, NEW t, Part(A, t) = Optimistic(t)
  PROVE  (\A m \in A : m.turn = t => m.temp) /\ \E m \in A : m.turn = t
<1>1. \A m \in A : m.turn = t => Mark(m) \in Optimistic(t)
  BY PartIs
<1>2. \E m \in A : m.turn = t /\ <<"assistant", TRUE, 0>> = Mark(m)
  BY PartIs DEF Optimistic
<1> QED
  BY <1>1, <1>2 DEF Optimistic, Mark

(* What is stored of a turn. *)
LEMMA StoredIs ==
  ASSUME TypeInv, RowsOfTurns, NEW t, StoredInFull(t), NEW n, \A r \in AnswerOf(t) : r.size = n
  PROVE  Part(StoredPage, t) = Answered(t, n)
<1>1. StoredPage \in Timelines /\ \A m \in StoredPage : ~ m.temp
  BY StoredPageTyped DEF Pages
<1>2. ASSUME NEW m \in StoredPage, m.turn = t
      PROVE  \/ m.kind = "user" /\ m.size = UserSize[t]
             \/ m.kind = "assistant" /\ m.size = n
  <2>1. PICK r \in rows : r.kind # "summary" /\ m = Message(r.turn, r.kind, FALSE, r.seq, r.size)
    BY PageRows
  <2>2. m.turn = r.turn /\ m.kind = r.kind /\ m.size = r.size
    BY <2>1 DEF Message
  <2>3. r.kind \in {"user", "assistant"}
    BY <2>1 DEF TypeInv, RowsTyped, RowType
  <2> QED
    BY <1>2, <2>2, <2>3 DEF AnswerOf, RowsOfTurns
<1>3. ASSUME NEW kind \in {"user", "assistant"}, \E r \in rows : r.turn = t /\ r.kind = kind
      PROVE  \E m \in StoredPage : m.turn = t /\ m.kind = kind
  <2>1. PICK r \in rows : r.turn = t /\ r.kind = kind
    BY <1>3
  <2>2. Message(r.turn, r.kind, FALSE, r.seq, r.size) \in StoredPage
    BY <2>1, PageRows
  <2> QED
    BY <2>1, <2>2 DEF Message
<1> QED
  BY <1>1, <1>2, <1>3, IsAnswered DEF StoredInFull

ShowsBoth(S, t) ==
  \A kind \in {"user", "assistant"} : \E m \in S : m.turn = t /\ m.kind = kind /\ m.temp = FALSE

LEMMA StoredShows ==
  ASSUME TypeInv, NEW t, StoredInFull(t)
  PROVE  ShowsBoth(StoredPage, t)
<1> SUFFICES ASSUME NEW kind \in {"user", "assistant"}
             PROVE  \E m \in StoredPage : m.turn = t /\ m.kind = kind /\ m.temp = FALSE
  BY DEF ShowsBoth
<1>1. PICK r \in rows : r.turn = t /\ r.kind = kind
  BY DEF StoredInFull
<1>2. Message(r.turn, r.kind, FALSE, r.seq, r.size) \in StoredPage
  BY <1>1, PageRows
<1> QED
  BY <1>1, <1>2 DEF Message

RowsStay(u) == \A r : r.turn = u => (r \in rows' <=> r \in rows)

PageOfRows(P, R) == \A m : m \in P <=> \E r \in R : m = Message(r.turn, r.kind, FALSE, r.seq, r.size)
PartOfRows(P, R, u) ==
  \A x : x \in Part(P, u) <=> \E r \in R : r.turn = u /\ x = <<r.kind, FALSE, r.size>>

LEMMA PageShows ==
  ASSUME NEW R, NEW u, NEW P, PageOfRows(P, R)
  PROVE  PartOfRows(P, R, u)
<1> DEFINE f(r) == Message(r.turn, r.kind, FALSE, r.seq, r.size)
<1>1. \A r : f(r).turn = r.turn /\ Mark(f(r)) = <<r.kind, FALSE, r.size>>
  BY DEF Message, Mark
<1>2. \A m : m \in P <=> \E r \in R : m = f(r)
  BY DEF PageOfRows
<1> HIDE DEF f
<1>3. \A x : x \in Part(P, u) <=> \E m \in P : m.turn = u /\ x = Mark(m)
  BY PartIs
<1>4. \A x : x \in Part(P, u) <=> \E r \in R : r.turn = u /\ x = <<r.kind, FALSE, r.size>>
  <2> SUFFICES ASSUME NEW x
               PROVE  x \in Part(P, u) <=> \E r \in R : r.turn = u /\ x = <<r.kind, FALSE, r.size>>
    OBVIOUS
  <2>1. ASSUME x \in Part(P, u) PROVE \E r \in R : r.turn = u /\ x = <<r.kind, FALSE, r.size>>
    <3>1. PICK m \in P : m.turn = u /\ x = Mark(m)
      BY <1>3, <2>1
    <3>2. PICK r \in R : m = f(r)
      BY <1>2
    <3> QED
      BY <1>1, <3>1, <3>2
  <2>2. ASSUME NEW r \in R, r.turn = u, x = <<r.kind, FALSE, r.size>> PROVE x \in Part(P, u)
    <3>1. f(r) \in P
      BY <1>2
    <3>2. f(r).turn = u /\ x = Mark(f(r))
      BY <1>1, <2>2
    <3> QED
      BY <1>3, <3>1, <3>2
  <2> QED
    BY <2>1, <2>2
<1> QED
  BY <1>4 DEF PartOfRows

LEMMA StoredStays ==
  ASSUME NEW u, RowsStay(u)
  PROVE  Part(StoredPage, u)' = Part(StoredPage, u) /\ (StoredInFull(u)' <=> StoredInFull(u))
<1> DEFINE Shows(r, x) == r.turn = u /\ r.kind # "summary" /\ x = <<r.kind, FALSE, r.size>>
<1>1. \A x : x \in Part(StoredPage, u) <=> \E r \in rows : Shows(r, x)
  <2>1. PageOfRows(StoredPage, rows \ Summaries)
    BY DEF PageOfRows, StoredPage
  <2>2. PartOfRows(StoredPage, rows \ Summaries, u)
    BY <2>1, PageShows
  <2> QED
    BY <2>2 DEF PartOfRows, Summaries
<1>2. \A x : x \in Part(StoredPage, u)' <=> \E r \in rows' : Shows(r, x)
  <2>1. PageOfRows(StoredPage, rows \ Summaries)'
    BY DEF PageOfRows, StoredPage
  <2>2. PartOfRows(StoredPage, rows \ Summaries, u)'
    BY <2>1, PageShows
  <2> QED
    BY <2>2 DEF PartOfRows, Summaries
<1>3. \A x : (\E r \in rows' : Shows(r, x)) <=> (\E r \in rows : Shows(r, x))
  BY DEF RowsStay
<1> HIDE DEF Shows
<1>4. \A x : x \in Part(StoredPage, u)' <=> x \in Part(StoredPage, u)
  BY <1>1, <1>2, <1>3
<1>5. Part(StoredPage, u)' = Part(StoredPage, u)
  <2>1. \A A, B : (\A x : x \in A <=> x \in B) => A = B
    OBVIOUS
  <2> QED
    BY <1>4, <2>1
<1> QED
  BY <1>5 DEF RowsStay, StoredInFull

-----------------------------------------------------------------------------
(* What is shown is what is stored. *)

(* A step that leaves a turn's rows and messages and its activity. *)
LEMMA SureStays ==
  ASSUME NEW u \in Turns, SureTurn(u), RowsStay(u), pc'[u] = pc[u] \/ pc'[u] = "gone",
         sent'[u] = sent[u],
         Listens(u)' <=> Listens(u), Active(u)' <=> Active(u), Started(u)' <=> Started(u),
         Deltas(u)' = Deltas(u), consumer'[u] = "refreshing" => consumer[u] = "refreshing",
         \A m : m.turn = u => (m \in view' <=> m \in view),
         \A v \in Turns : page'[v] \in {None, page[v], StoredPage},
         page'[u] # None => page[u] # None \/ pc[u] \notin Running,
         load' = load \/ (load'.phase # "none" /\ (load'.phase = "read" => load'.page = StoredPage)),
         NotReverted' => NotReverted
  PROVE  SureTurn(u)'
<1> USE DEF SureTurn
<1>1. Part(StoredPage, u)' = Part(StoredPage, u) /\ (StoredInFull(u)' <=> StoredInFull(u))
  BY StoredStays
<1>2. Part(view', u) = Part(view, u)
  BY PartSame
<1>3. "gone" \notin Running /\ "gone" \notin AfterAsk
  BY DEF Running, Opening, Generating, AfterAsk
<1>4. Has(u, {"generation_start"})' <=> Has(u, {"generation_start"})
  BY QuietStream
<1>5. Attended(u)' /\ KeptInFull(u)'
  BY <1>1, <1>3, <1>4 DEF Attended, KeptInFull
<1>6. ShownLive(u)'
  <2>1. Answered(u, Deltas(u))' = Answered(u, Deltas(u)) /\ Optimistic(u)' = Optimistic(u)
    BY DEF Answered, Optimistic
  <2> QED
    BY <1>2, <2>1 DEF ShownLive
<1>7. ShownBroken(u)'
  BY <1>3, <1>4 DEF ShownBroken
<1>8. PagesAgree(u)'
  BY <1>1 DEF PagesAgree
<1>9. LoadAgrees(u)'
  BY <1>1 DEF LoadAgrees
<1>10. ShownSettled(u)'
  BY <1>1, <1>2 DEF ShownSettled, Settled
<1> QED
  BY <1>5, <1>6, <1>7, <1>8, <1>9, <1>10

(* Other turns' rows. *)
LEMMA TurnsRowsStay ==
  ASSUME TypeInv, NEW t \in Turns, TurnStep(t), NEW u \in Turns, u # t
  PROVE  RowsStay(u)
  BY OthersRowsKept, NewRowsOwn DEF RowsStay

(* From "append" a turn either stores its messages or leaves. *)
LEMMA AppendLeads ==
  ASSUME TypeInv, NEW t \in Turns, TurnStep(t), pc[t] = "append", pc'[t] \in AfterAsk
  PROVE  AppendInserts(t)
<1> USE DEF TypeInv, TurnsTyped, Goto, AfterAsk, Generating
<1>1. ~ AppendFails(t) /\ ~ Interrupted(t)
  <2>1. ~ AppendFails(t)
    BY DEF AppendFails, Breaks, EndTurn
  <2>2. produced[t] = 0 /\ ~ (produced[t] > 0)
    BY DEF Storing
  <2>3. ~ Interrupted(t)
    BY <2>2 DEF Interrupted, EndTurn
  <2> QED
    BY <2>1, <2>3
<1>2. ~ ContextStep(t)
  BY DEF ContextStep, LoadSummary, LoadRecent, SummaryReads, SummaryInserts, Reload, Retrieve,
    CancelledInContext, StartStream
<1>3. AnswerStep(t) => Interrupted(t)
  BY DEF AnswerStep, Chunk, StreamEnds, StoreCancelled, StoreAnswer, Fails, StoreFailed,
    StoreInterrupted
<1> QED
  BY <1>1, <1>2, <1>3 DEF TurnStep, OpeningStep, OpenSession, OpenFails, AppendReads, TitleEnds,
    Register

(* A turn that runs keeps its two rows. *)
LEMMA RunningKeepsRows ==
  ASSUME TypeInv, NEW t \in Turns, TurnStep(t),
         pc[t] \in AfterAsk \/ Has(t, {"generation_start"}) => StoredInFull(t),
         pc'[t] \in AfterAsk \/ Has(t, {"generation_start"})'
  PROVE  StoredInFull(t)'
<1>1. CASE AppendInserts(t)
  <2>1. PICK last \in Nat : rows' = rows \cup {Question(seqRead[t], t), Answer(last + 1, t, 0)}
    BY <1>1, MessagesInserted
  <2>2. /\ Question(seqRead[t], t).turn = t /\ Question(seqRead[t], t).kind = "user"
        /\ Answer(last + 1, t, 0).turn = t /\ Answer(last + 1, t, 0).kind = "assistant"
    BY DEF Question, Answer, Row
  <2> QED
    BY <2>1, <2>2 DEF StoredInFull
<1>2. CASE ~ AppendInserts(t)
  <2>1. pc[t] \in AfterAsk \/ Has(t, {"generation_start"})
    <3>1. CASE pc'[t] \in AfterAsk
      <4>1. pc[t] \in HoldingPlaces /\ pc[t] # "append"
        <5>1. pc'[t] \in HoldingPlaces /\ pc'[t] # "append"
          BY <3>1 DEF AfterAsk, HoldingPlaces, Generating
        <5>2. pc[t] \in HoldingPlaces
          BY <5>1, PlaceMoves
        <5>3. pc[t] # "append"
          BY <1>2, <3>1, AppendLeads
        <5> QED
          BY <5>2, <5>3
      <4> QED
        BY <4>1 DEF AfterAsk, HoldingPlaces
    <3>2. CASE Has(t, {"generation_start"})' /\ ~ Has(t, {"generation_start"})
      <4>1. PICK e \in EventType : Told1(t, e)
        <5>1. sent'[t] # sent[t]
          BY <3>2, QuietStream
        <5> QED
          BY <5>1, TurnSays
      <4>2. e.event = "generation_start"
        BY <3>2, <4>1, HasMoves DEF Told1, Says
      <4> QED
        BY <4>1, <4>2 DEF Told1, AfterAsk
    <3> QED
      BY <3>1, <3>2
  <2>2. StoredInFull(t)
    BY <2>1
  <2>3. CASE SummaryInserts(t) \/ rows' = rows
    BY <2>2, <2>3 DEF StoredInFull, SummaryInserts
  <2>4. CASE Stores(t)
    <3> DEFINE S == AnswerOf(t)
    <3> HIDE DEF S
    <3>1. S \in SUBSET rows /\ produced[t] \in Nat /\ RowsTyped /\ rows' = Rewrite(S, produced[t])
      BY <2>4 DEF S, TypeInv, TurnsTyped, AnswerOf, Stores
    <3>2. \A r \in rows : \E q \in Rewrite(S, produced[t]) : SameRow(q, r)
      BY <3>1, RewriteKeeps
    <3> QED
      BY <2>2, <3>1, <3>2 DEF StoredInFull, SameRow
  <2> QED
    BY <1>2, <2>3, <2>4, RowsOfTurn
<1> QED
  BY <1>1, <1>2

(* A deleted session stays so, and only a request deletes it. *)
LEMMA TurnKeepsSession ==
  ASSUME TypeInv, SessionInv, NEW t \in Turns, TurnStep(t)
  PROVE  session' = "deleted" <=> session = "deleted"
<1>1. CASE OpenSession(t)
  BY <1>1 DEF OpenSession, SessionInv
<1>2. CASE session' = session
  BY <1>2
<1>3. AppendInserts(t) \/ SummaryInserts(t) \/ Stores(t) => session' = session
  BY DEF AppendInserts, SummaryInserts, Stores
<1> QED
  BY <1>1, <1>2, <1>3, RowsOfTurn

(* A page is at hand for the active turn only, and no load is on its way    *)
(* under a stream the tab is sure of.                                        *)
LEMMA OnlyOwnPage ==
  ASSUME TabInv, NEW t \in Turns, Active(t), NEW v \in Turns, page[v] # None
  PROVE  v = t /\ consumer[v] = "refreshing"
<1>1. Active(v) /\ consumer[v] = "refreshing"
  BY DEF TabInv, OneStream, Active
<1> QED
  BY <1>1, ActiveAlone DEF TabInv

LEMMA NoLoadNoRestart ==
  ASSUME TabInv, ViewInv, NEW t \in Turns, Active(t), NEW u \in Turns \ unsure
  PROVE  load.phase = "none" /\ restart = None /\ Streaming /\ StreamsTurn(t)
<1>1. StreamsTurn(t) /\ Streaming /\ restart = None
  BY DEF TabInv, OneStream, StreamsTurn
<1> QED
  BY <1>1 DEF ViewInv

LEMMA ServerKeepsView ==
  ASSUME SessionFacts, TabInv, ViewInv, NEW t \in Turns, ServerTurn(t)
  PROVE  ViewInv'
<1>1. TypeInv /\ SessionInv /\ StreamInv /\ TabTyped
  BY DEF SessionFacts, TabInv
<1>2. TurnStep(t) /\ UNCHANGED consoleVars
  BY DEF ServerTurn
<1>3. [Next]_vars
  BY <1>2 DEF Next
<1>4. session' = "deleted" <=> session = "deleted"
  BY <1>1, <1>2, TurnKeepsSession
<1>5. /\ UNCHANGED <<key, view, stream, consumer, read, aborted, page, load, restart, unsure>>
      /\ \A u \in Turns : Keeps(u)
  BY <1>2 DEF consoleVars, Keeps
<1>6. \A u \in Turns : /\ Listens(u)' <=> Listens(u)
                       /\ Active(u)' <=> Active(u)
                       /\ Started(u)' <=> Started(u)
                       /\ Deltas(u)' = Deltas(u)
  BY <1>1, <1>3, <1>5, ActiveStays
<1>7. ASSUME NEW u \in Turns \ unsure, u # t, SureTurn(u) PROVE SureTurn(u)'
  <2>1. pc'[u] = pc[u] /\ sent'[u] = sent[u]
    BY <1>1, <1>2, <1>7, TurnIsOwn DEF OthersKept
  <2>2. RowsStay(u)
    BY <1>1, <1>2, <1>7, TurnsRowsStay
  <2>3. /\ \A m : m.turn = u => (m \in view' <=> m \in view)
        /\ \A v \in Turns : page'[v] \in {None, page[v], StoredPage}
        /\ NotReverted' => NotReverted
    BY <1>5 DEF NotReverted
  <2> QED
    BY <1>5, <1>6, <1>7, <2>1, <2>2, <2>3, SureStays
<1>8. ASSUME t \notin unsure, SureTurn(t) PROVE SureTurn(t)'
  <2>1. pc[t] \in Running /\ Active(t)
    BY <1>1, <1>2, <1>8, PlaceMoves DEF SureTurn, Attended
  <2>2. load.phase = "none" /\ restart = None
    BY <1>8, <2>1, NoLoadNoRestart
  <2>3. \A v \in Turns : page[v] = None
    BY <1>8, <2>1, OnlyOwnPage DEF SureTurn, ShownBroken
  <2>4. Active(t)'
    BY <1>6, <2>1
  <2>5. KeptInFull(t)'
    BY <1>1, <1>2, <1>8, <2>1, RunningKeepsRows DEF KeptInFull, SureTurn
  <2>6. ShownLive(t)'
    <3>1. Answered(t, Deltas(t))' = Answered(t, Deltas(t)) /\ Optimistic(t)' = Optimistic(t)
      BY <1>6 DEF Answered, Optimistic
    <3>2. ShownLive(t)
      BY <1>8 DEF SureTurn
    <3> QED
      BY <1>5, <1>6, <3>1, <3>2 DEF ShownLive
  <2>7. ShownBroken(t)'
    <3>1. Has(t, {"generation_start"}) => Has(t, {"generation_start"})'
      <4>1. CASE sent'[t] = sent[t]
        BY <4>1, QuietStream
      <4>2. ASSUME NEW e \in EventType, Told1(t, e)
            PROVE  Has(t, {"generation_start"}) => Has(t, {"generation_start"})'
        BY <1>1, <4>2, HasMoves DEF Told1, Says
      <4> QED
        BY <1>1, <1>2, <4>1, <4>2, TurnSays
    <3> QED
      BY <1>5, <1>8, <2>3, <3>1 DEF ShownBroken, SureTurn
  <2> QED
    BY <1>5, <2>2, <2>3, <2>4, <2>5, <2>6, <2>7 DEF SureTurn, Attended, PagesAgree, LoadAgrees,
      ShownSettled
<1>9. session' # "deleted" => \A u \in Turns \ unsure : SureTurn(u)'
  BY <1>4, <1>7, <1>8 DEF ViewInv
<1> QED
  BY <1>4, <1>5, <1>9 DEF ViewInv, Streaming

(* Steps that move no rows, no messages and no consumer. *)
LEMMA QuietKeepsView ==
  ASSUME TypeInv, TabInv, ViewInv, [Next]_vars, rows' = rows, session' = session, sent' = sent,
         \A u \in Turns : pc'[u] = pc[u] \/ pc'[u] = "gone",
         key' = key, view' = view, \A u \in Turns : Keeps(u),
         unsure \subseteq unsure', unsure' \subseteq Turns,
         \A v \in Turns : page'[v] \in {None, page[v], StoredPage},
         \A u \in Turns \ unsure' : page'[u] # None => page[u] # None \/ pc[u] \notin Running,
         load' = load \/ (load'.phase # "none" /\ (load'.phase = "read" => load'.page = StoredPage)),
         Streaming' /\ load'.phase # "none" => Streaming /\ load.phase # "none",
         NotReverted' => NotReverted
  PROVE  ViewInv'
<1>1. \A u \in Turns : /\ Listens(u)' <=> Listens(u)
                       /\ Active(u)' <=> Active(u)
                       /\ Started(u)' <=> Started(u)
                       /\ Deltas(u)' = Deltas(u)
  BY ActiveStays DEF TabInv
<1>2. ASSUME NEW u \in Turns \ unsure', SureTurn(u) PROVE SureTurn(u)'
  <2>1. consumer'[u] = consumer[u]
    BY DEF Keeps
  <2>2. RowsStay(u)
    BY DEF RowsStay
  <2> QED
    BY <1>1, <1>2, <2>1, <2>2, SureStays
<1> QED
  BY <1>2 DEF ViewInv

-----------------------------------------------------------------------------
(* What the events of a turn make of what is shown of it. *)

(* A closing event tells how the turn ended and how long its answer is. *)
LEMMA ClosingTold ==
  ASSUME SessionFacts, TabTyped, NEW t \in Turns, NEW e \in EventType, TakesEvent(t, e),
         e.event \in Closing
  PROVE  /\ Started(t) /\ Has(t, {"generation_start"}) /\ connected[t]
         /\ <<e.event, pc[t]>> \in Closers
         /\ e.event = "cancelled" => Told(t) = Deltas(t) + e.value
         /\ e.event = "message_done" => Told(t) = e.value
<1>1. sent[t] \in Seq(EventType)
  BY DEF SessionFacts, TypeInv, StreamsTyped
<1>2. PICK n \in Nat : n = Len(sent[t]) /\ DOMAIN sent[t] = 1..n
  BY <1>1
<1>3. PICK k \in Nat : k = read[t] /\ k + 1 \in 1..n /\ sent[t][k + 1] = e
  BY <1>2 DEF TabTyped, ReadsTyped, TakesEvent
<1>4. /\ (k + 1) - 1 = k /\ k + 1 <= n /\ \A i \in 1..k : i \in 1..n /\ i # k + 1
      /\ \A i \in 1..n : i \in 1..k \/ i = k + 1 \/ k + 1 \in 1..(i - 1)
      /\ \A i \in 1..n : i <= k + 1 => i \in 1..k \/ i = k + 1
  BY <1>3
<1>5. \A i \in 1..n : i \in 1..k \/ i = k + 1
  BY <1>2, <1>3, <1>4 DEF SessionFacts, StreamInv, TurnStream, InOrder
<1>6. n = k + 1
  <2>1. n \in 1..n
    BY <1>2, <1>4, <1>3
  <2>2. n \in 1..k => n <= k
    OBVIOUS
  <2> QED
    BY <1>2, <1>3, <1>4, <1>5, <2>1, <2>2
<1>7. connected[t] /\ <<e.event, pc[t]>> \in Closers
  BY <1>2, <1>3 DEF SessionFacts, ServerInv, EndsAsTold
<1>8. Started(t) /\ Has(t, {"generation_start"})
  <2>1. \E j \in 1..k : sent[t][j].event = "generation_start"
    BY <1>2, <1>3, <1>4 DEF SessionFacts, ServerInv, StartsOnce
  <2> QED
    BY <1>2, <1>3, <1>4, <2>1 DEF Started, Has
<1>9. \A i \in 1..k : sent[t][i].event \notin Closing
  BY <1>2, <1>3, <1>4 DEF SessionFacts, StreamInv, TurnStream, InOrder
<1> DEFINE D == {i \in 1..k : sent[t][i].event = "delta"}
<1>10. Deltas(t) = Cardinality(D) /\ IsFiniteSet(D) /\ Cardinality(D) \in Nat /\ k + 1 \notin D
  BY <1>3, <1>4, DeltasFinite DEF Deltas
<1>11. \A i \in 1..k : Counted(sent[t][i]) <=> sent[t][i].event = "delta"
  BY <1>2, <1>4, <1>9 DEF Counted, Closing, SessionFacts, ServerInv, ValuesOfEvents
<1>12. CountedIn(sent[t]) = IF Counted(e) THEN D \cup {k + 1} ELSE D
  BY <1>2, <1>3, <1>4, <1>5, <1>11 DEF CountedIn
<1>13. e.event = "cancelled" => Told(t) = Deltas(t) + e.value
  <2> SUFFICES ASSUME e.event = "cancelled" PROVE Told(t) = Deltas(t) + e.value
    OBVIOUS
  <2>1. e.value \in {0, 1}
    BY <1>2, <1>3 DEF SessionFacts, ServerInv, ValuesOfEvents
  <2>2. Told(t) = Cardinality(CountedIn(sent[t]))
    BY ToldIsCount
  <2>3. CASE e.value = 1
    <3>1. Counted(e)
      BY <2>3 DEF Counted
    <3> HIDE DEF D
    <3> QED
      BY <1>10, <1>12, <2>2, <2>3, <3>1, FS_AddElement
  <2>4. CASE e.value = 0
    <3>1. ~ Counted(e)
      BY <2>4 DEF Counted
    <3> HIDE DEF D
    <3> QED
      BY <1>10, <1>12, <2>2, <2>4, <3>1
  <2> QED
    BY <2>1, <2>3, <2>4
<1>14. e.event = "message_done" => Told(t) = e.value
  <2> SUFFICES ASSUME e.event = "message_done" PROVE Told(t) = e.value
    OBVIOUS
  <2>1. pc[t] = "done"
    BY <1>7 DEF Closers
  <2>2. sent[t][n] = Event("message_done", Told(t))
    BY <1>2, <1>7, <2>1 DEF SessionFacts, AnswerInv, TurnAnswer
  <2> QED
    BY <1>3, <1>6, <2>2 DEF Event
<1> QED
  BY <1>7, <1>8, <1>13, <1>14

(* What is merged of one turn leaves the others' messages. *)
LEMMA MergeOthers ==
  ASSUME NEW A \in Timelines, NEW B \in Timelines, NEW t
  PROVE  /\ (\A m \in A : m.turn = t) => \A m : m.turn # t => (m \in Merge(A, B) <=> m \in B)
         /\ (\A m \in B : m.turn = t) => \A m : m.turn # t => (m \in Merge(A, B) <=> m \in A)
<1>1. \A m : m \in Merge(A, B) <=> m \in A \/ (m \in B /\ \A n \in A : Uid(n) # Uid(m))
  BY MergeKeeps
<1> QED
  BY <1>1, UidSame

(* The step of a turn's own consumer. *)
LEMMA OwnStepKeeps ==
  ASSUME SessionFacts, TabInv, ViewInv, [Next]_vars, NEW t \in Turns,
         rows' = rows, session' = session, sent' = sent, load' = load, restart' = restart,
         \A u \in Turns : pc'[u] = pc[u] \/ pc'[u] = "gone",
         \A u \in Turns \ {t} : Keeps(u) /\ page'[u] = page[u],
         \A m : m.turn # t => (m \in view' <=> m \in view),
         unsure \subseteq unsure', page'[t] \in {None, page[t]},
         Streaming' => Streaming, unsure' \subseteq Turns,
         key' = key \/ key' = "draft" \/ key = "temp",
         t \notin unsure' /\ session # "deleted" => SureTurn(t)'
  PROVE  ViewInv'
<1>1. ASSUME NEW u \in Turns \ unsure', u # t, SureTurn(u) PROVE SureTurn(u)'
  <2>1. Keeps(u) /\ page'[u] = page[u]
    BY <1>1
  <2>2. /\ Listens(u)' <=> Listens(u)
        /\ Active(u)' <=> Active(u)
        /\ Started(u)' <=> Started(u)
        /\ Deltas(u)' = Deltas(u)
    BY <2>1, ActiveStays DEF TabInv, SessionFacts
  <2>3. RowsStay(u)
    BY DEF RowsStay
  <2>4. \A v \in Turns : page'[v] \in {None, page[v], StoredPage}
    OBVIOUS
  <2>5. \A m : m.turn = u => (m \in view' <=> m \in view)
    BY <1>1
  <2>6. NotReverted' => NotReverted
    BY DEF NotReverted
  <2> QED
    BY <1>1, <2>1, <2>2, <2>3, <2>4, <2>5, <2>6, SureStays DEF Keeps
<1>2. session # "deleted" => \A u \in Turns \ unsure' : SureTurn(u)'
  BY <1>1 DEF ViewInv
<1> QED
  BY <1>2 DEF ViewInv

(* A turn's start puts its stored messages in place of the optimistic ones. *)
LEMMA StartShows ==
  ASSUME TypeInv, StreamInv, ServerInv, TabInv, NEW t \in Turns, TakeStart(t), StreamsTurn(t)
  PROVE  /\ \A m : m.turn # t => (m \in view' <=> m \in view)
         /\ Part(view, t) = Optimistic(t) => Part(view', t) = Answered(t, 0)
<1> DEFINE q == Message(t, "user", FALSE, Value(t), UserSize[t])
           a == Message(t, "assistant", FALSE, Value(t) + 1, 0)
           pending == {m \in view : m.turn = t /\ m.temp}
<1>1. view' = IF pending = {} THEN Merge(view, {q, a}) ELSE Merge({q, a}, view \ pending)
  BY DEF TakeStart
<1>2. Value(t) \in Nat /\ Value(t) + 1 \in Nat
  <2>1. Value(t) \in Nat
    BY TakenIs DEF TakeStart, TakesEvent, EventType, TabInv
  <2> QED
    BY <2>1
<1>3. q \in MessageType /\ a \in MessageType
  <2>1. UserSize[t] \in Nat
    BY ChatSessionAssumption
  <2> QED
    BY <1>2, <2>1, MessageTyped
<1>4. /\ q.turn = t /\ q.kind = "user" /\ q.temp = FALSE /\ q.size = UserSize[t]
      /\ a.turn = t /\ a.kind = "assistant" /\ a.temp = FALSE /\ a.size = 0
  BY DEF Message
<1>5. \A m \in view : m.turn = t /\ m.temp <=> m \in pending
  OBVIOUS
<1>6. pending \subseteq view /\ \A m \in pending : m.turn = t
  OBVIOUS
<1> HIDE DEF q, a, pending
<1>7. {q, a} \in Timelines /\ view \in Timelines /\ view \ pending \in Timelines
  BY <1>3, <1>4, PairTimeline, SubTimeline DEF TabInv, TabTyped, ShownTyped
<1>8. \A m : m.turn # t => (m \in view' <=> m \in view)
  <2>1. \A m \in {q, a} : m.turn = t
    BY <1>4
  <2>2. CASE pending = {}
    BY <1>1, <1>7, <2>1, <2>2, MergeOthers
  <2>3. CASE pending # {}
    <3>1. \A m : m.turn # t => (m \in Merge({q, a}, view \ pending) <=> m \in view \ pending)
      BY <1>7, <2>1, MergeOthers
    <3> QED
      BY <1>1, <1>6, <2>3, <3>1
  <2> QED
    BY <2>2, <2>3
<1>9. ASSUME Part(view, t) = Optimistic(t) PROVE Part(view', t) = Answered(t, 0)
  <2>1. pending # {} /\ \A m \in view \ pending : m.turn # t
    BY <1>5, <1>7, <1>9, OptimisticIs
  <2>2. Part(view', t) = Part({q, a}, t)
    BY <1>1, <1>7, <2>1, PartCovered
  <2>3. Part({q, a}, t) = Answered(t, 0)
    <3>1. /\ \A m \in {q, a} : m.turn = t => /\ ~ m.temp
                                             /\ \/ m.kind = "user" /\ m.size = UserSize[t]
                                                \/ m.kind = "assistant" /\ m.size = 0
          /\ \E m \in {q, a} : m.turn = t /\ m.kind = "user"
          /\ \E m \in {q, a} : m.turn = t /\ m.kind = "assistant"
      BY <1>4
    <3> QED
      BY <1>7, <3>1, IsAnswered
  <2> QED
    BY <2>2, <2>3
<1> QED
  BY <1>8, <1>9

(* A finished answer takes the place of the text that was streamed. *)
LEMMA DoneShows ==
  ASSUME TypeInv, StreamInv, ServerInv, TabInv, NEW t \in Turns, TakeDone(t)
  PROVE  /\ \A m : m.turn # t => (m \in view' <=> m \in view)
         /\ \A n : Part(view, t) = Answered(t, n) => Part(view', t) = Answered(t, Value(t))
<1>1. PICK i \in DOMAIN sent[t] :
        view' = Merge({Message(t, "assistant", FALSE, sent[t][i].value + 1, Value(t))}, view)
  BY DEF TakeDone
<1> DEFINE a == Message(t, "assistant", FALSE, sent[t][i].value + 1, Value(t))
<1>2. a \in MessageType
  <2>1. sent[t] \in Seq(EventType)
    BY DEF TypeInv, StreamsTyped
  <2>2. sent[t][i] \in EventType
    BY <2>1
  <2>3. sent[t][i].value + 1 \in Nat
    BY <2>2 DEF EventType
  <2>4. Value(t) \in Nat
    BY TakenIs DEF TakeDone, TakesEvent, EventType, TabInv
  <2> QED
    BY <2>3, <2>4, MessageTyped
<1>3. a.turn = t /\ a.kind = "assistant" /\ a.temp = FALSE /\ a.size = Value(t)
  BY DEF Message
<1>4. view' = Merge({a}, view)
  BY <1>1
<1> HIDE DEF a
<1>5. {a} \in Timelines /\ view \in Timelines
  BY <1>2, OneTimeline DEF TabInv, TabTyped, ShownTyped
<1>6. \A m : m.turn # t => (m \in view' <=> m \in view)
  BY <1>3, <1>4, <1>5, MergeOthers
<1>7. ASSUME NEW n, Part(view, t) = Answered(t, n) PROVE Part(view', t) = Answered(t, Value(t))
  <2>1. /\ \A m \in view : m.turn = t => /\ ~ m.temp
                                         /\ \/ m.kind = "user" /\ m.size = UserSize[t]
                                            \/ m.kind = "assistant" /\ m.size = n
        /\ \E m \in view : m.turn = t /\ m.kind = "user" /\ ~ m.temp
    BY <1>5, <1>7, AnsweredIs
  <2>2. \A m : m \in view' <=> m = a \/ (m \in view /\ Uid(a) # Uid(m))
    BY <1>4, <1>5, MergeKeeps
  <2>3. view' \in Timelines
    BY <1>4, <1>5, MergeKeeps
  <2>4. ASSUME NEW m \in view', m.turn = t
        PROVE  /\ ~ m.temp
               /\ \/ m.kind = "user" /\ m.size = UserSize[t]
                  \/ m.kind = "assistant" /\ m.size = Value(t)
    <3>1. CASE m = a
      BY <1>3, <3>1
    <3>2. CASE m \in view /\ Uid(a) # Uid(m)
      <4>1. m.temp \in BOOLEAN
        BY <1>5, <3>2 DEF Timelines, MessageType
      <4> QED
        BY <1>3, <2>1, <2>4, <3>2, <4>1, UidSame, ZenonT(30)
    <3> QED
      BY <2>2, <3>1, <3>2
  <2>5. \E m \in view' : m.turn = t /\ m.kind = "user"
    BY <1>3, <2>1, <2>2, UidSame
  <2>6. \E m \in view' : m.turn = t /\ m.kind = "assistant"
    BY <1>3, <2>2
  <2> QED
    BY <2>3, <2>4, <2>5, <2>6, IsAnswered
<1> QED
  BY <1>6, <1>7

(* A chunk is added to the streamed text. *)
LEMMA ChunkShows ==
  ASSUME TypeInv, StreamInv, ServerInv, TabInv, NEW t \in Turns, TakeDelta(t) \/ TakeCancelled(t)
  PROVE  /\ \A m : m.turn # t => (m \in view' <=> m \in view)
         /\ \A n \in Nat : Part(view, t) = Answered(t, n) =>
              Part(view', t) = Answered(t, n + Value(t))
<1>1. view' = {Grown(m, t, Value(t)) : m \in view}
  BY DEF TakeDelta, TakeCancelled, WithChunk, Grown
<1>2. Value(t) \in Nat
  BY TakenIs DEF TakeDelta, TakeCancelled, TakesEvent, EventType, TabInv
<1>3. view \in Timelines
  BY DEF TabInv, TabTyped, ShownTyped
<1>4. \A m : m.turn # t => (m \in view' <=> m \in view)
  <2>1. \A k \in view : /\ Grown(k, t, Value(t)).turn = k.turn
                        /\ k.turn # t => Grown(k, t, Value(t)) = k
    BY <1>2, <1>3, GrownIs DEF Timelines
  <2>2. \A m : m \in view' <=> \E k \in view : m = Grown(k, t, Value(t))
    BY <1>1
  <2>3. ASSUME NEW m \in view', m.turn # t PROVE m \in view
    BY <2>1, <2>2, <2>3
  <2>4. ASSUME NEW m \in view, m.turn # t PROVE m \in view'
    <3>1. m = Grown(m, t, Value(t))
      BY <2>1, <2>4
    <3> QED
      BY <2>2, <3>1
  <2> QED
    BY <2>3, <2>4
<1>5. ASSUME NEW n \in Nat, Part(view, t) = Answered(t, n) PROVE Part(view', t) = Answered(t, n + Value(t))
  BY <1>1, <1>2, <1>3, <1>5, GrownAnswer
<1> QED
  BY <1>4, <1>5

LEMMA TakenSure ==
  ASSUME SessionFacts, TabInv, ViewInv, NEW t \in Turns,
         TakeReady(t) \/ TakeAside(t) \/ TakeStart(t) \/ TakeDelta(t) \/ TakeCancelled(t)
         \/ TakeDone(t) \/ TakeError(t),
         t \notin unsure, session # "deleted"
  PROVE  SureTurn(t)'
<1>1. TypeInv /\ StreamInv /\ ServerInv /\ TabTyped /\ RowsOfTurns
  BY DEF SessionFacts, ServerInv, TabInv
<1>2. PICK e \in EventType : TakesEvent(t, e) /\ Takes(t, e.event)
  BY <1>1, TakenIs DEF TakeReady, TakeAside, TakeStart, TakeDelta, TakeCancelled, TakeDone, TakeError
<1>3. /\ UNCHANGED <<rows, pc, sent, connected, aborted, page, load, restart>>
      /\ consumer[t] = "reading" /\ t \notin aborted
  BY <1>2 DEF Takes, vars
<1>4. Listens(t) /\ Active(t) /\ SureTurn(t)
  BY <1>2 DEF TakesEvent, Active, ViewInv
<1>5. load.phase = "none" /\ restart = None /\ StreamsTurn(t)
  BY <1>4, NoLoadNoRestart
<1>6. \A u \in Turns : page[u] = None
  BY <1>3, <1>4, OnlyOwnPage
<1>7. /\ KeptInFull(t)'
      /\ PagesAgree(t)' /\ LoadAgrees(t)'
  <2>1. Has(t, {"generation_start"})' <=> Has(t, {"generation_start"})
    BY <1>3, QuietStream
  <2>2. StoredInFull(t)' <=> StoredInFull(t)
    BY <1>3 DEF StoredInFull
  <2>3. KeptInFull(t)'
    BY <1>3, <1>4, <2>1, <2>2 DEF KeptInFull, SureTurn
  <2> QED
    BY <1>3, <1>5, <1>6, <2>3 DEF PagesAgree, LoadAgrees
<1>8. Part(view, t) = IF Started(t) THEN Answered(t, Deltas(t)) ELSE Optimistic(t)
  BY <1>4 DEF SureTurn, ShownLive
<1>9. /\ \A n : Answered(t, n)' = Answered(t, n')
      /\ Optimistic(t)' = Optimistic(t)
  BY DEF Answered, Optimistic
<1>10. /\ Closed(t)' <=> e.event \in Closing
       /\ Started(t)' <=> Started(t) \/ e.event = "generation_start"
       /\ Deltas(t)' = IF e.event = "delta" THEN Deltas(t) + 1 ELSE Deltas(t)
       /\ Deltas(t) \in Nat /\ e.value = Value(t)
  BY <1>2 DEF TakesEvent
(* While it goes on. *)
<1>11. ASSUME e.event \notin Closing, consumer' = consumer,
              Part(view', t) = IF Started(t)' THEN Answered(t, Deltas(t)') ELSE Optimistic(t)
       PROVE  SureTurn(t)'
  <2>1. Listens(t)' /\ Active(t)'
    BY <1>3, <1>10, <1>11 DEF Listens, Active
  <2>2. ShownLive(t)'
    BY <1>9, <1>11 DEF ShownLive, Answered, Optimistic
  <2> QED
    BY <1>3, <1>7, <1>11, <2>1, <2>2 DEF SureTurn, Attended, ShownBroken, ShownSettled
(* Once it has closed. *)
<1>12. ASSUME e.event \in Closing, consumer' = consumer, NEW n,
              Part(view', t) = Answered(t, n), pc[t] \in {"done", "cancelled"}, Told(t) = n
       PROVE  SureTurn(t)'
  <2>1. ~ Listens(t)' /\ ~ Active(t)'
    BY <1>3, <1>10, <1>12 DEF Listens, Active
  <2>2. connected[t] /\ Has(t, {"generation_start"})
    BY <1>1, <1>2, <1>12, ClosingTold
  <2>3. StoredInFull(t)
    BY <1>4, <2>2 DEF SureTurn, KeptInFull
  <2>4. \A r \in AnswerOf(t) : r.size = n
    BY <1>12, <2>2 DEF SessionFacts, AnswerInv, TurnAnswer
  <2>5. Part(StoredPage, t) = Answered(t, n)
    BY <1>1, <2>3, <2>4, StoredIs
  <2>6. Part(StoredPage, t)' = Part(StoredPage, t)
    BY <1>3, StoredStays DEF RowsStay
  <2>7. pc'[t] \notin Running
    BY <1>3, <1>12 DEF Running, Opening, Generating
  <2> QED
    BY <1>3, <1>7, <1>12, <2>1, <2>5, <2>6, <2>7 DEF SureTurn, Attended, ShownLive, ShownBroken,
      ShownSettled
<1>13. CASE TakeReady(t) \/ TakeAside(t)
  <2>1. e.event \in {"session_ready", "session_title_updated", "rag_ready"}
    BY <1>1, <1>2, <1>13 DEF TakeReady, TakeAside, Takes, TakesEvent
  <2>2. view' = view /\ consumer' = consumer
    BY <1>13 DEF TakeReady, TakeAside
  <2>3. e.event \notin Closing /\ e.event # "generation_start" /\ e.event # "delta"
    BY <2>1 DEF Closing
  <2> QED
    BY <1>8, <1>10, <1>11, <2>2, <2>3
<1>14. CASE TakeStart(t)
  <2>1. e.event = "generation_start" /\ consumer' = consumer
    BY <1>2, <1>14 DEF TakeStart, Takes, TakesEvent
  <2>2. ~ Started(t) /\ Deltas(t) = 0
    BY <1>1, <1>14, StartIsFirst DEF TakeStart
  <2>3. Part(view', t) = Answered(t, 0)
    BY <1>1, <1>5, <1>8, <1>14, <2>2, StartShows
  <2>4. e.event \notin Closing
    BY <2>1 DEF Closing
  <2> QED
    BY <1>10, <1>11, <2>1, <2>2, <2>3, <2>4
<1>15. CASE TakeDelta(t)
  <2>1. e.event = "delta" /\ consumer' = consumer
    BY <1>2, <1>15 DEF TakeDelta, Takes, TakesEvent
  <2>2. Value(t) = 1
    BY <1>1, <1>2, <1>10, <2>1 DEF TakesEvent, ServerInv, ValuesOfEvents
  <2>3. Started(t)
    <3>1. sent[t] \in Seq(EventType)
      BY <1>1 DEF TypeInv, StreamsTyped
    <3>2. PICK k \in Nat : k = read[t] /\ k + 1 \in DOMAIN sent[t] /\ sent[t][k + 1].event = "delta"
      BY <1>1, <1>2, <2>1 DEF TakesEvent, TabTyped, ReadsTyped
    <3>3. (k + 1) - 1 = k
      OBVIOUS
    <3>4. \E j \in 1..k : sent[t][j].event = "generation_start"
      BY <1>1, <3>2, <3>3 DEF StreamInv, TurnStream, InOrder
    <3> QED
      BY <3>2, <3>4 DEF Started
  <2>4. Part(view', t) = Answered(t, Deltas(t) + 1)
    BY <1>1, <1>8, <1>10, <1>15, <2>2, <2>3, ChunkShows
  <2>5. e.event \notin Closing
    BY <2>1 DEF Closing
  <2> QED
    BY <1>10, <1>11, <2>1, <2>3, <2>4, <2>5
<1>16. CASE TakeCancelled(t)
  <2>1. e.event = "cancelled" /\ consumer' = consumer /\ e.event \in Closing
    BY <1>2, <1>16 DEF TakeCancelled, Takes, TakesEvent, Closing
  <2>2. /\ Started(t) /\ <<e.event, pc[t]>> \in Closers
        /\ Told(t) = Deltas(t) + e.value
    BY <1>1, <1>2, <2>1, ClosingTold
  <2>3. pc[t] = "cancelled"
    BY <2>1, <2>2 DEF Closers
  <2>4. Part(view', t) = Answered(t, Deltas(t) + Value(t))
    BY <1>1, <1>8, <1>10, <1>16, <2>2, ChunkShows
  <2> QED
    BY <1>10, <1>12, <2>1, <2>2, <2>3, <2>4
<1>17. CASE TakeDone(t)
  <2>1. e.event = "message_done" /\ consumer' = consumer /\ e.event \in Closing
    BY <1>2, <1>17 DEF TakeDone, Takes, TakesEvent, Closing
  <2>2. /\ Started(t) /\ <<e.event, pc[t]>> \in Closers
        /\ Told(t) = e.value
    BY <1>1, <1>2, <2>1, ClosingTold
  <2>3. pc[t] = "done"
    BY <2>1, <2>2 DEF Closers
  <2>4. Part(view', t) = Answered(t, Value(t))
    BY <1>1, <1>8, <1>17, <2>2, DoneShows
  <2> QED
    BY <1>10, <1>12, <2>1, <2>2, <2>3, <2>4
<1>18. CASE TakeError(t)
  <2>1. e.event = "error" /\ e.event \in Closing
    BY <1>2, <1>18 DEF TakeError, Takes, TakesEvent, Closing
  <2>2. Started(t) /\ Has(t, {"generation_start"}) /\ <<e.event, pc[t]>> \in Closers
    BY <1>1, <1>2, <2>1, ClosingTold
  <2>3. consumer'[t] = "refreshing" /\ view' = view
    BY <1>1, <1>18, <2>2 DEF TakeError, HandleError, TabTyped, ShownTyped
  <2>4. Active(t)' /\ ~ Listens(t)'
    BY <2>3 DEF Active, Listens
  <2>5. \A m \in view : m.turn = t => ~ m.temp
    BY <1>1, <1>8, <2>2, AnsweredIs DEF TabTyped, ShownTyped
  <2>6. Has(t, {"generation_start"})'
    BY <1>3, <2>2, QuietStream
  <2> QED
    BY <1>3, <1>6, <1>7, <2>3, <2>4, <2>5, <2>6 DEF SureTurn, Attended, ShownLive, ShownBroken,
      ShownSettled
<1> QED
  BY <1>13, <1>14, <1>15, <1>16, <1>17, <1>18

LEMMA TakenKeepsView ==
  ASSUME SessionFacts, TabInv, ViewInv, [Next]_vars, NEW t \in Turns,
         TakeReady(t) \/ TakeAside(t) \/ TakeStart(t) \/ TakeDelta(t) \/ TakeCancelled(t)
         \/ TakeDone(t) \/ TakeError(t)
  PROVE  ViewInv'
<1>1. TypeInv /\ StreamInv /\ ServerInv /\ TabTyped
  BY DEF SessionFacts, TabInv
<1>2. PICK e \in EventType : TakesEvent(t, e) /\ Takes(t, e.event)
  BY <1>1, TakenIs DEF TakeReady, TakeAside, TakeStart, TakeDelta, TakeCancelled, TakeDone, TakeError
<1>3. UNCHANGED <<rows, session, pc, sent, page, load, restart, unsure>>
  BY <1>2 DEF Takes, vars
<1>4. Active(t) /\ StreamsTurn(t) /\ Streaming
  BY <1>2 DEF TakesEvent, Active, TabInv, OneStream, StreamsTurn
<1>5. \A u \in Turns \ {t} : Keeps(u)
  BY <1>1, OthersKeep DEF ConsumerStep
<1>6. \A m : m.turn # t => (m \in view' <=> m \in view)
  <2>1. CASE TakeStart(t)
    BY <1>1, <1>4, <2>1, StartShows
  <2>2. CASE TakeDone(t)
    BY <1>1, <2>2, DoneShows
  <2>3. CASE TakeDelta(t) \/ TakeCancelled(t)
    BY <1>1, <2>3, ChunkShows
  <2>4. CASE TakeReady(t) \/ TakeAside(t) \/ TakeError(t)
    BY <2>4 DEF TakeReady, TakeAside, TakeError, HandleError
  <2> QED
    BY <2>1, <2>2, <2>3, <2>4
<1>7. key' = key \/ key' = "draft" \/ key = "temp"
  BY DEF TakeReady, TakeAside, TakeStart, TakeDelta, TakeCancelled, TakeDone, TakeError, HandleError
<1>8. t \notin unsure' /\ session # "deleted" => SureTurn(t)'
  BY <1>3, TakenSure
<1>9. unsure \subseteq Turns
  BY <1>1 DEF TabTyped, ShownTyped
<1> QED
  BY <1>3, <1>4, <1>5, <1>6, <1>7, <1>8, <1>9, OwnStepKeeps

LEMMA AbortKeepsView ==
  ASSUME SessionFacts, TabInv, ViewInv, [Next]_vars, NEW t \in Turns, Abort(t)
  PROVE  ViewInv'
<1>1. TypeInv /\ TabTyped
  BY DEF SessionFacts, TabInv
<1>2. /\ UNCHANGED <<rows, session, sent>>
      /\ \A u \in Turns : pc'[u] = pc[u] \/ pc'[u] = "gone"
  BY DEF Abort, ClientLeaves, vars, dbVars, turnVars
<1>3. /\ UNCHANGED <<key, view, page, load, restart>> /\ t \in unsure'
      /\ unsure \subseteq unsure' /\ unsure' \subseteq Turns
      /\ StreamsTurn(t) /\ stream' = None
  BY <1>1 DEF Abort, TabTyped, ShownTyped
<1>4. \A u \in Turns \ {t} : Keeps(u)
  BY <1>1, OthersKeep
<1>5. ~ Streaming'
  BY <1>3 DEF Streaming
<1> QED
  BY <1>2, <1>3, <1>4, <1>5, OwnStepKeeps

LEMMA ClosesKeepsView ==
  ASSUME SessionFacts, TabInv, ViewInv, [Next]_vars, NEW t \in Turns, Closes(t)
  PROVE  ViewInv'
<1>1. TypeInv /\ ServerInv /\ TabTyped
  BY DEF SessionFacts, TabInv
<1>2. /\ UNCHANGED <<rows, session, sent, pc, key, view, read, aborted, page, load, restart, unsure>>
      /\ Streaming' => Streaming
      /\ consumer' = [consumer EXCEPT ![t] = "closed"]
  BY DEF Closes, vars, ClearOwn, Streaming
<1>3. consumer'[t] = "closed" /\ unsure \subseteq Turns
  BY <1>1, <1>2 DEF TabTyped, ShownTyped
<1>4. \A u \in Turns \ {t} : Keeps(u)
  BY <1>1, OthersKeep DEF ConsumerStep
<1>5. ~ Active(t) /\ ~ Listens(t) /\ ~ Active(t)' /\ ~ Listens(t)'
  BY <1>1, <1>3, ClosesIsOver DEF Active, Listens
<1>6. (Started(t)' <=> Started(t)) /\ Deltas(t)' = Deltas(t)
  BY <1>1, <1>2, ReadStays
<1>7. ASSUME SureTurn(t) PROVE SureTurn(t)'
  <2>1. /\ RowsStay(t) /\ (NotReverted' => NotReverted)
        /\ \A v \in Turns : page'[v] \in {None, page[v], StoredPage}
    BY <1>2 DEF RowsStay, NotReverted
  <2> QED
    BY <1>2, <1>3, <1>5, <1>6, <1>7, <2>1, SureStays
<1> QED
  BY <1>2, <1>3, <1>4, <1>7, OwnStepKeeps DEF ViewInv

LEMMA LostKeepsView ==
  ASSUME SessionFacts, TabInv, ViewInv, [Next]_vars, NEW t \in Turns, ConnectionLost(t)
  PROVE  ViewInv'
<1>1. TypeInv /\ ServerInv /\ TabTyped /\ view \in Timelines
  BY DEF SessionFacts, TabInv, TabTyped, ShownTyped
<1>2. UNCHANGED <<rows, session, sent, pc, connected, read, aborted, page, load, restart>>
  BY DEF ConnectionLost, vars
<1>3. Listens(t) /\ Active(t)
  BY <1>1, LostIsOpen DEF Active
<1>4. StreamsTurn(t) /\ Streaming
  BY <1>3 DEF TabInv, OneStream, StreamsTurn
<1>5. \A u \in Turns \ {t} : Keeps(u)
  BY <1>1, OthersKeep DEF ConsumerStep
<1>6. /\ \A m : m.turn # t => (m \in view' <=> m \in view)
      /\ key' = key \/ key' = "draft"
      /\ unsure \subseteq unsure' /\ unsure' \subseteq Turns
  BY <1>1 DEF ConnectionLost, HandleError, TabTyped, ShownTyped
<1>7. ASSUME t \notin unsure', session # "deleted" PROVE SureTurn(t)'
  <2>1. t \notin unsure /\ SureTurn(t)
    BY <1>6, <1>7 DEF ViewInv
  <2>2. load.phase = "none" /\ \A u \in Turns : page[u] = None
    BY <1>3, <2>1, NoLoadNoRestart, OnlyOwnPage DEF Listens
  <2>3. Part(view, t) = IF Started(t) THEN Answered(t, Deltas(t)) ELSE Optimistic(t)
    BY <1>3, <2>1 DEF SureTurn, ShownLive
  <2>4. KeptInFull(t)' /\ PagesAgree(t)' /\ LoadAgrees(t)'
    <3>1. Has(t, {"generation_start"})' <=> Has(t, {"generation_start"})
      BY <1>2, QuietStream
    <3>2. StoredInFull(t)' <=> StoredInFull(t)
      BY <1>2 DEF StoredInFull
    <3>3. KeptInFull(t)'
      BY <1>2, <1>3, <2>1, <3>1, <3>2 DEF KeptInFull, SureTurn
    <3> QED
      BY <1>2, <2>2, <3>3 DEF PagesAgree, LoadAgrees
  <2>5. CASE Started(t)
    <3>1. consumer'[t] = "refreshing" /\ view' = view
      BY <1>1, <2>5 DEF ConnectionLost, HandleError, TabTyped, ShownTyped
    <3>2. Active(t)' /\ ~ Listens(t)'
      BY <3>1 DEF Active, Listens
    <3>3. \A m \in view : m.turn = t => ~ m.temp
      BY <1>1, <2>3, <2>5, AnsweredIs
    <3>4. Has(t, {"generation_start"})'
      <4>1. sent[t] \in Seq(EventType)
        BY <1>1 DEF TypeInv, StreamsTyped
      <4>2. \A i \in 1..read[t] : i \in DOMAIN sent[t]
        BY <1>1, <4>1 DEF TabTyped, ReadsTyped
      <4>3. Has(t, {"generation_start"})
        BY <2>5, <4>2 DEF Started, Has
      <4> QED
        BY <1>2, <4>3, QuietStream
    <3> QED
      BY <1>2, <2>2, <2>4, <3>1, <3>2, <3>3, <3>4 DEF SureTurn, Attended, ShownLive, ShownBroken,
        ShownSettled
  <2>6. CASE ~ Started(t)
    <3>1. /\ consumer'[t] = "closed" /\ pc[t] = "broken"
          /\ view' = {m \in view : ~ (m.turn = t /\ m.temp)}
      BY <1>1, <1>4, <1>7, <2>1, <2>6 DEF ConnectionLost, HandleError, TabTyped, ShownTyped
    <3>2. ~ Active(t)' /\ ~ Listens(t)'
      BY <3>1 DEF Active, Listens
    <3>3. \A m \in view' : m.turn # t
      BY <1>1, <2>3, <2>6, <3>1, OptimisticIs
    <3>4. \A m \in StoredPage' : m.turn # t
      <4> SUFFICES ASSUME NEW m \in StoredPage' PROVE m.turn # t
        OBVIOUS
      <4>1. PICK r \in rows' : m = Message(r.turn, r.kind, FALSE, r.seq, r.size)
        BY DEF StoredPage
      <4>2. m.turn = r.turn
        BY <4>1 DEF Message
      <4> QED
        BY <1>1, <1>2, <3>1, <4>2 DEF ServerInv, RowsOfTurns
    <3>5. Part(view', t) = Part(StoredPage, t)'
      <4>1. Part(view', t) = Part(StoredPage', t)
        BY <3>3, <3>4, PartSame
      <4> QED
        BY <4>1 DEF Part
    <3>6. pc'[t] \notin Running
      BY <1>2, <3>1 DEF Running, Opening, Generating
    <3> QED
      BY <1>2, <2>4, <3>1, <3>2, <3>5, <3>6 DEF SureTurn, Attended, ShownLive, ShownBroken,
        ShownSettled
  <2> QED
    BY <2>5, <2>6
<1> QED
  BY <1>2, <1>4, <1>5, <1>6, <1>7, OwnStepKeeps

(* The page of a refresh shows what is stored, of the turn that broke and of *)
(* every other.                                                              *)
LEMMA RefreshKeepsView ==
  ASSUME SessionFacts, TabInv, ViewInv, [Next]_vars, NEW t \in Turns, RefreshEnds(t)
  PROVE  ViewInv'
<1>1. TypeInv /\ TabTyped /\ RowsOfTurns /\ view \in Timelines
  BY DEF SessionFacts, ServerInv, TabInv, TabTyped, ShownTyped
<1>2. /\ UNCHANGED <<rows, session, sent, pc, key, read, aborted, load, restart>>
      /\ consumer[t] = "refreshing" /\ Active(t) /\ StreamsTurn(t) /\ Streaming
      /\ consumer' = [consumer EXCEPT ![t] = "closed"] /\ page' = [page EXCEPT ![t] = None]
  BY DEF RefreshEnds, vars, Active, TabInv, OneStream, StreamsTurn
<1>3. consumer'[t] = "closed" /\ page'[t] = None /\ \A u \in Turns \ {t} : page'[u] = page[u]
  BY <1>1, <1>2 DEF TabTyped, ShownTyped
<1>4. \A u \in Turns \ {t} : Keeps(u)
  BY <1>1, OthersKeep DEF ConsumerStep
<1>5. ~ Active(t)' /\ ~ Listens(t)'
  BY <1>3 DEF Active, Listens
<1>6. unsure \subseteq unsure' /\ unsure' \subseteq Turns
  BY <1>1 DEF RefreshEnds, TabTyped, ShownTyped
<1>7. CASE page[t] = None
  <2>1. view' = view /\ t \in unsure'
    BY <1>7 DEF RefreshEnds
  <2> QED
    BY <1>2, <1>3, <1>4, <1>6, <2>1, OwnStepKeeps
<1>8. CASE page[t] # None
  <2>1. view' = Merge(page[t], view) /\ unsure' = unsure
    BY <1>8 DEF RefreshEnds
  <2>2. page[t] \in Timelines /\ \A m \in page[t] : ~ m.temp
    BY <1>1, <1>8 DEF TabTyped, ShownTyped, Pages
  <2>3. \A u \in Turns : page'[u] = None
    BY <1>2, <1>3, OnlyOwnPage
  <2>4. ASSUME NEW u \in Turns \ unsure, SureTurn(u) PROVE SureTurn(u)'
    <3>1. load'.phase = "none"
      BY <1>2, NoLoadNoRestart
    <3>2. ~ Active(u)' /\ ~ Listens(u)' /\ consumer'[u] # "refreshing"
      <4>1. CASE u = t
        BY <1>3, <1>5, <4>1
      <4>2. CASE u # t
        <5>1. ~ Active(u)
          BY <1>2, <4>2, ActiveAlone DEF TabInv
        <5> QED
          BY <1>1, <1>4, <4>2, <5>1, ActiveStays DEF Active
      <4> QED
        BY <4>1, <4>2
    <3>3. Part(StoredPage, u)' = Part(StoredPage, u) /\ (StoredInFull(u)' <=> StoredInFull(u))
      BY <1>2, StoredStays DEF RowsStay
    <3>4. Part(page[t], u) = Part(StoredPage, u)
      BY <1>8, <2>4 DEF SureTurn, PagesAgree
    <3>5. pc[u] \notin Running
      <4>1. CASE u = t
        BY <1>2, <1>8, <2>4, <4>1 DEF SureTurn, ShownBroken
      <4>2. CASE u # t
        BY <1>2, <2>4, <4>2, ActiveAlone DEF TabInv, SureTurn, Attended
      <4> QED
        BY <4>1, <4>2
    <3>6. Settled(u) => Part(view', u) = Part(StoredPage, u)
      <4>1. CASE u = t
        <5>1. StoredInFull(t) /\ \A m \in view : m.turn = t => ~ m.temp
          BY <1>2, <2>4, <4>1 DEF SureTurn, ShownBroken, KeptInFull
        <5>2. ASSUME NEW m \in view, m.turn = t PROVE \E n \in page[t] : Uid(n) = Uid(m)
          <6>1. m.kind \in {"user", "assistant"} /\ m.temp = FALSE
            BY <1>1, <5>1, <5>2 DEF Timelines, MessageType
          <6>2. PICK k \in StoredPage : k.turn = t /\ k.kind = m.kind /\ k.temp = FALSE
            <7>1. ShowsBoth(StoredPage, t)
              BY <1>1, <5>1, StoredShows
            <7> QED
              BY <6>1, <7>1 DEF ShowsBoth
          <6>3. Mark(k) \in Part(page[t], t)
            BY <3>4, <4>1, <6>2, PartIs
          <6>4. PICK n \in page[t] : n.turn = t /\ Mark(k) = Mark(n)
            BY <6>3, PartIs
          <6> QED
            BY <5>2, <6>1, <6>2, <6>4, UidSame DEF Mark
        <5>3. Part(view', t) = Part(page[t], t)
          BY <1>1, <2>1, <2>2, <5>2, PartCovered
        <5> QED
          BY <3>4, <4>1, <5>3
      <4>2. CASE u # t
        <5> SUFFICES ASSUME Settled(u) PROVE Part(view', u) = Part(StoredPage, u)
          OBVIOUS
        <5>1. ~ Active(u) /\ load.phase = "none" /\ NotReverted
          <6>1. ~ Active(u)
            BY <1>2, <4>2, ActiveAlone DEF TabInv
          <6>2. load.phase = "none" /\ restart = None
            BY <1>2, NoLoadNoRestart
          <6> QED
            BY <6>1, <6>2 DEF NotReverted
        <5>2. Part(view, u) = Part(StoredPage, u)
          BY <2>4, <5>1 DEF SureTurn, ShownSettled
        <5>3. Part(view', u) = Part(page[t], u)
          BY <1>1, <2>1, <2>2, <3>4, <5>2, PartAgreed
        <5> QED
          BY <3>4, <5>3
      <4> QED
        BY <4>1, <4>2
    <3>7. Attended(u)' /\ KeptInFull(u)' /\ ShownLive(u)' /\ ShownBroken(u)'
      BY <1>2, <3>2, <3>5 DEF Attended, KeptInFull, ShownLive, ShownBroken
    <3>8. PagesAgree(u)' /\ LoadAgrees(u)'
      BY <2>3, <3>1 DEF PagesAgree, LoadAgrees
    <3>9. ShownSettled(u)'
      BY <1>2, <3>3, <3>6 DEF ShownSettled, Settled
    <3> QED
      BY <3>7, <3>8, <3>9 DEF SureTurn
  <2>5. Streaming' => Streaming
    BY <1>2
  <2> QED
    BY <1>2, <2>1, <2>4, <2>5 DEF ViewInv
<1> QED
  BY <1>7, <1>8

(* Requests of the user, and what the server answers them. *)
LEMMA SendKeepsView ==
  ASSUME SessionFacts, TabInv, ViewInv, [Next]_vars, NEW t \in Turns, Send(t)
  PROVE  ViewInv'
<1>1. TypeInv /\ StreamInv /\ TabTyped /\ NothingEarly
  BY DEF SessionFacts, TabInv
<1>2. /\ UNCHANGED <<session, rows, sent, read, aborted, page, load, restart>>
      /\ pc[t] = "idle" /\ pc' = [pc EXCEPT ![t] = "open"] /\ ~ Streaming
      /\ consumer' = [consumer EXCEPT ![t] = "reading"]
  BY DEF Send, Request, Goto, dbVars
<1>3. session # "deleted"
  <2>1. (key = "draft") = (session = "none")
    BY DEF Send, Request
  <2> QED
    BY <2>1 DEF ViewInv
<1>4. \A u \in Turns : ~ Active(u) /\ page[u] = None
  BY <1>2 DEF TabInv, OneStream, StreamsTurn, Active
<1> DEFINE last == Max({0} \cup {m.seq : m \in view})
           q == Message(t, "user", TRUE, last + 1, UserSize[t])
           a == Message(t, "assistant", TRUE, last + 2, 0)
<1>5. view' = view \cup {q, a}
  BY DEF Send
<1>6. /\ q.turn = t /\ Mark(q) = <<"user", TRUE, UserSize[t]>>
      /\ a.turn = t /\ Mark(a) = <<"assistant", TRUE, 0>>
  BY DEF Message, Mark
<1> HIDE DEF q, a
<1>7. ASSUME NEW u \in Turns, u # t, SureTurn(u) PROVE SureTurn(u)'
  <2>1. Keeps(u) /\ pc'[u] = pc[u]
    BY <1>1, <1>2, <1>7, OthersKeep DEF TypeInv, TurnsTyped
  <2>2. /\ Listens(u)' <=> Listens(u)
        /\ Active(u)' <=> Active(u)
        /\ Started(u)' <=> Started(u)
        /\ Deltas(u)' = Deltas(u)
    BY <1>1, <2>1, ActiveStays
  <2>3. /\ RowsStay(u) /\ (NotReverted' => NotReverted)
        /\ \A v \in Turns : page'[v] \in {None, page[v], StoredPage}
        /\ \A m : m.turn = u => (m \in view' <=> m \in view)
    BY <1>2, <1>5, <1>6, <1>7 DEF RowsStay, NotReverted
  <2> QED
    BY <1>2, <1>7, <2>1, <2>2, <2>3, SureStays DEF Keeps
<1>8. ASSUME load.phase = "none" PROVE SureTurn(t)'
  <2>1. /\ consumer[t] = "none" /\ read[t] = 0 /\ t \notin aborted /\ sent[t] = <<>>
        /\ consumer'[t] = "reading" /\ pc'[t] = "open"
    BY <1>1, <1>2 DEF NothingEarly, TabTyped, ShownTyped, TypeInv, TurnsTyped, StreamInv, TurnStream
  <2>2. ~ Closed(t)' /\ ~ Started(t)' /\ ~ Has(t, {"generation_start"})'
    BY <1>2, <2>1 DEF Closed, Started, Has
  <2>3. Active(t)' /\ Listens(t)'
    BY <1>2, <2>1, <2>2 DEF Active, Listens
  <2>4. Part(view', t) = Optimistic(t)
    <3>1. \A m \in view : m.turn # t
      BY <1>1, <1>2 DEF NothingEarly
    <3>2. \A x : x \in Part(view', t) <=> \E m \in view' : m.turn = t /\ x = Mark(m)
      BY PartIs
    <3>3. \A x : x \in Part(view', t) <=> x \in Optimistic(t)
      BY <1>5, <1>6, <3>1, <3>2 DEF Optimistic
    <3> QED
      BY <3>3 DEF Part, Optimistic
  <2>5. KeptInFull(t)' /\ Attended(t)'
    BY <2>1, <2>2, <2>3 DEF KeptInFull, Attended, AfterAsk, Generating
  <2>6. ShownLive(t)'
    BY <2>2, <2>4 DEF ShownLive, Optimistic
  <2>7. ShownBroken(t)' /\ PagesAgree(t)' /\ LoadAgrees(t)' /\ ShownSettled(t)'
    BY <1>2, <1>4, <1>8, <2>1, <2>3 DEF ShownBroken, PagesAgree, LoadAgrees, ShownSettled
  <2> QED
    BY <2>5, <2>6, <2>7 DEF SureTurn
<1>9. unsure' = IF load.phase = "none" THEN unsure ELSE Turns
  BY DEF Send
<1> QED
  BY <1>2, <1>3, <1>7, <1>8, <1>9 DEF ViewInv

LEMMA LoadKeepsView ==
  ASSUME SessionFacts, TabInv, ViewInv, [Next]_vars, LoadShows
  PROVE  ViewInv'
<1>1. TypeInv /\ TabTyped
  BY DEF SessionFacts, TabInv
<1>2. /\ UNCHANGED <<session, rows, sent, pc, key, stream, consumer, read, aborted, page, restart, unsure>>
      /\ load.phase = "read" /\ load'.phase = "none"
  BY DEF LoadShows, vars, NoLoad
<1>3. CASE Streaming
  BY <1>2, <1>3 DEF ViewInv
<1>4. CASE ~ Streaming
  <2>1. view' = load.page
    BY <1>4 DEF LoadShows
  <2>2. \A u \in Turns : Keeps(u) /\ ~ Active(u) /\ page[u] = None
    BY <1>2, <1>4 DEF Keeps, TabInv, OneStream, StreamsTurn, Active
  <2>3. ASSUME NEW u \in Turns, SureTurn(u) PROVE SureTurn(u)'
    <3>1. ~ Active(u)' /\ ~ Listens(u)' /\ consumer'[u] # "refreshing"
      BY <1>1, <2>2, ActiveStays DEF Active
    <3>2. Part(StoredPage, u)' = Part(StoredPage, u)
      BY <1>2, StoredStays DEF RowsStay
    <3>3. NotReverted' => Part(view', u) = Part(StoredPage, u)'
      BY <1>2, <2>1, <2>3, <3>2 DEF SureTurn, LoadAgrees, NotReverted
    <3>4. pc'[u] \notin Running
      BY <1>2, <2>2, <2>3 DEF SureTurn, Attended
    <3> QED
      BY <1>2, <2>2, <3>1, <3>3, <3>4 DEF SureTurn, Attended, KeptInFull, ShownLive, ShownBroken,
        PagesAgree, LoadAgrees, ShownSettled
  <2> QED
    BY <1>2, <2>3 DEF ViewInv
<1> QED
  BY <1>3, <1>4

LEMMA RevertKeepsView ==
  ASSUME SessionFacts, TabInv, ViewInv, [Next]_vars, RestartReverts
  PROVE  ViewInv'
<1>1. TypeInv /\ TabTyped
  BY DEF SessionFacts, TabInv
<1>2. /\ UNCHANGED <<key, view, stream, consumer, read, aborted, page>>
      /\ restart # None /\ restart.phase = "revert" /\ ~ Streaming
      /\ restart \in RestartState
  BY <1>1 DEF RestartReverts, TabInv, OneStream, TabTyped, ShownTyped
<1>3. \A u \in Turns : Keeps(u) /\ ~ Active(u) /\ page[u] = None
  BY <1>2 DEF Keeps, TabInv, OneStream, StreamsTurn, Active
<1>4. CASE UNCHANGED <<vars, load, unsure>> /\ restart' = None
  <2>1. UNCHANGED <<session, rows, sent, pc>>
    BY <1>4 DEF vars
  <2>2. /\ NotReverted' => NotReverted
        /\ unsure \subseteq unsure' /\ unsure' \subseteq Turns
        /\ \A v \in Turns : page'[v] \in {None, page[v], StoredPage}
        /\ Streaming' => Streaming
    BY <1>1, <1>2, <1>4 DEF NotReverted, TabTyped, ShownTyped, Streaming
  <2> QED
    BY <1>1, <1>2, <1>3, <1>4, <2>1, <2>2, QuietKeepsView
<1>5. ASSUME NEW r \in rows, Revert(r),
             IF restart.empties
               THEN restart' = [restart EXCEPT !.phase = "delete"] /\ UNCHANGED <<load, unsure>>
               ELSE /\ restart' = None
                    /\ load' = IF load.phase \in {"none", "failed"} THEN [NoLoad EXCEPT !.phase = "asked"]
                               ELSE load
                    /\ unsure' = IF load.phase \in {"none", "failed"} THEN unsure ELSE Turns
      PROVE  ViewInv'
  <2>1. session' = session /\ session # "deleted" /\ pc' = pc /\ ~ Streaming'
    BY <1>2, <1>5 DEF Revert, turnVars, Streaming
  <2>2. ASSUME unsure' # Turns
        PROVE  /\ unsure' = unsure
               /\ NotReverted' => load'.phase = "asked"
    <3>1. CASE restart.empties
      <4>1. restart' \in RestartState /\ restart'.phase = "delete"
        BY <1>2, <1>5, <3>1 DEF RestartState
      <4> QED
        BY <1>5, <3>1, <4>1, ConsoleAssumption DEF NotReverted
    <3>2. CASE ~ restart.empties
      BY <1>5, <2>2, <3>2 DEF NoLoad
    <3> QED
      BY <3>1, <3>2
  <2>3. ASSUME NEW u \in Turns, SureTurn(u), NotReverted' => load'.phase = "asked" PROVE SureTurn(u)'
    <3>1. ~ Active(u)' /\ ~ Listens(u)' /\ consumer'[u] # "refreshing"
      BY <1>1, <1>3, ActiveStays DEF Active
    <3>2. pc'[u] \notin Running
      BY <1>3, <2>1, <2>3 DEF SureTurn, Attended
    <3> QED
      BY <1>2, <1>3, <2>3, <3>1, <3>2 DEF SureTurn, Attended, KeptInFull, ShownLive, ShownBroken,
        PagesAgree, LoadAgrees, ShownSettled
  <2>4. \A u \in Turns \ unsure' : SureTurn(u)'
    <3>1. ASSUME NEW u \in Turns \ unsure' PROVE SureTurn(u)'
      <4>1. unsure' # Turns
        BY <3>1
      <4>2. u \notin unsure
        BY <2>2, <4>1
      <4>3. SureTurn(u)
        BY <2>1, <4>2 DEF ViewInv
      <4> QED
        BY <2>2, <2>3, <4>1, <4>3
    <3> QED
      BY <3>1
  <2> QED
    BY <2>1, <2>4 DEF ViewInv
<1> QED
  BY <1>4, <1>5 DEF RestartReverts

LEMMA DeletedKeepsView == ASSUME SessionDeleted PROVE ViewInv'
<1>1. session' = "deleted" /\ key' = "draft" /\ ~ Streaming'
  BY DEF SessionDeleted, DeleteSession, Streaming
<1> QED
  BY <1>1 DEF ViewInv

LEMMA ViewKept ==
  SessionFacts /\ TabInv /\ ViewInv /\ [ConsoleNext]_allVars => ViewInv'
<1> SUFFICES ASSUME SessionFacts, TabInv, ViewInv, [ConsoleNext]_allVars PROVE ViewInv'
  OBVIOUS
<1>1. [Next]_vars
  BY TabStepsAreTurnSteps
<1>2. TypeInv /\ unsure \subseteq Turns
  BY DEF SessionFacts, TabInv, TabTyped, ShownTyped
<1> DEFINE Quietly ==
      /\ \A u \in Turns : pc'[u] = pc[u] \/ pc'[u] = "gone"
      /\ UNCHANGED <<rows, session, sent, key, view, consumer, read, aborted>>
<1>3. ASSUME Quietly, UNCHANGED <<page, load, unsure>>, Streaming' => Streaming,
             NotReverted' => NotReverted
      PROVE  ViewInv'
  <2>1. \A u \in Turns : Keeps(u)
    BY <1>3 DEF Keeps
  <2>2. /\ unsure \subseteq unsure' /\ unsure' \subseteq Turns
        /\ \A v \in Turns : page'[v] \in {None, page[v], StoredPage}
        /\ \A u \in Turns \ unsure' : page'[u] # None => page[u] # None \/ pc[u] \notin Running
    BY <1>2, <1>3
  <2> QED
    BY <1>1, <1>2, <1>3, <2>1, <2>2, QuietKeepsView
<1>4. ASSUME NEW t \in Turns, Send(t) \/ Abort(t) PROVE ViewInv'
  BY <1>1, <1>4, SendKeepsView, AbortKeepsView
<1>5. ASSUME NEW t \in Turns, AskCancel(t) PROVE ViewInv'
  <2>1. Quietly /\ UNCHANGED <<page, load, unsure, restart>>
    BY <1>5 DEF AskCancel, vars
  <2>2. Streaming
    BY <1>5 DEF AskCancel, StreamsTurn
  <2> QED
    BY <1>3, <2>1, <2>2 DEF NotReverted
<1>6. ASSUME NEW t \in Turns, CancelAnswered(t) PROVE ViewInv'
  <2>1. Quietly
    BY <1>6 DEF CancelAnswered, Cancel, vars, dbVars, turnVars, netVars
  <2>2. UNCHANGED <<page, load, unsure, restart>> /\ (Streaming' => Streaming)
    BY <1>6 DEF CancelAnswered, Streaming
  <2> QED
    BY <1>3, <2>1, <2>2 DEF NotReverted
<1>7. ASSUME NEW m \in view, AskRestart(m) PROVE ViewInv'
  <2>1. Quietly /\ UNCHANGED <<page, load, unsure, stream>> /\ restart = None
    BY <1>7 DEF AskRestart, MayChange, vars
  <2> QED
    BY <1>3, <2>1 DEF NotReverted, Streaming
<1>8. ASSUME AskDelete PROVE ViewInv'
  <2>1. Quietly /\ UNCHANGED <<page, load, unsure, stream>> /\ restart = None
    BY <1>8 DEF AskDelete, MayChange, vars
  <2> QED
    BY <1>3, <2>1 DEF NotReverted, Streaming
<1>9. ASSUME NEW t \in Turns, NetworkDrops(t) PROVE ViewInv'
  <2>1. Quietly /\ UNCHANGED <<page, load, unsure, stream, restart>>
    BY <1>9 DEF NetworkDrops, ClientLeaves, consoleVars, dbVars, turnVars
  <2> QED
    BY <1>3, <2>1 DEF NotReverted, Streaming
<1>10. ASSUME Restart, UNCHANGED consoleVars PROVE ViewInv'
  <2>1. Quietly /\ UNCHANGED <<page, load, unsure, stream, restart>>
    BY <1>10 DEF Restart, consoleVars, dbVars
  <2> QED
    BY <1>3, <2>1 DEF NotReverted, Streaming
<1>11. ASSUME UNCHANGED allVars PROVE ViewInv'
  <2>1. Quietly /\ UNCHANGED <<page, load, unsure, stream, restart>>
    BY <1>11 DEF allVars, consoleVars, vars
  <2> QED
    BY <1>3, <2>1 DEF NotReverted, Streaming
<1>12. ASSUME LoadReads PROVE ViewInv'
  <2>1. Quietly /\ UNCHANGED <<page, unsure, stream, restart>>
    BY <1>12 DEF LoadReads, vars
  <2>2. /\ load.phase # "none" /\ load'.phase # "none"
        /\ load'.phase = "read" => load'.page = StoredPage
    BY <1>12 DEF LoadReads, NoLoad
  <2>3. \A u \in Turns : Keeps(u)
    BY <2>1 DEF Keeps
  <2>4. /\ NotReverted' => NotReverted
        /\ Streaming' => Streaming
        /\ \A v \in Turns : page'[v] \in {None, page[v], StoredPage}
    BY <2>1 DEF NotReverted, Streaming
  <2> QED
    BY <1>1, <1>2, <2>1, <2>2, <2>3, <2>4, QuietKeepsView
<1>13. ASSUME NEW t \in Turns, RefreshReads(t) PROVE ViewInv'
  <2>1. Quietly /\ UNCHANGED <<load, stream, restart>>
    BY <1>13 DEF RefreshReads, vars
  <2>2. /\ page' = [page EXCEPT ![t] = StoredPage]
        /\ unsure' = IF pc[t] \in Running THEN unsure \cup {t} ELSE unsure
    BY <1>13 DEF RefreshReads
  <2>3. /\ page'[t] = StoredPage /\ \A v \in Turns \ {t} : page'[v] = page[v]
    BY <2>2 DEF TabInv, TabTyped, ShownTyped
  <2>4. /\ \A v \in Turns : page'[v] \in {None, page[v], StoredPage}
        /\ unsure \subseteq unsure' /\ unsure' \subseteq Turns
        /\ \A u \in Turns \ unsure' : page'[u] # None => page[u] # None \/ pc[u] \notin Running
    BY <1>2, <2>2, <2>3
  <2>5. /\ \A u \in Turns : Keeps(u)
        /\ NotReverted' => NotReverted
        /\ Streaming' => Streaming
    BY <2>1 DEF NotReverted, Streaming, Keeps
  <2> QED
    BY <1>1, <1>2, <2>1, <2>4, <2>5, QuietKeepsView
<1> HIDE DEF Quietly
<1>14. ASSUME NEW t \in Turns, ConsumerStep(t) PROVE ViewInv'
  BY <1>1, <1>13, <1>14, TakenKeepsView, LostKeepsView, ClosesKeepsView, RefreshKeepsView
  DEF ConsumerStep
<1>15. ASSUME NEW t \in Turns, ServerTurn(t) PROVE ViewInv'
  BY <1>15, ServerKeepsView
<1>16. LoadShows \/ RestartReverts \/ SessionDeleted => ViewInv'
  BY <1>1, LoadKeepsView, RevertKeepsView, DeletedKeepsView
<1> QED
  BY <1>4, <1>5, <1>6, <1>7, <1>8, <1>9, <1>10, <1>11, <1>12, <1>14, <1>15, <1>16
  DEF ConsoleNext, UserStep

LEMMA InitView == Init /\ ConsoleInit => ViewInv
<1> SUFFICES ASSUME Init, ConsoleInit PROVE ViewInv
  OBVIOUS
<1>1. \A t \in Turns : /\ consumer[t] = "none" /\ page[t] = None /\ pc[t] \in {"idle", "done"}
  BY DEF Init, ConsoleInit
<1>2. \A t \in Turns : ~ Active(t) /\ ~ Listens(t) /\ pc[t] \notin Running
  BY <1>1 DEF Active, Listens, Running, Opening, Generating
<1>3. view = StoredPage /\ load.phase = "none" /\ ~ Streaming /\ session # "deleted"
  BY DEF Init, ConsoleInit, NoLoad, Streaming
<1>4. \A t \in Turns : SureTurn(t)
  BY <1>1, <1>2, <1>3 DEF SureTurn, Attended, KeptInFull, ShownLive, ShownBroken, PagesAgree,
    LoadAgrees, ShownSettled
<1> QED
  BY <1>3, <1>4 DEF ViewInv

(* When nothing is in flight, what the tab shows of a turn that ended is     *)
(* what the session stores of it: whatever pages, chunks and closing events  *)
(* arrived in whatever order, unless the user or the network cut the turn    *)
(* off before it started, or a page overlapped a new message.                *)
THEOREM ViewMatchesTheSession == ConsoleSpec => []ViewMatchesStored
<1>1. TabFacts /\ ViewInv => ViewMatchesStored
  <2> SUFFICES ASSUME TabFacts, ViewInv, Quiet, key = "real", NEW t \in Turns \ unsure,
                      pc[t] \in {"done", "cancelled", "error", "broken"}
               PROVE  Shown(t) = Stored(t)
    BY DEF ViewMatchesStored
  <2>1. SureTurn(t)
    BY DEF ViewInv
  <2>2. ~ Active(t) /\ load.phase = "none" /\ NotReverted
    BY DEF Quiet, ConsoleIdle, Active, Listens, NotReverted
  <2>3. Part(view, t) = Part(StoredPage, t)
    BY <2>1, <2>2 DEF SureTurn, ShownSettled, Settled
  <2> QED
    BY <2>3 DEF Part, Shown, Stored
<1>2. TabFacts /\ ViewInv /\ [ConsoleNext]_allVars => ViewInv'
  BY ViewKept DEF TabFacts
<1> QED
  BY <1>1, <1>2, InitView, TabAlways, PTL DEF ConsoleSpec
=============================================================================
