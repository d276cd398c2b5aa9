----------------------------- MODULE ChatSession -----------------------------
(***************************************************************************)
(* One chat session of the backend and the turns that answer in it:        *)
(* services/chat (orchestrator, compaction, context builder, generation    *)
(* registry, session operations), crud/chat_message.py and the admin       *)
(* endpoints that start, cancel, revert and delete.                        *)
(*                                                                         *)
(* A turn is one call of stream_rag_chat.  An action is the code between   *)
(* two suspension points, or one short transaction; append_message selects *)
(* the greatest sequence before SQLite opens the write transaction, so the *)
(* select and the insert are two steps.                                    *)
(*                                                                         *)
(* A text is its length in tokens, an answer the number of chunks the      *)
(* provider has streamed.  A summary (COMPACTION row) also records, for    *)
(* the properties, the messages that went into it.                         *)
(***************************************************************************)
EXTENDS Naturals, Sequences, FiniteSets, FiniteSetsExt

CONSTANTS
  Turns,       \* requests to the chat endpoint
  Past,        \* sequence of the turns answered before, unless the session is new
  RagTurns,    \* turns asked with a RAG plugin
  None,
  MaxInput,    \* TokenBudget.max_input_tokens
  SystemSize,  \* tokens of the system prompt
  UserSize,    \* tokens of each turn's question
  RagSize,     \* tokens of a retrieved knowledge context
  SummarySize, \* tokens of a generated summary
  MaxChunks,   \* bound: chunks of an answer
  MaxRequests  \* bound: cancel, revert and delete requests, disconnections, restarts

ASSUME ChatSessionAssumption ==
  /\ IsFiniteSet(Turns) /\ Past \in Seq(Turns) /\ RagTurns \subseteq Turns
  /\ None \notin Turns
  /\ {MaxInput, SystemSize, RagSize, SummarySize, MaxChunks, MaxRequests} \subseteq Nat
  /\ UserSize \in [Turns -> Nat \ {0}]

VARIABLES
  session,     \* the chat_sessions row: "none", "present" or "deleted"
  rows,        \* its chat_messages rows
  pc,          \* where each turn is
  created,     \* turns that created the session (session_created)
  asked,       \* sequence of each turn's question, 0 before it is stored
  seqRead,     \* the sequence a turn is about to insert at, 0 for none
  context,     \* compaction_message and recent_messages of each turn
  produced,    \* chunks in stream_response.text
  registered,  \* turns with a generation in the registry
  cancelled,   \* turns whose cancel_event is set
  sent,        \* events yielded to each turn's connection
  connected,   \* turns whose HTTP connection is up
  muddled,     \* ghost: "revert", "overlap" when either met a running turn
  requests     \* counted against MaxRequests

dbVars   == <<session, rows>>
turnVars == <<pc, created, asked, seqRead, context, produced>>
genVars  == <<registered, cancelled>>
netVars  == <<sent, connected>>
vars == <<session, rows, pc, created, asked, seqRead, context, produced,
          registered, cancelled, sent, connected, muddled, requests>>

Generating == {"load", "recent", "summarise", "insert", "reload", "retrieve", "check",
               "stream", "cancelling", "store", "failing", "interrupting"}
Opening    == {"open", "ready", "append", "title", "register"}
Running    == Opening \cup Generating
Ended      == {"done", "cancelled", "error", "gone", "broken"}

NoContext == [summary |-> None, recent |-> {}]

------------------------------------------------------------------------------
(* Rows and queries.                                                         *)

Row(seq, t, kind, size, tail, covers) ==
  [seq |-> seq, turn |-> t, kind |-> kind, size |-> size, tail |-> tail, covers |-> covers]
Question(seq, t)     == Row(seq, t, "user", UserSize[t], 0, {})
Answer(seq, t, size) == Row(seq, t, "assistant", size, 0, {})

NextSequence   == 1 + Max({0} \cup {r.seq : r \in rows})
Summaries      == {r \in rows : r.kind = "summary"}
AnswerOf(t)    == {r \in rows : r.turn = t /\ r.kind = "assistant"}
Tokens(S)      == MapThenSumSet(LAMBDA r : r.size, S)
Percent(n, of) == (of * n) \div 100
Monus(m, n)    == IF m > n THEN m - n ELSE 0
Least(m, n)    == IF m < n THEN m ELSE n

(* The newest messages that fit a budget: both loops run from the last       *)
(* message back and stop at the first that does not fit.                     *)
Newest(S, budget) == {r \in S : Tokens({q \in S : q.seq >= r.seq}) <= budget}

(* UPDATE ... RETURNING: what is written to the rows of a set.               *)
Rewrite(S, size) == (rows \ S) \cup {[r EXCEPT !.size = size] : r \in S}

TypeOK ==
  /\ session \in {"none", "present", "deleted"}
  /\ rows \subseteq [seq : Nat \ {0}, turn : Turns, kind : {"user", "assistant", "summary"},
                     size : Nat, tail : Nat,
                     covers : SUBSET [turn : Turns, kind : {"user", "assistant"}, size : Nat]]
  /\ IsFiniteSet(rows)
  /\ pc \in [Turns -> {"idle"} \cup Running \cup Ended]
  /\ created \in SUBSET Turns /\ registered \in SUBSET Turns /\ cancelled \in SUBSET Turns
  /\ asked \in [Turns -> Nat] /\ seqRead \in [Turns -> Nat] /\ produced \in [Turns -> Nat]
  /\ connected \in [Turns -> BOOLEAN]
  /\ muddled \in SUBSET {"revert", "overlap"} /\ requests \in Nat

(* The session is new, or has a past: turns answered one after the other.    *)
PastTurns == {Past[i] : i \in DOMAIN Past}
PastRows(order, sizes) ==
  UNION {{Question(2 * i - 1, order[i]), Answer(2 * i, order[i], sizes[order[i]])} :
         i \in DOMAIN order}

Init ==
  /\ \E order \in {<<>>, Past}, sizes \in [PastTurns -> 0..MaxChunks] :
       rows = PastRows(order, sizes)
  /\ session = IF rows = {} THEN "none" ELSE "present"
  /\ pc = [t \in Turns |-> IF \E r \in rows : r.turn = t THEN "done" ELSE "idle"]
  /\ created = {} /\ registered = {} /\ cancelled = {} /\ muddled = {} /\ requests = 0
  /\ asked = [t \in Turns |-> 0] /\ seqRead = [t \in Turns |-> 0]
  /\ produced = [t \in Turns |-> 0] /\ context = [t \in Turns |-> NoContext]
  /\ sent = [t \in Turns |-> <<>>] /\ connected = [t \in Turns |-> FALSE]

------------------------------------------------------------------------------
(* Steps shared by the turns.                                                *)

Goto(t, label) == pc' = [pc EXCEPT ![t] = label]
Unmoved == UNCHANGED <<created, asked, seqRead, context, produced>>

(* An SSE event: chunks of a text, the sequence of the question started.     *)
Event(name, value) == [event |-> name, value |-> value]
Yield(t, events) ==
  sent' = IF connected[t] THEN [sent EXCEPT ![t] = @ \o events] ELSE sent

(* Mutant: no finally clause. *)
EndTurnRegistered(t, how) ==
  /\ Goto(t, how)
  /\ UNCHANGED genVars
  /\ created' = created \ {t} /\ asked' = [asked EXCEPT ![t] = 0]
  /\ seqRead' = [seqRead EXCEPT ![t] = 0] /\ produced' = [produced EXCEPT ![t] = 0]
  /\ context' = [context EXCEPT ![t] = NoContext]

(* The generator is over: the finally clause unregisters, the locals die.    *)
EndTurn(t, how) ==
  /\ Goto(t, how)
  /\ registered' = registered \ {t} /\ cancelled' = cancelled \ {t}
  /\ created' = created \ {t} /\ asked' = [asked EXCEPT ![t] = 0]
  /\ seqRead' = [seqRead EXCEPT ![t] = 0] /\ produced' = [produced EXCEPT ![t] = 0]
  /\ context' = [context EXCEPT ![t] = NoContext]

(* except Exception: a partial text is stored first, then the error is told. *)
TurnRaises(t) ==
  /\ IF produced[t] > 0
       THEN Goto(t, "failing") /\ Unmoved /\ UNCHANGED <<genVars, sent>>
       ELSE EndTurn(t, "error") /\ Yield(t, <<Event("error", 0)>>)
  /\ UNCHANGED <<dbVars, connected, muddled, requests>>

(* A turn that holds data of the session read before now.                    *)
HoldsReads(t) == pc[t] \in {"append", "title", "register"} \cup Generating

------------------------------------------------------------------------------
(* Opening a turn.                                                           *)

(* POST /chat/stream; `new` is a request without chat_session_uid.  One       *)
(* session is followed: only its first request is new.                       *)
Request(t, new) ==
  /\ t \notin PastTurns /\ pc[t] = "idle" /\ new = (session = "none") /\ (new => created = {})
  /\ Goto(t, "open")
  /\ connected' = [connected EXCEPT ![t] = TRUE]
  /\ created' = IF new THEN created \cup {t} ELSE created
  /\ UNCHANGED <<dbVars, asked, seqRead, context, produced, genVars, sent, muddled, requests>>

(* _valid_or_create_chat_session and session_ready.                          *)
OpenSession(t) ==
  /\ pc[t] = "open" /\ (t \in created \/ session = "present")
  /\ session' = "present"
  /\ Goto(t, "ready")
  /\ Yield(t, <<Event("session_ready", 0)>>)
  /\ Unmoved
  /\ UNCHANGED <<rows, genVars, connected, muddled, requests>>

(* Before the try block an exception leaves the generator: the connection    *)
(* breaks without an error event.                                            *)
Breaks(t) == EndTurn(t, "broken") /\ UNCHANGED <<dbVars, netVars, muddled, requests>>

(* An unknown chat_session_uid, or the write lock's timeout on a new session. *)
OpenFails(t) == pc[t] = "open" /\ (t \in created \/ session # "present") /\ Breaks(t)

(* _append_initial_messages: the first append reads its sequence...          *)
AppendReads(t) ==
  /\ pc[t] = "ready"
  /\ seqRead' = [seqRead EXCEPT ![t] = NextSequence]
  /\ Goto(t, "append")
  /\ UNCHANGED <<dbVars, created, asked, context, produced, genVars, netVars, muddled, requests>>

(* Mutant: no unique constraint on the sequence. *)
InsertableTwice(t) == session = "present"

(* The row can be inserted: the session is there (foreign key) and no row    *)
(* has the sequence (_session_sequence_uc).                                  *)
Insertable(t) ==
  /\ session = "present"
  /\ \A r \in rows : r.seq # seqRead[t]

(* ...and inserts; the second append reads inside the write transaction.     *)
AppendInserts(t) ==
  /\ pc[t] = "append" /\ Insertable(t)
  /\ LET question == Question(seqRead[t], t)
         last     == Max({r.seq : r \in rows \cup {question}})
     IN  rows' = rows \cup {question, Answer(last + 1, t, 0)}
  /\ asked' = [asked EXCEPT ![t] = seqRead[t]]
  /\ seqRead' = [seqRead EXCEPT ![t] = 0]
  /\ Goto(t, IF t \in created THEN "title" ELSE "register")
  /\ muddled' = IF \E u \in Turns \ {t} : HoldsReads(u) THEN muddled \cup {"overlap"} ELSE muddled
  /\ UNCHANGED <<session, created, context, produced, genVars, netVars, requests>>

(* The constraint or the write lock's timeout refuses the insert.            *)
AppendFails(t) == pc[t] = "append" /\ Breaks(t)

(* _generate_and_update_session_title: a failure keeps the fallback.         *)
TitleEnds(t) ==
  /\ pc[t] = "title"
  /\ \E ok \in BOOLEAN :
       /\ ok => session = "present"
       /\ Yield(t, IF ok THEN <<Event("session_title_updated", 0)>> ELSE <<>>)
  /\ Goto(t, "register")
  /\ Unmoved
  /\ UNCHANGED <<dbVars, genVars, connected, muddled, requests>>

(* The generation is registered and generation_start yielded.                *)
Register(t) ==
  /\ pc[t] = "register"
  /\ registered' = registered \cup {t}
  /\ Yield(t, <<Event("generation_start", asked[t])>>)
  /\ Goto(t, "load")
  /\ Unmoved
  /\ UNCHANGED <<dbVars, cancelled, connected, muddled, requests>>

------------------------------------------------------------------------------
(* Context: _prepare_chat_context, two loads around a compaction.            *)

LatestSummary ==
  IF Summaries = {} THEN None ELSE CHOOSE s \in Summaries : \A q \in Summaries : q.seq <= s.seq

(* Mutant: the tail's first message is taken as summarised. *)
RecentAfterTail(t, summary) ==
  {r \in rows : r.seq < asked[t] /\ (summary # None => r.seq > summary.tail /\ r # summary)}

(* load_recent_messages: before the question, and from the tail the summary  *)
(* names, without the summary itself.                                        *)
RecentOf(t, summary) ==
  {r \in rows : r.seq < asked[t] /\ (summary # None => r.seq >= summary.tail /\ r # summary)}

(* estimate_without_rag                                                      *)
NeedsCompaction(t, summary, recent) ==
  SystemSize + UserSize[t] + Tokens(recent) + (IF summary = None THEN 0 ELSE summary.size)
    >= Percent(85, MaxInput)

(* plan_compaction: the tail kept, which must leave something before it.     *)
TailOf(recent) == Newest(recent, Percent(20, MaxInput))
CanCompact(recent) == TailOf(recent) # {} /\ Min({r.seq : r \in TailOf(recent)}) > 1
TailStart(recent) == Min({r.seq : r \in TailOf(recent)})

LoadSummary(t) ==
  /\ pc[t] = "load"
  /\ context' = [context EXCEPT ![t] = [summary |-> LatestSummary, recent |-> {}]]
  /\ Goto(t, "recent")
  /\ UNCHANGED <<dbVars, created, asked, seqRead, produced, genVars, netVars, muddled, requests>>

(* Where the turn goes once its context is loaded.                           *)
AfterContext(t) == IF t \in RagTurns THEN "retrieve" ELSE "check"

LoadRecent(t) ==
  /\ pc[t] = "recent"
  /\ LET summary == context[t].summary
         recent  == RecentOf(t, summary)
     IN  IF NeedsCompaction(t, summary, recent) /\ ~CanCompact(recent)
         THEN TurnRaises(t)   \* ValueError: Compaction is not needed.
         ELSE /\ context' = [context EXCEPT ![t].recent = recent]
              /\ Goto(t, IF NeedsCompaction(t, summary, recent) THEN "summarise"
                         ELSE AfterContext(t))
              /\ UNCHANGED <<dbVars, created, asked, seqRead, produced, genVars, netVars,
                             muddled, requests>>

(* The model has written the summary: append_message reads its sequence...   *)
SummaryReads(t) ==
  /\ pc[t] = "summarise"
  /\ seqRead' = [seqRead EXCEPT ![t] = NextSequence]
  /\ Goto(t, "insert")
  /\ UNCHANGED <<dbVars, created, asked, context, produced, genVars, netVars, muddled, requests>>

Facts(r) == IF r.kind = "summary" THEN r.covers
            ELSE {[turn |-> r.turn, kind |-> r.kind, size |-> r.size]}

NewSummary(t) ==
  LET old       == {s \in {context[t].summary} : s # None}
      tail      == TailStart(context[t].recent)
      compacted == {r \in context[t].recent : r.seq < tail}
  IN  Row(seqRead[t], t, "summary", SummarySize, tail, UNION {Facts(r) : r \in compacted \cup old})

(* ...and inserts.  The context is loaded again from the new summary.        *)
SummaryInserts(t) ==
  /\ pc[t] = "insert" /\ Insertable(t)
  /\ rows' = rows \cup {NewSummary(t)}
  /\ context' = [context EXCEPT ![t].summary = NewSummary(t)]
  /\ seqRead' = [seqRead EXCEPT ![t] = 0]
  /\ Goto(t, "reload")
  /\ UNCHANGED <<session, created, asked, produced, genVars, netVars, muddled, requests>>

Reload(t) ==
  /\ pc[t] = "reload"
  /\ context' = [context EXCEPT ![t].recent = RecentOf(t, context[t].summary)]
  /\ Goto(t, AfterContext(t))
  /\ UNCHANGED <<dbVars, created, asked, seqRead, produced, genVars, netVars, muddled, requests>>

(* RAG: the snapshot is stored with the answer before rag_ready is told.     *)
Retrieve(t) ==
  /\ pc[t] = "retrieve" /\ AnswerOf(t) # {}
  /\ Yield(t, <<Event("rag_ready", 0)>>)
  /\ Goto(t, "check")
  /\ Unmoved
  /\ UNCHANGED <<dbVars, genVars, connected, muddled, requests>>

(* A cancel set meanwhile ends the turn before the provider is asked.        *)
CancelledInContext(t) ==
  /\ pc[t] = "check" /\ t \in cancelled
  /\ EndTurn(t, "cancelled")
  /\ Yield(t, <<Event("cancelled", 0)>>)
  /\ UNCHANGED <<dbVars, connected, muddled, requests>>

StartStream(t) ==
  /\ pc[t] = "check" /\ t \notin cancelled
  /\ Goto(t, "stream")
  /\ Unmoved
  /\ UNCHANGED <<dbVars, genVars, netVars, muddled, requests>>

(* Mutant: the share of older messages is taken of the whole input. *)
PromptWideRecent(t) ==
  LET hard    == SystemSize + UserSize[t]
      rag     == IF t \in RagTurns THEN Least(RagSize, Percent(30, MaxInput)) ELSE 0
      soft    == Monus(Monus(MaxInput, hard), rag)
      recent  == Newest({r \in context[t].recent : r.kind # "summary"}, Percent(75, MaxInput))
      left    == Monus(soft, Tokens(recent))
      summary == IF context[t].summary = None THEN 0 ELSE Least(context[t].summary.size, left)
  IN  [recent |-> recent, hard |-> hard + rag, total |-> hard + rag + Tokens(recent) + summary]

(* build_chat_context: what goes to the provider, and its tokens.            *)
Prompt(t) ==
  LET hard    == SystemSize + UserSize[t]
      rag     == IF t \in RagTurns THEN Least(RagSize, Percent(30, MaxInput)) ELSE 0
      soft    == Monus(Monus(MaxInput, hard), rag)
      most    == IF rag > 0 THEN Least(soft, Percent(30, MaxInput)) ELSE Percent(75, soft)
      recent  == Newest({r \in context[t].recent : r.kind # "summary"}, most)
      left    == Monus(soft, Tokens(recent))
      summary == IF context[t].summary = None THEN 0 ELSE Least(context[t].summary.size, left)
  IN  [recent |-> recent, hard |-> hard + rag, total |-> hard + rag + Tokens(recent) + summary]

------------------------------------------------------------------------------
(* The answer.                                                               *)

(* Mutant: a cancel set while the provider streams is not looked at. *)
ChunkUnchecked(t) ==
  /\ pc[t] = "stream" /\ produced[t] < MaxChunks
  /\ produced' = [produced EXCEPT ![t] = @ + 1]
  /\ Yield(t, <<Event("delta", 1)>>)
  /\ UNCHANGED <<dbVars, pc, created, asked, seqRead, context, genVars, connected, muddled, requests>>

(* A chunk: told as a delta, unless a cancel is found set, which closes the  *)
(* provider's stream.                                                        *)
Chunk(t) ==
  /\ pc[t] = "stream" /\ produced[t] < MaxChunks
  /\ produced' = [produced EXCEPT ![t] = @ + 1]
  /\ IF t \in cancelled
       THEN Goto(t, "cancelling") /\ UNCHANGED sent
       ELSE Yield(t, <<Event("delta", 1)>>) /\ UNCHANGED pc
  /\ UNCHANGED <<dbVars, created, asked, seqRead, context, genVars, connected, muddled, requests>>

StreamEnds(t) ==
  /\ pc[t] = "stream"
  /\ Goto(t, "store")
  /\ Unmoved
  /\ UNCHANGED <<dbVars, genVars, netVars, muddled, requests>>

(* _update_assistant_message and the turn's last event.                      *)
StoreAndEnd(t, how, events) ==
  /\ AnswerOf(t) # {}
  /\ rows' = Rewrite(AnswerOf(t), produced[t])
  /\ EndTurn(t, how)
  /\ Yield(t, events)
  /\ UNCHANGED <<session, connected, muddled, requests>>

(* Mutant: the chunk that came with the cancel is told but not stored. *)
StoreCancelledShort(t) ==
  /\ pc[t] = "cancelling" /\ AnswerOf(t) # {}
  /\ rows' = Rewrite(AnswerOf(t), produced[t] - 1)
  /\ EndTurn(t, "cancelled")
  /\ Yield(t, <<Event("cancelled", 1)>>)
  /\ UNCHANGED <<session, connected, muddled, requests>>

StoreCancelled(t) ==
  pc[t] = "cancelling" /\ StoreAndEnd(t, "cancelled", <<Event("cancelled", 1)>>)

StoreAnswer(t) ==
  pc[t] = "store" /\ StoreAndEnd(t, "done", <<Event("message_done", produced[t])>>)

(* The provider, the write lock or a missing row raises.                     *)
Fails(t) ==
  /\ \/ pc[t] \in {"summarise", "insert", "retrieve", "stream"}
     \/ pc[t] \in {"cancelling", "store"}
  /\ TurnRaises(t)

(* The handlers' own update; a failure of it is only logged.                 *)
StorePartial(t, ok) ==
  rows' = IF ok THEN Rewrite(AnswerOf(t), produced[t]) ELSE rows

StoreFailed(t) ==
  /\ pc[t] = "failing"
  /\ \E ok \in BOOLEAN : StorePartial(t, ok)
  /\ EndTurn(t, "error")
  /\ Yield(t, <<Event("error", 0)>>)
  /\ UNCHANGED <<session, connected, muddled, requests>>

(* The connection is gone and the request's task cancelled: CancelledError   *)
(* at an await stores what was produced, GeneratorExit at a yield does not.  *)
Interrupted(t) ==
  /\ pc[t] \in Running \ {"interrupting"} /\ ~connected[t]
  /\ \/ EndTurn(t, "gone")
     \/ produced[t] > 0 /\ Goto(t, "interrupting") /\ Unmoved /\ UNCHANGED genVars
  /\ UNCHANGED <<dbVars, netVars, muddled, requests>>

StoreInterrupted(t) ==
  /\ pc[t] = "interrupting"
  /\ \E ok \in BOOLEAN : StorePartial(t, ok)
  /\ EndTurn(t, "gone")
  /\ UNCHANGED <<session, netVars, muddled, requests>>

------------------------------------------------------------------------------
(* Other requests, and the process.                                          *)

(* cancel_generation: accepted while the generation is registered.           *)
Cancel(t) ==
  /\ session = "present" /\ t \in registered /\ requests < MaxRequests
  /\ cancelled' = cancelled \cup {t}
  /\ requests' = requests + 1
  /\ UNCHANGED <<dbVars, turnVars, registered, netVars, muddled>>

(* Mutant: only the messages are deleted, summaries stay. *)
RevertMessages(r) ==
  /\ session = "present" /\ r \in rows /\ r.kind = "user" /\ requests < MaxRequests
  /\ rows' = {q \in rows : q.seq < r.seq \/ q.kind = "summary"}
  /\ requests' = requests + 1
  /\ UNCHANGED <<session, turnVars, genVars, netVars, muddled>>

(* revert_session, from a user message; running turns are not looked at.     *)
Revert(r) ==
  /\ session = "present" /\ r \in rows /\ r.kind = "user" /\ requests < MaxRequests
  /\ rows' = {q \in rows : q.seq < r.seq}
  /\ muddled' = IF \E t \in Turns : HoldsReads(t) THEN muddled \cup {"revert"} ELSE muddled
  /\ requests' = requests + 1
  /\ UNCHANGED <<session, turnVars, genVars, netVars>>

DeleteSession ==
  /\ session = "present" /\ requests < MaxRequests
  /\ session' = "deleted" /\ rows' = {}
  /\ requests' = requests + 1
  /\ UNCHANGED <<turnVars, genVars, netVars, muddled>>

ClientLeaves(t) ==
  /\ connected[t] /\ pc[t] \in Running /\ requests < MaxRequests
  /\ connected' = [connected EXCEPT ![t] = FALSE]
  /\ requests' = requests + 1
  /\ UNCHANGED <<dbVars, turnVars, genVars, sent, muddled>>

(* The process stops: rows stay, everything else is gone.                    *)
Restart ==
  LET running == {t \in Turns : pc[t] \in Running}
  IN  /\ running # {} /\ requests < MaxRequests
      /\ requests' = requests + 1
      /\ pc' = [t \in Turns |-> IF t \in running THEN "gone" ELSE pc[t]]
      /\ connected' = [t \in Turns |-> connected[t] /\ t \notin running]
      /\ registered' = {} /\ cancelled' = {} /\ created' = {}
      /\ asked' = [t \in Turns |-> 0] /\ seqRead' = [t \in Turns |-> 0]
      /\ produced' = [t \in Turns |-> 0] /\ context' = [t \in Turns |-> NoContext]
      /\ UNCHANGED <<dbVars, sent, muddled>>

------------------------------------------------------------------------------
OpeningStep(t) ==
  \/ OpenSession(t) \/ OpenFails(t) \/ AppendReads(t) \/ AppendInserts(t)
  \/ AppendFails(t) \/ TitleEnds(t) \/ Register(t)

ContextStep(t) ==
  \/ LoadSummary(t) \/ LoadRecent(t) \/ SummaryReads(t) \/ SummaryInserts(t)
  \/ Reload(t) \/ Retrieve(t) \/ CancelledInContext(t) \/ StartStream(t)

AnswerStep(t) ==
  \/ Chunk(t) \/ StreamEnds(t) \/ StoreCancelled(t) \/ StoreAnswer(t)
  \/ Fails(t) \/ StoreFailed(t) \/ Interrupted(t) \/ StoreInterrupted(t)

TurnStep(t) == OpeningStep(t) \/ ContextStep(t) \/ AnswerStep(t)

RequestStep ==
  \/ \E t \in Turns : \E new \in BOOLEAN : Request(t, new)
  \/ \E t \in Turns : Cancel(t) \/ ClientLeaves(t)
  \/ \E r \in rows : Revert(r)
  \/ DeleteSession \/ Restart

Next == RequestStep \/ \E t \in Turns : TurnStep(t)

Spec == Init /\ [][Next]_vars

------------------------------------------------------------------------------
(* Properties.                                                               *)

(* Every turn's question is directly followed by its answer and the sequence *)
(* has no gap and no duplicate, whatever turns overlap: append_message reads *)
(* the sequence outside the write transaction and relies on the constraint.  *)
(* (A revert during a turn may leave a gap.)                                 *)
TimelineIntact ==
  /\ \A q, r \in rows : q.seq = r.seq => q = r
  /\ "revert" \notin muddled =>
       /\ {r.seq : r \in rows} = 1..Cardinality(rows)
       /\ \A q \in rows : q.kind = "user" => \E r \in AnswerOf(q.turn) : r.seq = q.seq + 1

(* What a turn is answered from loses nothing: every earlier message of the  *)
(* session is loaded, or went into the summary that stands for it.           *)
ContextComplete ==
  \A t \in Turns : pc[t] \in {"retrieve", "check", "stream"} /\ "revert" \notin muddled =>
    \A r \in rows : r.kind # "summary" /\ r.seq < asked[t] =>
      \/ \E q \in context[t].recent : q.seq = r.seq
      \/ /\ context[t].summary # None
         /\ \E f \in context[t].summary.covers : f.turn = r.turn /\ f.kind = r.kind

(* What a stored summary says is what is stored: no reverted message lives   *)
(* on in it, and an answer is summarised as it was finally stored.  (Turns   *)
(* that overlap may summarise an answer still being written.)                *)
SummaryMatchesRows ==
  muddled = {} =>
    \A s \in Summaries : \A f \in s.covers :
      \E r \in rows : r.turn = f.turn /\ r.kind = f.kind /\ r.size = f.size

(* The prompt stays within the model's input whenever what cannot be cut     *)
(* (system prompt, question, knowledge) does, and leaves out older messages  *)
(* only.                                                                     *)
PromptFits ==
  \A t \in Turns : pc[t] = "stream" =>
    /\ Prompt(t).hard <= MaxInput => Prompt(t).total <= MaxInput
    /\ \A q \in context[t].recent, r \in Prompt(t).recent :
         q.kind # "summary" /\ q.seq > r.seq => q \in Prompt(t).recent

(* An answer told to its end is the answer stored, a cancelled one included: *)
(* the chunk that came with the cancelled event is stored too.               *)
Told(t) == Cardinality({i \in DOMAIN sent[t] :
                          sent[t][i].event \in {"delta", "cancelled"} /\ sent[t][i].value = 1})
AnswerKept ==
  \A t \in Turns \ PastTurns : connected[t] /\ pc[t] \in {"done", "cancelled"} =>
    /\ \A r \in AnswerOf(t) : r.size = Told(t)
    /\ pc[t] = "done" => sent[t][Len(sent[t])] = Event("message_done", Told(t))

(* The event contract of a stream: session_ready first, generation_start and *)
(* the RAG snapshot before any text, one closing event, and only while the   *)
(* generation can no longer be cancelled.                                    *)
Closing == {"message_done", "cancelled", "error"}
StreamContract ==
  \A t \in Turns : \A i \in DOMAIN sent[t] :
    LET before == {sent[t][j].event : j \in 1..(i - 1)}
        event  == sent[t][i].event
    IN  /\ (event = "session_ready") = (i = 1)
        /\ before \cap Closing = {}
        /\ event \in {"delta", "message_done"} => "generation_start" \in before
        /\ event = "delta" /\ t \in RagTurns => "rag_ready" \in before
        /\ event \in Closing => t \notin registered

(* Once a cancel is accepted the turn tells at most one more chunk, with the *)
(* cancelled event.                                                          *)
CancelHeard ==
  [][\A t \in cancelled : Told(t)' > Told(t) => pc'[t] = "cancelled"]_vars
=============================================================================
