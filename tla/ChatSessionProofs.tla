--------------------------- MODULE ChatSessionProofs ---------------------------
(***************************************************************************)
(* Proofs about the turns of ChatSession, for any number of turns, any     *)
(* past, any token budget and any sizes: the message table under turns     *)
(* that overlap, what a turn is answered from, and what its client is      *)
(* told.                                                                   *)
(***************************************************************************)
EXTENDS ChatSession, FiniteSetTheorems, SequenceTheorems, WellFoundedInduction, TLAPS

-----------------------------------------------------------------------------
(* Least and greatest numbers. *)

(* The least number of a set. *)
LEMMA LeastNumber ==
  ASSUME NEW T \in SUBSET Nat, T # {}
  PROVE  \E m \in T : \A k \in T : m <= k
<1> DEFINE R == {pair \in Nat \X Nat : pair[1] < pair[2]}
<1>1. IsWellFoundedOn(R, Nat)
  BY NatLessThanWellFounded DEF OpToRel
<1>2. \A k, m \in Nat : <<k, m>> \in R <=> k < m
  OBVIOUS
<1> HIDE DEF R
<1>3. PICK m \in T : \A k \in T : ~ (<<k, m>> \in R)
  BY <1>1, WFMin
<1>4. \A k, x \in Nat : ~ (k < x) => x <= k
  OBVIOUS
<1>5. \A k \in T : k \in Nat
  OBVIOUS
<1> QED
  BY <1>2, <1>3, <1>4, <1>5, Zenon

LEMMA MinOfSet ==
  ASSUME NEW T \in SUBSET Nat, T # {}
  PROVE  Min(T) \in T /\ \A k \in T : Min(T) <= k
  BY LeastNumber DEF Min

(* Of the sets without a greatest element none is smallest. *)
LEMMA GreatestNumber ==
  ASSUME NEW T \in SUBSET Nat, T # {}, IsFiniteSet(T)
  PROVE  \E m \in T : \A k \in T : m >= k
<1> DEFINE Peak(S) == \E m \in S : \A k \in S : m >= k
           Sizes == {n \in Nat : \E S \in SUBSET Nat :
                       S # {} /\ IsFiniteSet(S) /\ Cardinality(S) = n /\ ~ Peak(S)}
<1> SUFFICES ASSUME ~ Peak(T) PROVE FALSE
  OBVIOUS
<1>1. Cardinality(T) \in Sizes
  BY FS_CardinalityType
<1>2. PICK n \in Sizes : \A k \in Sizes : n <= k
  BY <1>1, LeastNumber
<1>3. PICK S \in SUBSET Nat : S # {} /\ IsFiniteSet(S) /\ Cardinality(S) = n /\ ~ Peak(S)
  BY <1>2
<1>4. PICK x : x \in S /\ x \in Nat
  BY <1>3
<1> DEFINE rest == S \ {x}
<1>5. /\ rest \in SUBSET Nat /\ IsFiniteSet(rest)
      /\ Cardinality(rest) = n - 1 /\ n \in Nat /\ Cardinality(rest) \in Nat
  BY <1>2, <1>3, <1>4, FS_RemoveElement, FS_CardinalityType
<1>6. CASE rest = {}
  <2>1. S = {x} /\ x >= x
    BY <1>3, <1>4, <1>6
  <2> QED
    BY <1>3, <1>4, <2>1
<1>7. CASE rest # {}
  <2>1. Peak(rest)
    <3>1. ~ (Cardinality(rest) \in Sizes)
      <4>1. \A m \in Nat : n <= m => m # n - 1
        BY <1>5
      <4> QED
        BY <1>2, <1>5, <4>1
    <3> QED
      BY <1>5, <1>7, <3>1
  <2>2. PICK m \in rest : \A k \in rest : m >= k
    BY <2>1
  <2>3. m \in S /\ m \in Nat /\ \A k \in S : k = x \/ k \in rest
    BY <1>3
  <2>4. CASE m >= x
    BY <1>3, <1>4, <2>2, <2>3, <2>4
  <2>5. CASE ~ (m >= x)
    <3>1. x >= m /\ x >= x
      BY <1>4, <2>3, <2>5
    <3>2. \A k \in rest : k \in Nat
      BY <1>5
    <3>3. \A k \in S : x >= k
      BY <1>4, <2>2, <2>3, <3>1, <3>2
    <3> QED
      BY <1>3, <1>4, <3>3
  <2> QED
    BY <2>4, <2>5
<1> QED
  BY <1>6, <1>7

LEMMA MaxOfSet ==
  ASSUME NEW T \in SUBSET Nat, T # {}, IsFiniteSet(T)
  PROVE  Max(T) \in T /\ \A k \in T : Max(T) >= k
  BY GreatestNumber DEF Max

-----------------------------------------------------------------------------
(* Types.  Four facts join them: a sequence is read before it is inserted at, *)
(* nothing is produced before the provider's stream, a summary in a context  *)
(* is a summary row, and what is compacted leaves a tail.                    *)

(* Where the handlers are that write the answer. *)
Storing == {"cancelling", "store", "failing", "interrupting"}

FactType  == [turn : Turns, kind : {"user", "assistant"}, size : Nat]
RowType   == [seq : Nat \ {0}, turn : Turns, kind : {"user", "assistant", "summary"},
              size : Nat, tail : Nat, covers : SUBSET FactType]
EventType == [event : {"session_ready", "session_title_updated", "generation_start",
                       "rag_ready", "delta", "message_done", "cancelled", "error"},
              value : Nat]
Places    == {"idle"} \cup Running \cup Ended

RowsTyped ==
  /\ session \in {"none", "present", "deleted"}
  /\ rows \in SUBSET RowType /\ IsFiniteSet(rows)

TurnsTyped ==
  /\ pc \in [Turns -> Places]
  /\ created \in SUBSET Turns /\ registered \in SUBSET Turns /\ cancelled \in SUBSET Turns
  /\ asked \in [Turns -> Nat] /\ seqRead \in [Turns -> Nat] /\ produced \in [Turns -> Nat]
  /\ \A t \in Turns : pc[t] \in {"append", "insert"} => seqRead[t] # 0
  /\ \A t \in Turns : pc[t] \notin {"stream"} \cup Storing => produced[t] = 0

ContextsTyped ==
  /\ context \in [Turns -> [summary : RowType \cup {None}, recent : SUBSET RowType]]
  /\ \A t \in Turns :
       /\ context[t].summary # None => context[t].summary.kind = "summary"
       /\ pc[t] \in {"summarise", "insert"} => CanCompact(context[t].recent)

StreamsTyped == sent \in [Turns -> Seq(EventType)] /\ connected \in [Turns -> BOOLEAN]

CountsTyped == muddled \in SUBSET {"revert", "overlap"} /\ requests \in Nat

TypeInv == RowsTyped /\ TurnsTyped /\ ContextsTyped /\ StreamsTyped /\ CountsTyped

LEMMA TypeInvImpliesTypeOK == TypeInv => TypeOK
  BY DEF TypeInv, TypeOK, RowsTyped, TurnsTyped, StreamsTyped, CountsTyped, RowType, FactType,
         Places

(* The sequence numbers of a finite set of rows. *)
LEMMA SeqsOfRows ==
  ASSUME NEW S \in SUBSET RowType, IsFiniteSet(S)
  PROVE  {r.seq : r \in S} \in SUBSET (Nat \ {0}) /\ IsFiniteSet({r.seq : r \in S})
<1> DEFINE f == [r \in S |-> r.seq]
<1>1. f \in Surjection(S, {r.seq : r \in S})
  BY DEF Surjection
<1>2. IsFiniteSet({r.seq : r \in S})
  BY <1>1, FS_Surjection
<1> QED
  BY <1>2 DEF RowType

(* SELECT MAX(sequence) + 1 is above every row, next to one or the first. *)
LEMMA NextOfRows ==
  ASSUME NEW T \in SUBSET RowType, IsFiniteSet(T)
  PROVE  LET next == 1 + Max({0} \cup {r.seq : r \in T})
         IN  /\ next \in Nat \ {0}
             /\ \A r \in T : r.seq \in Nat \ {0} /\ r.seq < next
             /\ next = 1 \/ \E r \in T : next = 1 + r.seq
<1> DEFINE S == {0} \cup {r.seq : r \in T}
<1>1. S \in SUBSET Nat /\ S # {} /\ IsFiniteSet(S)
  <2>1. {r.seq : r \in T} \in SUBSET (Nat \ {0}) /\ IsFiniteSet({r.seq : r \in T})
    BY SeqsOfRows
  <2>2. IsFiniteSet({0})
    BY FS_Singleton
  <2>3. IsFiniteSet(S)
    BY <2>1, <2>2, FS_Union
  <2> QED
    BY <2>1, <2>3
<1>2. Max(S) \in S /\ \A k \in S : Max(S) >= k
  BY <1>1, MaxOfSet
<1>3. \A r \in T : r.seq \in S /\ r.seq \in Nat \ {0}
  BY DEF RowType
<1>4. Max(S) = 0 \/ \E r \in T : Max(S) = r.seq
  BY <1>2
<1> HIDE DEF S
<1>5. Max(S) \in Nat
  BY <1>1, <1>2
<1>6. \A r \in T : r.seq < 1 + Max(S)
  BY <1>2, <1>3, <1>5
<1>7. 1 + Max(S) \in Nat \ {0}
  BY <1>5
<1>8. 1 + Max(S) = 1 \/ \E r \in T : 1 + Max(S) = 1 + r.seq
  BY <1>4, <1>5
<1> QED
  BY <1>3, <1>6, <1>7, <1>8, Zenon DEF S

LEMMA NextIsAbove ==
  ASSUME RowsTyped
  PROVE  /\ NextSequence \in Nat \ {0}
         /\ \A r \in rows : r.seq \in Nat \ {0} /\ r.seq < NextSequence
         /\ NextSequence = 1 \/ \E r \in rows : NextSequence = 1 + r.seq
  BY NextOfRows DEF RowsTyped, NextSequence

LEMMA NextIsAboveAfter ==
  ASSUME RowsTyped'
  PROVE  /\ NextSequence' \in Nat \ {0}
         /\ \A r \in rows' : r.seq \in Nat \ {0} /\ r.seq < NextSequence'
         /\ NextSequence' = 1 \/ \E r \in rows' : NextSequence' = 1 + r.seq
  BY NextOfRows DEF RowsTyped, NextSequence

LEMMA LatestIsSummary ==
  ASSUME RowsTyped
  PROVE  LatestSummary = None \/ (LatestSummary \in rows /\ LatestSummary.kind = "summary")
<1> SUFFICES ASSUME Summaries # {} PROVE LatestSummary \in Summaries
  BY DEF LatestSummary, Summaries
<1> DEFINE S == {r.seq : r \in Summaries}
<1>1. Summaries \in SUBSET RowType /\ IsFiniteSet(Summaries)
  BY FS_Subset DEF RowsTyped, Summaries
<1>2. S \in SUBSET Nat /\ S # {} /\ IsFiniteSet(S)
  BY <1>1, SeqsOfRows
<1>3. PICK m \in S : \A k \in S : m >= k
  BY <1>2, GreatestNumber
<1>4. PICK s \in Summaries : s.seq = m
  BY <1>3
<1>5. \A q \in Summaries : q.seq <= s.seq
  BY <1>1, <1>3, <1>4 DEF RowType
<1>6. \E x \in Summaries : \A q \in Summaries : q.seq <= x.seq
  BY <1>5
<1> QED
  BY <1>6, Zenon DEF LatestSummary

(* UPDATE ... RETURNING leaves everything of a row but its size. *)
LEMMA RewriteTyped ==
  ASSUME RowsTyped, NEW S \in SUBSET rows, NEW size \in Nat, rows' = Rewrite(S, size)
  PROVE  rows' \in SUBSET RowType /\ IsFiniteSet(rows')
<1> DEFINE f == [r \in S |-> [r EXCEPT !.size = size]]
           T == {[r EXCEPT !.size = size] : r \in S}
<1>1. IsFiniteSet(S) /\ IsFiniteSet(rows \ S)
  BY FS_Subset DEF RowsTyped
<1>2. f \in Surjection(S, T)
  BY DEF Surjection
<1>3. IsFiniteSet(T)
  BY <1>1, <1>2, FS_Surjection
<1>4. T \in SUBSET RowType
  BY DEF RowsTyped, RowType
<1>5. rows' = (rows \ S) \cup T
  BY DEF Rewrite
<1> HIDE DEF T
<1> QED
  BY <1>1, <1>3, <1>4, <1>5, FS_Union DEF RowsTyped

(* Events reach a client that is connected. *)
LEMMA YieldTyped ==
  ASSUME StreamsTyped, NEW t \in Turns, NEW events \in Seq(EventType), Yield(t, events)
  PROVE  sent' \in [Turns -> Seq(EventType)]
<1>1. sent[t] \o events \in Seq(EventType)
  BY ConcatProperties DEF StreamsTyped
<1> QED
  BY <1>1 DEF StreamsTyped, Yield

LEMMA EndTurnTyped ==
  ASSUME TurnsTyped, ContextsTyped, NEW t \in Turns, NEW how \in Ended, EndTurn(t, how)
  PROVE  TurnsTyped' /\ ContextsTyped'
<1>1. how \in Places /\ how \notin {"summarise", "insert", "append"}
  BY DEF Places, Ended
<1>2. TurnsTyped'
  BY <1>1 DEF TurnsTyped, EndTurn, Goto
<1>3. \A u \in Turns : u # t => context'[u] = context[u] /\ pc'[u] = pc[u]
  BY DEF TurnsTyped, ContextsTyped, EndTurn, Goto
<1>4. context'[t] = NoContext /\ pc'[t] = how
  BY DEF TurnsTyped, ContextsTyped, EndTurn, Goto
<1>5. context' \in [Turns -> [summary : RowType \cup {None}, recent : SUBSET RowType]]
  BY DEF ContextsTyped, EndTurn, NoContext
<1> QED
  BY <1>1, <1>2, <1>3, <1>4, <1>5 DEF ContextsTyped, NoContext

LEMMA TurnRaisesTyped ==
  ASSUME TypeInv, NEW t \in Turns, TurnRaises(t)
  PROVE  TypeInv'
<1>1. RowsTyped' /\ CountsTyped'
  BY DEF TurnRaises, TypeInv, RowsTyped, CountsTyped, dbVars
<1>2. CASE produced[t] > 0
  BY <1>1, <1>2 DEF TurnRaises, TypeInv, TurnsTyped, ContextsTyped, StreamsTyped, Goto, Unmoved,
    genVars, Places, Running, Generating, Storing
<1>3. CASE ~ (produced[t] > 0)
  <2>1. <<Event("error", 0)>> \in Seq(EventType)
    BY DEF Event, EventType
  <2>2. sent' \in [Turns -> Seq(EventType)]
    BY <1>3, <2>1, YieldTyped DEF TurnRaises, TypeInv
  <2>3. TurnsTyped' /\ ContextsTyped'
    BY <1>3, EndTurnTyped DEF TurnRaises, TypeInv, Ended
  <2> QED
    BY <1>1, <2>2, <2>3 DEF TurnRaises, TypeInv, StreamsTyped
<1> QED
  BY <1>2, <1>3

(* An insert adds rows of the table's type. *)
LEMMA InsertTyped ==
  ASSUME RowsTyped, NEW S \in SUBSET RowType, IsFiniteSet(S), rows' = rows \cup S
  PROVE  rows' \in SUBSET RowType /\ IsFiniteSet(rows')
  BY FS_Union DEF RowsTyped

LEMMA PairFinite ==
  ASSUME NEW a, NEW b
  PROVE  IsFiniteSet({a, b})
<1>1. IsFiniteSet({a}) /\ {a, b} = {a} \cup {b}
  BY FS_Singleton
<1> QED
  BY <1>1, FS_AddElement

LEMMA NewMessagesTyped ==
  ASSUME RowsTyped, NEW t \in Turns, NEW n \in Nat \ {0}
  PROVE  /\ Question(n, t) \in RowType
         /\ Max({r.seq : r \in rows \cup {Question(n, t)}}) \in Nat
         /\ \A r \in rows \cup {Question(n, t)} :
              r.seq <= Max({q.seq : q \in rows \cup {Question(n, t)}})
         /\ \E r \in rows \cup {Question(n, t)} :
              r.seq = Max({q.seq : q \in rows \cup {Question(n, t)}})
<1> DEFINE S == rows \cup {Question(n, t)}
           T == {r.seq : r \in S}
<1>1. Question(n, t) \in RowType
  BY ChatSessionAssumption DEF Question, Row, RowType
<1>2. S \in SUBSET RowType /\ IsFiniteSet(S)
  BY <1>1, FS_AddElement DEF RowsTyped
<1>3. T \in SUBSET Nat /\ IsFiniteSet(T)
  BY <1>2, SeqsOfRows
<1>4. Question(n, t).seq \in T
  OBVIOUS
<1>5. Max(T) \in T /\ \A k \in T : Max(T) >= k
  BY <1>3, <1>4, MaxOfSet
<1>6. \A r \in S : r.seq \in T /\ r.seq \in Nat
  BY <1>2 DEF RowType
<1>7. \A r \in S : r.seq <= Max(T)
  BY <1>3, <1>5, <1>6
<1> QED
  BY <1>1, <1>3, <1>5, <1>7

(* A typed context with a summary that can be taken. *)
LEMMA TailTyped ==
  ASSUME NEW recent \in SUBSET RowType, CanCompact(recent)
  PROVE  /\ TailStart(recent) \in Nat \ {0}
         /\ \E r \in recent : r.seq = TailStart(recent)
         /\ \A r \in TailOf(recent) : TailStart(recent) <= r.seq
<1> DEFINE T == {r.seq : r \in TailOf(recent)}
<1>1. TailOf(recent) \in SUBSET recent /\ TailOf(recent) # {}
  BY DEF TailOf, Newest, CanCompact
<1>2. T \in SUBSET Nat /\ T # {} /\ \A k \in T : k \in Nat \ {0}
  BY <1>1 DEF RowType
<1>3. Min(T) \in T /\ \A k \in T : Min(T) <= k
  BY <1>2, MinOfSet
<1>4. TailStart(recent) = Min(T)
  BY DEF TailStart
<1> QED
  BY <1>1, <1>2, <1>3, <1>4

LEMMA NewSummaryTyped ==
  ASSUME TypeInv, NEW t \in Turns, pc[t] = "insert"
  PROVE  /\ NewSummary(t) \in RowType /\ NewSummary(t).kind = "summary"
         /\ NewSummary(t).tail = TailStart(context[t].recent)
         /\ NewSummary(t).seq = seqRead[t] /\ NewSummary(t).turn = t
<1> DEFINE recent == context[t].recent
           old == {s \in {context[t].summary} : s # None}
           compacted == {r \in recent : r.seq < TailStart(recent)}
           covers == UNION {Facts(r) : r \in compacted \cup old}
<1>1. recent \in SUBSET RowType /\ CanCompact(recent) /\ old \in SUBSET RowType
  BY DEF TypeInv, ContextsTyped
<1>2. TailStart(recent) \in Nat
  BY <1>1, TailTyped
<1>3. \A r \in RowType : Facts(r) \in SUBSET FactType
  BY DEF Facts, RowType, FactType
<1>4. covers \in SUBSET FactType
  BY <1>1, <1>3
<1>5. seqRead[t] \in Nat \ {0} /\ SummarySize \in Nat
  BY ChatSessionAssumption DEF TypeInv, TurnsTyped
<1>6. NewSummary(t) = Row(seqRead[t], t, "summary", SummarySize, TailStart(recent), covers)
  BY DEF NewSummary
<1> HIDE DEF covers, recent
<1> QED
  BY <1>2, <1>4, <1>5, <1>6 DEF Row, RowType, recent

LEMMA OpeningTyped ==
  ASSUME TypeInv, NEW t \in Turns, OpeningStep(t)
  PROVE  TypeInv'
<1> USE DEF TypeInv
<1>1. CASE OpenSession(t)
  <2>1. <<Event("session_ready", 0)>> \in Seq(EventType)
    BY DEF Event, EventType
  <2>2. sent' \in [Turns -> Seq(EventType)]
    BY <1>1, <2>1, YieldTyped DEF OpenSession
  <2> QED
    BY <1>1, <2>2 DEF OpenSession, RowsTyped, TurnsTyped, ContextsTyped, StreamsTyped, CountsTyped,
      Goto, Unmoved, genVars, Places, Storing, Running, Opening
<1>2. CASE OpenFails(t) \/ AppendFails(t)
  <2>1. Breaks(t)
    BY <1>2 DEF OpenFails, AppendFails
  <2>2. TurnsTyped' /\ ContextsTyped'
    BY <2>1, EndTurnTyped DEF Breaks, Ended
  <2> QED
    BY <2>1, <2>2 DEF Breaks, dbVars, netVars, RowsTyped, StreamsTyped, CountsTyped
<1>3. CASE AppendReads(t)
  <2>1. NextSequence \in Nat \ {0}
    BY NextIsAbove
  <2> QED
    BY <1>3, <2>1 DEF AppendReads, RowsTyped, TurnsTyped, ContextsTyped, StreamsTyped, CountsTyped,
      Goto, dbVars, genVars, netVars, Places, Storing, Running, Opening
<1>4. CASE AppendInserts(t)
  <2> DEFINE question == Question(seqRead[t], t)
             last == Max({r.seq : r \in rows \cup {question}})
  <2>1. seqRead[t] \in Nat \ {0}
    BY <1>4 DEF AppendInserts, TurnsTyped
  <2>2. question \in RowType /\ last \in Nat
    BY <2>1, NewMessagesTyped
  <2> HIDE DEF last
  <2>3. Answer(last + 1, t, 0) \in RowType
    BY <2>2 DEF Answer, Row, RowType
  <2>4. rows' = rows \cup {question, Answer(last + 1, t, 0)}
    BY <1>4 DEF AppendInserts, last
  <2> HIDE DEF question
  <2>5. rows' \in SUBSET RowType /\ IsFiniteSet(rows')
    <3> DEFINE both == {question, Answer(last + 1, t, 0)}
    <3>1. both \in SUBSET RowType
      BY <2>2, <2>3
    <3>2. IsFiniteSet(both)
      BY PairFinite
    <3>3. rows' = rows \cup both
      BY <2>4
    <3> HIDE DEF both
    <3> QED
      BY <3>1, <3>2, <3>3, InsertTyped
  <2>6. /\ asked' \in [Turns -> Nat] /\ seqRead' \in [Turns -> Nat]
        /\ muddled' \in SUBSET {"revert", "overlap"}
    BY <1>4, <2>1 DEF AppendInserts, TurnsTyped, CountsTyped
  <2> QED
    BY <1>4, <2>5, <2>6 DEF AppendInserts, RowsTyped, TurnsTyped, ContextsTyped, StreamsTyped,
      CountsTyped, Goto, genVars, netVars, Places, Storing, Running, Opening
<1>5. CASE TitleEnds(t)
  <2>1. PICK ok \in BOOLEAN :
          Yield(t, IF ok THEN <<Event("session_title_updated", 0)>> ELSE <<>>)
    BY <1>5 DEF TitleEnds
  <2>2. <<Event("session_title_updated", 0)>> \in Seq(EventType) /\ <<>> \in Seq(EventType)
    BY DEF Event, EventType
  <2>3. sent' \in [Turns -> Seq(EventType)]
    BY <2>1, <2>2, YieldTyped
  <2> QED
    BY <1>5, <2>3 DEF TitleEnds, RowsTyped, TurnsTyped, ContextsTyped, StreamsTyped, CountsTyped,
      Goto, Unmoved, dbVars, genVars, Places, Storing, Running, Opening
<1>6. CASE Register(t)
  <2>1. asked[t] \in Nat
    BY DEF TurnsTyped
  <2>2. <<Event("generation_start", asked[t])>> \in Seq(EventType)
    BY <2>1 DEF Event, EventType
  <2>3. sent' \in [Turns -> Seq(EventType)]
    BY <1>6, <2>2, YieldTyped DEF Register
  <2> QED
    BY <1>6, <2>3 DEF Register, RowsTyped, TurnsTyped, ContextsTyped, StreamsTyped, CountsTyped,
      Goto, Unmoved, dbVars, Places, Running, Generating, Storing
<1> QED
  BY <1>1, <1>2, <1>3, <1>4, <1>5, <1>6 DEF OpeningStep

(* The queries of load_recent_messages select rows. *)
LEMMA RecentIsRows ==
  ASSUME NEW t, NEW summary
  PROVE  RecentOf(t, summary) \in SUBSET rows
  BY DEF RecentOf

LEMMA ContextTyped ==
  ASSUME TypeInv, NEW t \in Turns, ContextStep(t)
  PROVE  TypeInv'
<1> USE DEF TypeInv
<1>1. CASE LoadSummary(t)
  <2>1. LatestSummary \in RowType \cup {None}
        /\ (LatestSummary # None => LatestSummary.kind = "summary")
    BY LatestIsSummary DEF RowsTyped
  <2> QED
    BY <1>1, <2>1 DEF LoadSummary, RowsTyped, TurnsTyped, ContextsTyped, StreamsTyped, CountsTyped,
      Goto, dbVars, genVars, netVars, Places, Running, Generating, Storing
<1>2. CASE LoadRecent(t)
  <2> DEFINE summary == context[t].summary
             recent == RecentOf(t, summary)
             full == NeedsCompaction(t, summary, recent)
  <2>1. CASE full /\ ~CanCompact(recent)
    BY <1>2, <2>1, TurnRaisesTyped DEF LoadRecent
  <2>2. CASE ~ (full /\ ~CanCompact(recent))
    <3>1. recent \in SUBSET RowType
      BY RecentIsRows DEF RowsTyped
    <3>2. PICK c : c = full
      OBVIOUS
    <3>3. PICK r \in SUBSET RowType : r = recent
      BY <3>1
    <3>4. /\ context' = [context EXCEPT ![t].recent = r]
          /\ pc' = [pc EXCEPT ![t] = IF c THEN "summarise" ELSE AfterContext(t)]
          /\ UNCHANGED <<dbVars, created, asked, seqRead, produced, genVars, netVars,
                         muddled, requests>>
          /\ c => CanCompact(r)
      <4> QED
        BY <1>2, <2>2, <3>2, <3>3, Zenon DEF LoadRecent, Goto
    <3>5. AfterContext(t) \in {"retrieve", "check"}
      BY DEF AfterContext
    <3>9. pc[t] = "recent"
      BY <1>2 DEF LoadRecent
    <3>6. TurnsTyped'
      BY <3>4, <3>5, <3>9 DEF TurnsTyped, genVars, Places, Running, Generating, Storing
    <3>7. /\ \A u \in Turns : u # t => context'[u] = context[u] /\ pc'[u] = pc[u]
          /\ context'[t] = [context[t] EXCEPT !.recent = r]
          /\ pc'[t] = IF c THEN "summarise" ELSE AfterContext(t)
          /\ context' \in [Turns -> [summary : RowType \cup {None}, recent : SUBSET RowType]]
      BY <3>4 DEF ContextsTyped, TurnsTyped
    <3>8. ContextsTyped'
      BY <3>4, <3>5, <3>7 DEF ContextsTyped
    <3> QED
      BY <3>4, <3>6, <3>8 DEF RowsTyped, StreamsTyped, CountsTyped, dbVars, netVars
  <2> QED
    BY <2>1, <2>2
<1>3. CASE SummaryReads(t)
  <2>1. NextSequence \in Nat \ {0}
    BY NextIsAbove
  <2> QED
    BY <1>3, <2>1 DEF SummaryReads, RowsTyped, TurnsTyped, ContextsTyped, StreamsTyped, CountsTyped,
      Goto, dbVars, genVars, netVars, Places, Running, Generating, Storing
<1>4. CASE SummaryInserts(t)
  <2>1. /\ NewSummary(t) \in RowType /\ NewSummary(t).kind = "summary"
    BY <1>4, NewSummaryTyped DEF SummaryInserts
  <2>2. rows' \in SUBSET RowType /\ IsFiniteSet(rows')
    BY <1>4, <2>1, FS_AddElement DEF SummaryInserts, RowsTyped
  <2>3. PICK s \in RowType : s = NewSummary(t) /\ s.kind = "summary"
    BY <2>1
  <2>4. /\ context' = [context EXCEPT ![t].summary = s] /\ pc' = [pc EXCEPT ![t] = "reload"]
        /\ seqRead' = [seqRead EXCEPT ![t] = 0]
        /\ UNCHANGED <<session, created, asked, produced, genVars, netVars, muddled, requests>>
    BY <1>4, <2>3 DEF SummaryInserts, Goto
  <2>7. pc[t] = "insert"
    BY <1>4 DEF SummaryInserts
  <2>5. TurnsTyped'
    BY <2>4, <2>7 DEF TurnsTyped, genVars, Places, Running, Generating, Storing
  <2>6. ContextsTyped'
    BY <2>3, <2>4 DEF ContextsTyped, TurnsTyped
  <2> QED
    BY <2>2, <2>4, <2>5, <2>6 DEF RowsTyped, StreamsTyped, CountsTyped, netVars
<1>5. CASE Reload(t)
  <2>1. RecentOf(t, context[t].summary) \in SUBSET RowType
    BY RecentIsRows DEF RowsTyped
  <2>2. AfterContext(t) \in {"retrieve", "check"}
    BY DEF AfterContext
  <2> QED
    BY <1>5, <2>1, <2>2 DEF Reload, RowsTyped, TurnsTyped, ContextsTyped, StreamsTyped, CountsTyped,
      Goto, dbVars, genVars, netVars, Places, Running, Generating, Storing
<1>6. CASE Retrieve(t)
  <2>1. <<Event("rag_ready", 0)>> \in Seq(EventType)
    BY DEF Event, EventType
  <2>2. sent' \in [Turns -> Seq(EventType)]
    BY <1>6, <2>1, YieldTyped DEF Retrieve
  <2> QED
    BY <1>6, <2>2 DEF Retrieve, RowsTyped, TurnsTyped, ContextsTyped, StreamsTyped, CountsTyped,
      Goto, Unmoved, dbVars, genVars, Places, Running, Generating, Storing
<1>7. CASE CancelledInContext(t)
  <2>1. <<Event("cancelled", 0)>> \in Seq(EventType)
    BY DEF Event, EventType
  <2>2. sent' \in [Turns -> Seq(EventType)]
    BY <1>7, <2>1, YieldTyped DEF CancelledInContext
  <2>3. TurnsTyped' /\ ContextsTyped'
    BY <1>7, EndTurnTyped DEF CancelledInContext, Ended
  <2> QED
    BY <1>7, <2>2, <2>3 DEF CancelledInContext, RowsTyped, StreamsTyped, CountsTyped, dbVars
<1>8. CASE StartStream(t)
  BY <1>8 DEF StartStream, RowsTyped, TurnsTyped, ContextsTyped, StreamsTyped, CountsTyped,
    Goto, Unmoved, dbVars, genVars, netVars, Places, Running, Generating, Storing
<1> QED
  BY <1>1, <1>2, <1>3, <1>4, <1>5, <1>6, <1>7, <1>8 DEF ContextStep

LEMMA StoreAndEndTyped ==
  ASSUME TypeInv, NEW t \in Turns, NEW how \in Ended, NEW events \in Seq(EventType),
         StoreAndEnd(t, how, events)
  PROVE  TypeInv'
<1> USE DEF TypeInv
<1>1. rows' \in SUBSET RowType /\ IsFiniteSet(rows')
  <2>1. produced[t] \in Nat /\ AnswerOf(t) \in SUBSET rows
    BY DEF TurnsTyped, AnswerOf
  <2> QED
    BY <2>1, RewriteTyped DEF StoreAndEnd
<1>2. TurnsTyped' /\ ContextsTyped'
  BY EndTurnTyped DEF StoreAndEnd
<1>3. sent' \in [Turns -> Seq(EventType)]
  BY YieldTyped DEF StoreAndEnd
<1> QED
  BY <1>1, <1>2, <1>3 DEF StoreAndEnd, RowsTyped, StreamsTyped, CountsTyped

LEMMA PartialTyped ==
  ASSUME TypeInv, NEW t \in Turns, NEW ok \in BOOLEAN, StorePartial(t, ok)
  PROVE  rows' \in SUBSET RowType /\ IsFiniteSet(rows')
<1>1. produced[t] \in Nat /\ AnswerOf(t) \in SUBSET rows /\ RowsTyped
  BY DEF TypeInv, TurnsTyped, AnswerOf
<1>2. CASE ok
  BY <1>1, <1>2, RewriteTyped DEF StorePartial
<1>3. CASE ~ ok
  BY <1>1, <1>3 DEF StorePartial, RowsTyped
<1> QED
  BY <1>2, <1>3

LEMMA AnswerTyped ==
  ASSUME TypeInv, NEW t \in Turns, AnswerStep(t)
  PROVE  TypeInv'
<1> USE DEF TypeInv
<1>1. CASE Chunk(t)
  <2>1. <<Event("delta", 1)>> \in Seq(EventType)
    BY DEF Event, EventType
  <2>2. sent' \in [Turns -> Seq(EventType)]
    BY <1>1, <2>1, YieldTyped DEF Chunk, StreamsTyped
  <2>3. TurnsTyped'
    BY <1>1 DEF Chunk, TurnsTyped, Goto, genVars, Places, Running, Generating, Storing
  <2>4. ContextsTyped'
    BY <1>1 DEF Chunk, ContextsTyped, TurnsTyped, Goto
  <2> QED
    BY <1>1, <2>2, <2>3, <2>4 DEF Chunk, RowsTyped, StreamsTyped, CountsTyped, dbVars
<1>2. CASE StreamEnds(t)
  BY <1>2 DEF StreamEnds, RowsTyped, TurnsTyped, ContextsTyped, StreamsTyped, CountsTyped,
    Goto, Unmoved, dbVars, genVars, netVars, Places, Running, Generating, Storing
<1>3. CASE StoreCancelled(t)
  <2>1. <<Event("cancelled", 1)>> \in Seq(EventType)
    BY DEF Event, EventType
  <2> QED
    BY <1>3, <2>1, StoreAndEndTyped DEF StoreCancelled, Ended
<1>4. CASE StoreAnswer(t)
  <2>1. produced[t] \in Nat
    BY DEF TurnsTyped
  <2>2. <<Event("message_done", produced[t])>> \in Seq(EventType)
    BY <2>1 DEF Event, EventType
  <2> QED
    BY <1>4, <2>2, StoreAndEndTyped DEF StoreAnswer, Ended
<1>5. CASE Fails(t)
  BY <1>5, TurnRaisesTyped DEF Fails
<1>6. CASE StoreFailed(t)
  <2>1. <<Event("error", 0)>> \in Seq(EventType)
    BY DEF Event, EventType
  <2>2. sent' \in [Turns -> Seq(EventType)]
    BY <1>6, <2>1, YieldTyped DEF StoreFailed
  <2>3. TurnsTyped' /\ ContextsTyped'
    BY <1>6, EndTurnTyped DEF StoreFailed, Ended
  <2>4. rows' \in SUBSET RowType /\ IsFiniteSet(rows')
    BY <1>6, PartialTyped DEF StoreFailed
  <2> QED
    BY <1>6, <2>2, <2>3, <2>4 DEF StoreFailed, RowsTyped, StreamsTyped, CountsTyped
<1>7. CASE Interrupted(t)
  <2>1. TurnsTyped' /\ ContextsTyped'
    <3>1. CASE EndTurn(t, "gone")
      BY <3>1, EndTurnTyped DEF Ended
    <3>2. CASE Goto(t, "interrupting") /\ Unmoved /\ UNCHANGED genVars
      BY <3>2 DEF TurnsTyped, ContextsTyped, Goto, Unmoved, genVars, Places, Running, Generating, Storing
    <3> QED
      BY <1>7, <3>1, <3>2 DEF Interrupted
  <2> QED
    BY <1>7, <2>1 DEF Interrupted, dbVars, netVars, RowsTyped, StreamsTyped, CountsTyped
<1>8. CASE StoreInterrupted(t)
  <2>1. TurnsTyped' /\ ContextsTyped'
    BY <1>8, EndTurnTyped DEF StoreInterrupted, Ended
  <2>2. rows' \in SUBSET RowType /\ IsFiniteSet(rows')
    BY <1>8, PartialTyped DEF StoreInterrupted
  <2> QED
    BY <1>8, <2>1, <2>2 DEF StoreInterrupted, netVars, RowsTyped, StreamsTyped, CountsTyped
<1> QED
  BY <1>1, <1>2, <1>3, <1>4, <1>5, <1>6, <1>7, <1>8 DEF AnswerStep

LEMMA RequestTyped ==
  ASSUME TypeInv, RequestStep
  PROVE  TypeInv'
<1> USE DEF TypeInv
<1>1. ASSUME NEW t \in Turns, NEW new \in BOOLEAN, Request(t, new) PROVE TypeInv'
  BY <1>1 DEF Request, RowsTyped, TurnsTyped, ContextsTyped, StreamsTyped, CountsTyped, Goto,
    dbVars, genVars, Places, Storing, Running, Opening
<1>2. ASSUME NEW t \in Turns, Cancel(t) PROVE TypeInv'
  BY <1>2 DEF Cancel, RowsTyped, TurnsTyped, ContextsTyped, StreamsTyped, CountsTyped, dbVars,
    turnVars, netVars
<1>3. ASSUME NEW t \in Turns, ClientLeaves(t) PROVE TypeInv'
  BY <1>3 DEF ClientLeaves, RowsTyped, TurnsTyped, ContextsTyped, StreamsTyped, CountsTyped, dbVars,
    turnVars, genVars
<1>4. ASSUME NEW r \in rows, Revert(r) PROVE TypeInv'
  <2>1. rows' \in SUBSET rows
    BY <1>4 DEF Revert
  <2>2. rows' \in SUBSET RowType /\ IsFiniteSet(rows')
    BY <2>1, FS_Subset DEF RowsTyped
  <2>3. muddled' \in SUBSET {"revert", "overlap"}
    BY <1>4 DEF Revert, CountsTyped
  <2> QED
    BY <1>4, <2>2, <2>3 DEF Revert, RowsTyped, TurnsTyped, ContextsTyped, StreamsTyped, CountsTyped,
      turnVars, genVars, netVars
<1>5. CASE DeleteSession
  <2>1. IsFiniteSet({})
    BY FS_EmptySet
  <2> QED
    BY <1>5, <2>1 DEF DeleteSession, RowsTyped, TurnsTyped, ContextsTyped, StreamsTyped, CountsTyped,
      turnVars, genVars, netVars
<1>6. CASE Restart
  <2>1. /\ \A t \in Turns : pc'[t] = IF pc[t] \in Running THEN "gone" ELSE pc[t]
        /\ pc' \in [Turns -> Places]
    BY <1>6 DEF Restart, TurnsTyped, Places, Ended
  <2>2. \A t \in Turns : pc'[t] \notin {"append", "insert", "summarise"}
    BY <2>1 DEF Running, Opening, Generating
  <2>3. context' \in [Turns -> [summary : RowType \cup {None}, recent : SUBSET RowType]]
        /\ \A t \in Turns : context'[t].summary = None
    BY <1>6 DEF Restart, NoContext
  <2> QED
    BY <1>6, <2>1, <2>2, <2>3 DEF Restart, RowsTyped, TurnsTyped, ContextsTyped, StreamsTyped,
      CountsTyped, dbVars
<1> QED
  BY <1>1, <1>2, <1>3, <1>4, <1>5, <1>6 DEF RequestStep

LEMMA StutterTyped ==
  ASSUME TypeInv, UNCHANGED vars
  PROVE  TypeInv'
  BY DEF TypeInv, vars, RowsTyped, TurnsTyped, ContextsTyped, StreamsTyped, CountsTyped, CanCompact,
    TailOf, Newest

(* The past is a sequence of turns that left a question and an answer each. *)
LEMMA PastRowsShape ==
  ASSUME NEW order \in {<<>>, Past}, NEW sizes \in [PastTurns -> 0..MaxChunks]
  PROVE  /\ PastRows(order, sizes) \in SUBSET RowType
         /\ IsFiniteSet(PastRows(order, sizes))
         /\ \A r \in PastRows(order, sizes) :
              \E i \in 1..Len(order) :
                \/ r = Question(2 * i - 1, order[i])
                \/ r = Answer(2 * i, order[i], sizes[order[i]])
         /\ \A i \in 1..Len(order) :
              /\ Question(2 * i - 1, order[i]) \in PastRows(order, sizes)
              /\ Answer(2 * i, order[i], sizes[order[i]]) \in PastRows(order, sizes)
         /\ order \in Seq(Turns) /\ \A i \in 1..Len(order) : order[i] \in PastTurns
<1>1. order \in Seq(Turns) /\ \A i \in 1..Len(order) : order[i] \in PastTurns
  <2>1. Past \in Seq(Turns) /\ DOMAIN Past = 1..Len(Past)
    BY ChatSessionAssumption
  <2>2. CASE order = Past
    BY <2>1, <2>2 DEF PastTurns
  <2>3. CASE order = <<>>
    BY <2>3
  <2> QED
    BY <2>2, <2>3
<1>2. \A i \in 1..Len(order) : order[i] \in Turns /\ sizes[order[i]] \in Nat
  BY <1>1, ChatSessionAssumption
<1> DEFINE Pair(i) == {Question(2 * i - 1, order[i]), Answer(2 * i, order[i], sizes[order[i]])}
           S == PastRows(order, sizes)
<1>3. S = UNION {Pair(i) : i \in 1..Len(order)}
  <2>1. DOMAIN order = 1..Len(order)
    BY <1>1
  <2> QED
    BY <2>1, Zenon DEF PastRows
<1>4. \A r \in S : \E i \in 1..Len(order) :
        \/ r = Question(2 * i - 1, order[i])
        \/ r = Answer(2 * i, order[i], sizes[order[i]])
  BY <1>3
<1>5. \A i \in 1..Len(order) : Question(2 * i - 1, order[i]) \in S
                               /\ Answer(2 * i, order[i], sizes[order[i]]) \in S
  BY <1>3
<1>6. \A i \in 1..Len(order) : Question(2 * i - 1, order[i]) \in RowType
                               /\ Answer(2 * i, order[i], sizes[order[i]]) \in RowType
  BY <1>2, ChatSessionAssumption DEF Question, Answer, Row, RowType
<1> HIDE DEF S
<1>7. S \in SUBSET RowType
  BY <1>4, <1>6
<1>8. IsFiniteSet(S)
  <2> DEFINE Q == {Question(2 * i - 1, order[i]) : i \in 1..Len(order)}
             A == {Answer(2 * i, order[i], sizes[order[i]]) : i \in 1..Len(order)}
             q == [i \in 1..Len(order) |-> Question(2 * i - 1, order[i])]
             a == [i \in 1..Len(order) |-> Answer(2 * i, order[i], sizes[order[i]])]
  <2>1. IsFiniteSet(1..Len(order))
    BY <1>1, FS_Interval
  <2>2. q \in Surjection(1..Len(order), Q) /\ a \in Surjection(1..Len(order), A)
    BY DEF Surjection
  <2>3. IsFiniteSet(Q) /\ IsFiniteSet(A)
    BY <2>1, <2>2, FS_Surjection
  <2>4. S \subseteq Q \cup A
    BY <1>4
  <2> HIDE DEF Q, A
  <2>5. IsFiniteSet(Q \cup A)
    BY <2>3, FS_Union
  <2> QED
    BY <2>4, <2>5, FS_Subset
<1> QED
  BY <1>1, <1>4, <1>5, <1>7, <1>8 DEF S

LEMMA InitTyped == Init => TypeInv
<1> SUFFICES ASSUME Init PROVE TypeInv
  OBVIOUS
<1>1. PICK order \in {<<>>, Past}, sizes \in [PastTurns -> 0..MaxChunks] :
        rows = PastRows(order, sizes)
  BY DEF Init
<1>2. RowsTyped
  BY <1>1, PastRowsShape DEF Init, RowsTyped
<1>3. \A t \in Turns : pc[t] \in {"done", "idle"}
  BY DEF Init
<1>4. TurnsTyped
  BY <1>3 DEF Init, TurnsTyped, Places, Ended
<1>5. ContextsTyped
  BY <1>3 DEF Init, ContextsTyped, NoContext
<1>6. StreamsTyped
  BY DEF Init, StreamsTyped
<1> QED
  BY <1>2, <1>4, <1>5, <1>6 DEF Init, TypeInv, CountsTyped

(* Every variable keeps its type: a sequence is a number, a row is a row, and *)
(* the message table is finite (append_message, update_message, revert).     *)
LEMMA TypesAreKept == Spec => []TypeInv
<1>1. TypeInv /\ [Next]_vars => TypeInv'
  BY OpeningTyped, ContextTyped, AnswerTyped, RequestTyped, StutterTyped DEF Next, TurnStep
<1> QED
  BY <1>1, InitTyped, PTL DEF Spec

(* What append_message, the compaction and the stream generator write keeps *)
(* its shape: rows with the numbers and the kinds the schema allows, a      *)
(* position for every turn, answers no longer than the model streams.       *)
THEOREM TurnTypesAreCorrect == Spec => []TypeOK
  BY TypesAreKept, TypeInvImpliesTypeOK, PTL

-----------------------------------------------------------------------------
(* What a step of a turn does to the others, and to the rows. *)

OthersKept(t) ==
  \A u \in Turns \ {t} :
    /\ pc'[u] = pc[u] /\ asked'[u] = asked[u] /\ seqRead'[u] = seqRead[u]
    /\ context'[u] = context[u] /\ produced'[u] = produced[u]
    /\ sent'[u] = sent[u] /\ connected'[u] = connected[u]
    /\ (u \in created' <=> u \in created) /\ (u \in registered' <=> u \in registered)
    /\ (u \in cancelled' <=> u \in cancelled)

LEMMA EndTurnIsOwn ==
  ASSUME TypeInv, NEW t \in Turns, NEW how, EndTurn(t, how)
  PROVE  \A u \in Turns \ {t} :
           /\ pc'[u] = pc[u] /\ asked'[u] = asked[u] /\ seqRead'[u] = seqRead[u]
           /\ context'[u] = context[u] /\ produced'[u] = produced[u]
           /\ (u \in created' <=> u \in created) /\ (u \in registered' <=> u \in registered)
           /\ (u \in cancelled' <=> u \in cancelled)
  BY DEF TypeInv, TurnsTyped, ContextsTyped, EndTurn, Goto

LEMMA YieldIsOwn ==
  ASSUME TypeInv, NEW t \in Turns, NEW events, Yield(t, events)
  PROVE  \A u \in Turns \ {t} : sent'[u] = sent[u]
  BY DEF TypeInv, StreamsTyped, Yield

LEMMA TurnRaisesIsOwn ==
  ASSUME TypeInv, NEW t \in Turns, TurnRaises(t)
  PROVE  OthersKept(t) /\ UNCHANGED <<dbVars, connected, muddled, requests>>
<1>1. CASE produced[t] > 0
  BY <1>1 DEF TurnRaises, OthersKept, TypeInv, TurnsTyped, Goto, Unmoved, genVars
<1>2. CASE ~ (produced[t] > 0)
  BY <1>2, EndTurnIsOwn, YieldIsOwn DEF TurnRaises, OthersKept
<1> QED
  BY <1>1, <1>2 DEF TurnRaises

LEMMA OpeningIsOwn ==
  ASSUME TypeInv, NEW t \in Turns, OpeningStep(t)
  PROVE  OthersKept(t)
<1> USE DEF TypeInv, OthersKept
<1>1. CASE OpenSession(t)
  BY <1>1, YieldIsOwn DEF OpenSession, TurnsTyped, Goto, Unmoved, genVars
<1>2. CASE OpenFails(t) \/ AppendFails(t)
  BY <1>2, EndTurnIsOwn DEF OpenFails, AppendFails, Breaks, netVars
<1>3. CASE AppendReads(t) \/ AppendInserts(t)
  BY <1>3 DEF AppendReads, AppendInserts, TurnsTyped, Goto, genVars, netVars
<1>4. CASE TitleEnds(t) \/ Register(t)
  BY <1>4, YieldIsOwn DEF TitleEnds, Register, TurnsTyped, Goto, Unmoved, genVars
<1> QED
  BY <1>1, <1>2, <1>3, <1>4 DEF OpeningStep

LEMMA ContextIsOwn ==
  ASSUME TypeInv, NEW t \in Turns, ContextStep(t)
  PROVE  OthersKept(t)
<1> USE DEF TypeInv, OthersKept
<1>1. CASE LoadSummary(t) \/ SummaryReads(t) \/ SummaryInserts(t) \/ Reload(t) \/ StartStream(t)
  BY <1>1 DEF LoadSummary, SummaryReads, SummaryInserts, Reload, StartStream, TurnsTyped,
    ContextsTyped, Goto, Unmoved, genVars, netVars
<1>2. CASE LoadRecent(t)
  <2>1. CASE TurnRaises(t)
    BY <2>1, TurnRaisesIsOwn
  <2>2. CASE ~ TurnRaises(t)
    BY <1>2, <2>2 DEF LoadRecent, TurnsTyped, ContextsTyped, Goto, genVars, netVars
  <2> QED
    BY <2>1, <2>2
<1>3. CASE Retrieve(t)
  BY <1>3, YieldIsOwn DEF Retrieve, TurnsTyped, Goto, Unmoved, genVars
<1>4. CASE CancelledInContext(t)
  BY <1>4, YieldIsOwn, EndTurnIsOwn DEF CancelledInContext
<1> QED
  BY <1>1, <1>2, <1>3, <1>4 DEF ContextStep

LEMMA AnswerIsOwn ==
  ASSUME TypeInv, NEW t \in Turns, AnswerStep(t)
  PROVE  OthersKept(t)
<1> USE DEF TypeInv, OthersKept
<1>1. CASE Chunk(t)
  BY <1>1, YieldIsOwn DEF Chunk, TurnsTyped, Goto, genVars
<1>2. CASE StreamEnds(t)
  BY <1>2 DEF StreamEnds, TurnsTyped, Goto, Unmoved, genVars, netVars
<1>3. CASE StoreCancelled(t) \/ StoreAnswer(t)
  BY <1>3, EndTurnIsOwn, YieldIsOwn DEF StoreCancelled, StoreAnswer, StoreAndEnd
<1>4. CASE Fails(t)
  BY <1>4, TurnRaisesIsOwn DEF Fails
<1>5. CASE StoreFailed(t)
  BY <1>5, EndTurnIsOwn, YieldIsOwn DEF StoreFailed
<1>6. CASE Interrupted(t)
  <2>1. CASE EndTurn(t, "gone")
    BY <1>6, <2>1, EndTurnIsOwn DEF Interrupted, netVars
  <2>2. CASE ~ EndTurn(t, "gone")
    BY <1>6, <2>2 DEF Interrupted, TurnsTyped, Goto, Unmoved, genVars, netVars
  <2> QED
    BY <2>1, <2>2
<1>7. CASE StoreInterrupted(t)
  BY <1>7, EndTurnIsOwn DEF StoreInterrupted, netVars
<1> QED
  BY <1>1, <1>2, <1>3, <1>4, <1>5, <1>6, <1>7 DEF AnswerStep

(* A turn moves nothing of another turn. *)
LEMMA TurnIsOwn ==
  ASSUME TypeInv, NEW t \in Turns, TurnStep(t)
  PROVE  OthersKept(t)
  BY OpeningIsOwn, ContextIsOwn, AnswerIsOwn DEF TurnStep

Stores(t) ==
  /\ pc[t] \in Storing /\ pc'[t] \in Ended
  /\ rows' = Rewrite(AnswerOf(t), produced[t]) /\ UNCHANGED <<session, muddled>>

LEMMA EndTurnEnds ==
  ASSUME TypeInv, NEW t \in Turns, NEW how, EndTurn(t, how)
  PROVE  /\ pc'[t] = how /\ produced'[t] = 0 /\ seqRead'[t] = 0 /\ t \notin created'
         /\ t \notin registered' /\ t \notin cancelled'
  BY DEF TypeInv, TurnsTyped, EndTurn, Goto

(* A turn writes rows when it inserts its messages or a summary, and when it *)
(* stores its answer; else it leaves them.                                   *)
LEMMA RowsOfTurn ==
  ASSUME TypeInv, NEW t \in Turns, TurnStep(t)
  PROVE  \/ AppendInserts(t) \/ SummaryInserts(t) \/ Stores(t)
         \/ rows' = rows /\ muddled' = muddled /\ (session' = session \/ OpenSession(t))
<1>1. CASE OpeningStep(t)
  BY <1>1 DEF OpeningStep, OpenSession, OpenFails, AppendFails, Breaks, AppendReads, TitleEnds,
    Register, dbVars
<1>2. CASE ContextStep(t)
  BY <1>2 DEF ContextStep, LoadSummary, LoadRecent, TurnRaises, SummaryReads, Reload, Retrieve,
    CancelledInContext, StartStream, dbVars
<1>3. CASE AnswerStep(t)
  <2>1. CASE Chunk(t) \/ StreamEnds(t) \/ Fails(t) \/ Interrupted(t)
    BY <2>1 DEF Chunk, StreamEnds, Fails, TurnRaises, Interrupted, dbVars
  <2>2. CASE StoreCancelled(t) \/ StoreAnswer(t)
    BY <2>2, EndTurnEnds DEF StoreCancelled, StoreAnswer, StoreAndEnd, Stores, Storing, Ended
  <2>3. CASE StoreFailed(t) \/ StoreInterrupted(t)
    BY <2>3, EndTurnEnds DEF StoreFailed, StoreInterrupted, StorePartial, Stores, Storing, Ended
  <2> QED
    BY <1>3, <2>1, <2>2, <2>3 DEF AnswerStep
<1> QED
  BY <1>1, <1>2, <1>3 DEF TurnStep

(* Rewriting answers leaves sequence, turn, kind and facts of every row, and *)
(* rows that are not rewritten as they are.                                  *)
SameRow(q, r) ==
  q.seq = r.seq /\ q.turn = r.turn /\ q.kind = r.kind /\ q.tail = r.tail /\ q.covers = r.covers

LEMMA RewriteKeeps ==
  ASSUME RowsTyped, NEW S \in SUBSET rows, NEW size \in Nat
  PROVE  /\ \A q \in Rewrite(S, size) : \E r \in rows :
              /\ SameRow(q, r)
              /\ IF r \in S THEN q = [r EXCEPT !.size = size] /\ q.size = size ELSE q = r
         /\ \A r \in rows : \E q \in Rewrite(S, size) :
              SameRow(q, r) /\ (r \notin S => q = r)
<1>1. \A r \in S : SameRow([r EXCEPT !.size = size], r) /\ [r EXCEPT !.size = size].size = size
  BY DEF SameRow, RowsTyped, RowType
<1>2. \A r \in rows : SameRow(r, r)
  BY DEF SameRow
<1> QED
  BY <1>1, <1>2 DEF Rewrite

-----------------------------------------------------------------------------
(* The session.  One turn may create it, and nobody holds reads before it is *)
(* there; once it is deleted it stays so, without rows.                      *)

HoldingPlaces == {"append", "title", "register"} \cup Generating

SessionInv ==
  /\ session # "present" => rows = {}
  /\ \A t, u \in created : t = u
  /\ \A t \in created : pc[t] # "idle" /\ (pc[t] = "open" => session = "none")
  /\ session = "none" => \A t \in Turns : pc[t] \notin {"ready"} \cup HoldingPlaces

(* Where a turn's step leads. *)
LEMMA PlaceMoves ==
  ASSUME TypeInv, NEW t \in Turns, TurnStep(t)
  PROVE  /\ created' \subseteq created
         /\ pc[t] \in Running
         /\ pc'[t] \notin {"idle", "open"}
         /\ pc'[t] = "ready" <=> OpenSession(t)
         /\ pc'[t] = "append" => AppendReads(t)
         /\ pc'[t] \in HoldingPlaces => pc'[t] = "append" \/ pc[t] \in HoldingPlaces
         /\ pc'[t] \in Ended \/ (pc[t] = "open" => OpenSession(t))
<1> USE DEF TypeInv
<1>1. CASE OpenSession(t)
  BY <1>1 DEF OpenSession, TurnsTyped, Goto, Unmoved, HoldingPlaces, Generating, Storing, Running, Opening
<1>2. CASE OpenFails(t) \/ AppendFails(t)
  BY <1>2 DEF OpenFails, AppendFails, Breaks, EndTurn, TurnsTyped, Goto, HoldingPlaces, Generating,
    Running, Opening, Ended, OpenSession
<1>3. CASE AppendReads(t) \/ AppendInserts(t) \/ TitleEnds(t) \/ Register(t)
  BY <1>3 DEF AppendReads, AppendInserts, TitleEnds, Register, TurnsTyped, Goto, Unmoved,
    HoldingPlaces, Generating, Storing, Running, Opening, OpenSession
<1>4. CASE TurnRaises(t) /\ pc[t] \in Generating
  BY <1>4 DEF TurnRaises, EndTurn, TurnsTyped, Goto, Unmoved, HoldingPlaces, Generating, Storing, Running,
    Opening, Ended, OpenSession
<1>5. CASE ContextStep(t) /\ ~ TurnRaises(t)
  BY <1>5 DEF ContextStep, LoadSummary, LoadRecent, SummaryReads, SummaryInserts, Reload, Retrieve,
    CancelledInContext, StartStream, AfterContext, EndTurn, TurnsTyped, Goto, Unmoved, HoldingPlaces,
    Generating, Storing, Running, Opening, Ended, OpenSession
<1>6. CASE Chunk(t) \/ StreamEnds(t)
  BY <1>6 DEF Chunk, StreamEnds, TurnsTyped, Goto, Unmoved, HoldingPlaces, Generating, Storing, Running,
    Opening, OpenSession
<1>7. CASE StoreCancelled(t) \/ StoreAnswer(t) \/ StoreFailed(t) \/ StoreInterrupted(t)
  <2>1. pc[t] \in Storing /\ \E how \in Ended : EndTurn(t, how)
    BY <1>7 DEF StoreCancelled, StoreAnswer, StoreAndEnd, StoreFailed, StoreInterrupted, Storing, Ended
  <2>2. pc'[t] \in Ended /\ created' \subseteq created
    BY <2>1 DEF EndTurn, TurnsTyped, Goto
  <2>3. pc'[t] # "ready" /\ ~ OpenSession(t)
    BY <2>1, <2>2 DEF Ended, Storing, OpenSession
  <2>4. pc'[t] \notin {"idle", "open", "append"} /\ pc'[t] \notin HoldingPlaces
    BY <2>2 DEF HoldingPlaces, Generating, Ended
  <2>5. pc[t] \in Running
    BY <2>1 DEF Running, Generating, Storing
  <2> QED
    BY <2>2, <2>3, <2>4, <2>5, Zenon
<1>8. CASE Interrupted(t)
  BY <1>8 DEF Interrupted, EndTurn, TurnsTyped, Goto, Unmoved, HoldingPlaces, Generating, Storing, Running,
    Opening, Ended, OpenSession
<1>9. ContextStep(t) \/ Fails(t) => pc[t] \in Generating
  BY DEF ContextStep, LoadSummary, LoadRecent, SummaryReads, SummaryInserts, Reload, Retrieve,
    CancelledInContext, StartStream, Fails, Generating
<1>10. Fails(t) => TurnRaises(t)
  BY DEF Fails
<1> QED
  BY <1>1, <1>2, <1>3, <1>4, <1>5, <1>6, <1>7, <1>8, <1>9, <1>10
  DEF TurnStep, OpeningStep, AnswerStep

(* What a step outside the turns does to the turns: some end, one starts. *)
LEMMA RequestMoves ==
  ASSUME TypeInv, RequestStep
  PROVE  /\ \A t \in Turns : pc'[t] = pc[t] \/ (pc[t] \in Running /\ pc'[t] = "gone")
                             \/ (pc[t] = "idle" /\ pc'[t] = "open" /\ t \notin PastTurns)
         /\ session' = session \/ (session = "present" /\ session' = "deleted")
         /\ rows' \subseteq rows
<1> USE DEF TypeInv
<1>1. ASSUME NEW t \in Turns, NEW new \in BOOLEAN, Request(t, new)
      PROVE  /\ \A u \in Turns : pc'[u] = pc[u]
                                 \/ (pc[u] = "idle" /\ pc'[u] = "open" /\ u \notin PastTurns)
             /\ session' = session /\ rows' = rows
  BY <1>1 DEF Request, TurnsTyped, Goto, dbVars
<1>2. ASSUME NEW t \in Turns, Cancel(t) \/ ClientLeaves(t)
      PROVE  pc' = pc /\ session' = session /\ rows' = rows
  BY <1>2 DEF Cancel, ClientLeaves, turnVars, dbVars
<1>3. ASSUME NEW r \in rows, Revert(r)
      PROVE  pc' = pc /\ session' = session /\ rows' \subseteq rows
  BY <1>3 DEF Revert, turnVars
<1>4. CASE DeleteSession
  BY <1>4 DEF DeleteSession, turnVars
<1>5. CASE Restart
  BY <1>5 DEF Restart, dbVars
<1> QED
  BY <1>1, <1>2, <1>3, <1>4, <1>5 DEF RequestStep

LEMMA InitSession == Init => SessionInv
  BY DEF Init, SessionInv, HoldingPlaces, Generating

LEMMA SessionKept == TypeInv /\ SessionInv /\ [Next]_vars => SessionInv'
<1> SUFFICES ASSUME TypeInv, SessionInv, [Next]_vars PROVE SessionInv'
  OBVIOUS
<1>1. ASSUME NEW t \in Turns, TurnStep(t) PROVE SessionInv'
  <2> USE DEF SessionInv
  <2>1. OthersKept(t)
    BY <1>1, TurnIsOwn
  <2>2. created' \subseteq created /\ pc'[t] \notin {"idle", "open"} /\ pc[t] \in Running
    BY <1>1, PlaceMoves
  <2>6. \A u \in created' : u \in created /\ u \in Turns /\ pc'[u] # "idle"
    BY <2>1, <2>2 DEF OthersKept, TypeInv, TurnsTyped
  <2>3. CASE OpenSession(t)
    <3>1. session' = "present" /\ rows' = rows /\ pc[t] = "open" /\ created' = created
          /\ (t \in created \/ session = "present")
      BY <2>3 DEF OpenSession, Unmoved
    <3>2. ASSUME NEW u \in created, pc'[u] = "open" PROVE FALSE
      <4>1. u # t /\ u \in Turns
        BY <2>2, <3>2 DEF TypeInv, TurnsTyped
      <4>2. pc[u] = "open" /\ session = "none"
        BY <2>1, <3>2, <4>1 DEF OthersKept
      <4> QED
        BY <3>1, <4>1, <4>2
    <3> QED
      BY <2>6, <3>1, <3>2
  <2>4. CASE ~ OpenSession(t)
    <3>1. CASE session' = session /\ rows' = rows
      <4>1. \A u \in created' : pc'[u] = "open" => session' = "none"
        BY <2>1, <2>2, <3>1 DEF OthersKept, TypeInv, TurnsTyped
      <4>2. session' = "none" => pc'[t] \notin {"ready"} \cup HoldingPlaces
        <5>1. pc'[t] # "ready"
          BY <1>1, <2>4, PlaceMoves
        <5>2. pc'[t] = "append" => pc[t] = "ready"
          BY <1>1, PlaceMoves DEF AppendReads
        <5>3. pc'[t] \in HoldingPlaces => pc'[t] = "append" \/ pc[t] \in HoldingPlaces
          BY <1>1, PlaceMoves
        <5> QED
          BY <3>1, <5>1, <5>2, <5>3
      <4>3. session' = "none" => \A u \in Turns : pc'[u] \notin {"ready"} \cup HoldingPlaces
        BY <2>1, <3>1, <4>2 DEF OthersKept
      <4> QED
        BY <2>6, <3>1, <4>1, <4>3
    <3>2. CASE AppendInserts(t) \/ SummaryInserts(t)
      <4>1. session = "present" /\ session' = session
        BY <3>2 DEF AppendInserts, SummaryInserts, Insertable
      <4> QED
        BY <2>1, <2>2, <2>6, <4>1 DEF OthersKept
    <3>3. CASE Stores(t)
      <4>1. session' = session /\ (rows = {} => rows' = {})
        BY <3>3 DEF Stores, Rewrite, AnswerOf
      <4>2. pc[t] \in HoldingPlaces
        BY <3>3 DEF Stores, Storing, HoldingPlaces, Generating
      <4> QED
        BY <2>1, <2>2, <2>6, <4>1, <4>2 DEF OthersKept
    <3> QED
      BY <1>1, <2>4, <3>1, <3>2, <3>3, RowsOfTurn
  <2> QED
    BY <2>3, <2>4
<1>2. CASE RequestStep
  <2>1. ASSUME NEW t \in Turns, NEW new \in BOOLEAN, Request(t, new) PROVE SessionInv'
    <3>1. /\ session' = session /\ rows' = rows /\ pc' = [pc EXCEPT ![t] = "open"]
          /\ new = (session = "none") /\ (new => created = {})
          /\ created' = IF new THEN created \cup {t} ELSE created
          /\ pc[t] = "idle"
      BY <2>1 DEF Request, Goto, dbVars
    <3>2. pc \in [Turns -> Places] /\ created \in SUBSET Turns
      BY DEF TypeInv, TurnsTyped
    <3>3. CASE new
      BY <3>1, <3>2, <3>3, ZenonT(30) DEF SessionInv, HoldingPlaces, Generating
    <3>4. CASE ~ new
      <4>1. session # "none"
        BY <3>1, <3>4
      <4>2. \A u \in created : u # t => pc'[u] = pc[u]
        BY <3>1, <3>2
      <4>3. t \notin created
        BY <3>1 DEF SessionInv
      <4> QED
        BY <3>1, <3>2, <3>4, <4>1, <4>2 DEF SessionInv, HoldingPlaces, Generating
    <3> QED
      BY <3>3, <3>4
  <2>2. ASSUME NEW t \in Turns, Cancel(t) \/ ClientLeaves(t) PROVE SessionInv'
    BY <2>2 DEF Cancel, ClientLeaves, SessionInv, turnVars, dbVars
  <2>3. ASSUME NEW r \in rows, Revert(r) PROVE SessionInv'
    BY <2>3 DEF Revert, SessionInv, turnVars
  <2>4. CASE DeleteSession
    BY <2>4 DEF DeleteSession, SessionInv, turnVars
  <2>5. CASE Restart
    <3>1. created' = {} /\ session' = session /\ rows' = rows
          /\ \A t \in Turns : pc'[t] = pc[t] \/ pc'[t] = "gone"
      BY <2>5 DEF Restart, dbVars
    <3> QED
      BY <3>1 DEF SessionInv, HoldingPlaces, Generating
  <2> QED
    BY <1>2, <2>1, <2>2, <2>3, <2>4, <2>5 DEF RequestStep
<1>3. CASE UNCHANGED vars
  BY <1>3 DEF SessionInv, vars
<1> QED
  BY <1>1, <1>2, <1>3 DEF Next

-----------------------------------------------------------------------------
(* The timeline.  While no revert met a running turn, the sequences are 1 to *)
(* the greatest one, a question's answer comes next, and a sequence that was *)
(* read is at most the next one: it can be inserted only as the next one.    *)

UniqueSeqs == \A q, r \in rows : q.seq = r.seq => q = r

Contiguous == \A k \in 1..(NextSequence - 1) : \E r \in rows : r.seq = k

QuestionsAnswered ==
  \A q \in rows : q.kind = "user" =>
    \E r \in rows : r.turn = q.turn /\ r.kind = "assistant" /\ r.seq = q.seq + 1

ReadsAreBehind ==
  \A t \in Turns : pc[t] \in {"append", "insert"} /\ session = "present" => seqRead[t] <= NextSequence

TimelineInv ==
  /\ UniqueSeqs
  /\ "revert" \notin muddled => Contiguous /\ QuestionsAnswered /\ ReadsAreBehind

StepTypes == TypeInv /\ TypeInv' /\ SessionInv /\ SessionInv'

LEMMA InsertsNext ==
  ASSUME TypeInv, TimelineInv, NEW t \in Turns, pc[t] \in {"append", "insert"}, Insertable(t),
         "revert" \notin muddled
  PROVE  seqRead[t] = NextSequence
<1>1. seqRead[t] \in Nat \ {0} /\ seqRead[t] <= NextSequence /\ NextSequence \in Nat \ {0}
  BY NextIsAbove DEF TypeInv, TurnsTyped, TimelineInv, ReadsAreBehind, Insertable
<1>2. ~ (seqRead[t] \in 1..(NextSequence - 1))
  BY DEF TimelineInv, Contiguous, Insertable
<1> QED
  BY <1>1, <1>2

(* What the insertion of a turn's messages writes. *)
LEMMA MessagesInserted ==
  ASSUME TypeInv, NEW t \in Turns, AppendInserts(t)
  PROVE  \E last \in Nat :
           /\ rows' = rows \cup {Question(seqRead[t], t), Answer(last + 1, t, 0)}
           /\ seqRead[t] \in Nat \ {0} /\ seqRead[t] <= last
           /\ \A r \in rows : r.seq \in Nat \ {0} /\ r.seq <= last
           /\ last = seqRead[t] \/ \E r \in rows : r.seq = last
           /\ Question(seqRead[t], t) \in RowType /\ Answer(last + 1, t, 0) \in RowType
<1> DEFINE question == Question(seqRead[t], t)
           last == Max({r.seq : r \in rows \cup {question}})
<1>1. seqRead[t] \in Nat \ {0}
  BY DEF AppendInserts, TypeInv, TurnsTyped
<1>2. rows' = rows \cup {question, Answer(last + 1, t, 0)}
  BY DEF AppendInserts
<1>3. /\ question \in RowType /\ last \in Nat
      /\ \A r \in rows \cup {question} : r.seq <= last
      /\ \E r \in rows \cup {question} : r.seq = last
  BY <1>1, NewMessagesTyped DEF TypeInv
<1>4. question.seq = seqRead[t]
  BY DEF Question, Row
<1> HIDE DEF last
<1>5. Answer(last + 1, t, 0) \in RowType
  BY <1>3 DEF Answer, Row, RowType
<1>6. \A r \in rows : r.seq \in Nat \ {0}
  BY DEF TypeInv, RowsTyped, RowType
<1> HIDE DEF question
<1>7. last = seqRead[t] \/ \E r \in rows : r.seq = last
  BY <1>3, <1>4
<1> QED
  BY <1>1, <1>2, <1>3, <1>4, <1>5, <1>6, <1>7 DEF question

LEMMA AppendKeepsTimeline ==
  ASSUME StepTypes, TimelineInv, NEW t \in Turns, AppendInserts(t)
  PROVE  TimelineInv'
<1> USE DEF StepTypes
<1> DEFINE n == seqRead[t]
           q == Question(n, t)
<1>1. PICK last \in Nat :
        /\ rows' = rows \cup {q, Answer(last + 1, t, 0)}
        /\ n \in Nat \ {0} /\ n <= last
        /\ \A r \in rows : r.seq \in Nat \ {0} /\ r.seq <= last
        /\ last = n \/ \E r \in rows : r.seq = last
  BY MessagesInserted
<1> DEFINE a == Answer(last + 1, t, 0)
<1>2. /\ q.seq = n /\ q.kind = "user" /\ q.turn = t
      /\ a.seq = last + 1 /\ a.kind = "assistant" /\ a.turn = t
  BY DEF Question, Answer, Row
<1>3. pc[t] = "append" /\ Insertable(t)
  BY DEF AppendInserts
<1>4. \A r \in rows : r.seq # n
  BY <1>3 DEF Insertable
<1> HIDE DEF n, q, a
<1>5. UniqueSeqs'
  <2>1. n # last + 1 /\ \A r \in rows : r.seq # last + 1
    BY <1>1
  <2> QED
    BY <1>1, <1>2, <1>4, <2>1 DEF UniqueSeqs, TimelineInv, a
<1>6. ASSUME "revert" \notin muddled'
      PROVE  Contiguous' /\ QuestionsAnswered' /\ ReadsAreBehind'
  <2>1. "revert" \notin muddled
    BY <1>6 DEF AppendInserts
  <2>2. n = NextSequence /\ NextSequence \in Nat \ {0} /\ \A r \in rows : r.seq < NextSequence
    BY <1>3, <2>1, InsertsNext, NextIsAbove DEF n, TypeInv
  <2>3. last = n
    <3>1. \A r \in rows : r.seq # last \/ last < n
      BY <2>2
    <3> QED
      BY <1>1, <3>1
  <2>4. NextSequence' = n + 2
    <3>1. /\ NextSequence' \in Nat \ {0} /\ \A r \in rows' : r.seq < NextSequence'
          /\ NextSequence' = 1 \/ \E r \in rows' : NextSequence' = 1 + r.seq
      BY NextIsAboveAfter DEF TypeInv
    <3>2. a \in rows' /\ q \in rows' /\ \A r \in rows' : r \in rows \/ r = q \/ r = a
      BY <1>1 DEF a
    <3>3. n + 1 < NextSequence'
      BY <1>2, <2>3, <3>1, <3>2
    <3>4. \A r \in rows' : r.seq \in Nat /\ r.seq <= n + 1
      BY <1>1, <1>2, <2>3, <3>2
    <3> QED
      BY <1>1, <3>1, <3>3, <3>4
  <2>5. Contiguous'
    <3> SUFFICES ASSUME NEW k \in 1..(NextSequence' - 1) PROVE \E r \in rows' : r.seq = k
      BY DEF Contiguous
    <3>1. k = n + 1 \/ k = n \/ k \in 1..(NextSequence - 1)
      BY <1>1, <2>2, <2>4
    <3>2. CASE k \in 1..(NextSequence - 1)
      <4>1. \E r \in rows : r.seq = k
        BY <2>1, <3>2 DEF TimelineInv, Contiguous
      <4> QED
        BY <1>1, <4>1
    <3> QED
      BY <1>1, <1>2, <2>3, <3>1, <3>2 DEF a
  <2>6. QuestionsAnswered'
    <3> SUFFICES ASSUME NEW x \in rows', x.kind = "user"
                 PROVE \E r \in rows' : r.turn = x.turn /\ r.kind = "assistant" /\ r.seq = x.seq + 1
      BY DEF QuestionsAnswered
    <3>1. x \in rows \/ x = q
      BY <1>1, <1>2 DEF a
    <3>2. CASE x \in rows
      BY <1>1, <2>1, <3>2 DEF TimelineInv, QuestionsAnswered
    <3>3. CASE x = q
      BY <1>1, <1>2, <2>3, <3>3 DEF a
    <3> QED
      BY <3>1, <3>2, <3>3
  <2>7. ReadsAreBehind'
    <3> SUFFICES ASSUME NEW u \in Turns, pc'[u] \in {"append", "insert"}, session' = "present"
                 PROVE seqRead'[u] <= NextSequence'
      BY DEF ReadsAreBehind
    <3>1. pc'[t] \in {"title", "register"}
      BY DEF AppendInserts, Goto, TypeInv, TurnsTyped
    <3>2. OthersKept(t)
      BY TurnIsOwn DEF TurnStep, OpeningStep
    <3>3. u # t /\ pc'[u] = pc[u] /\ seqRead'[u] = seqRead[u] /\ session = "present"
      BY <1>3, <3>1, <3>2 DEF OthersKept, Insertable
    <3>4. seqRead[u] <= NextSequence /\ seqRead[u] \in Nat
      BY <2>1, <3>3 DEF TimelineInv, ReadsAreBehind, TypeInv, TurnsTyped
    <3> QED
      BY <1>1, <2>2, <2>4, <3>3, <3>4
  <2> QED
    BY <2>5, <2>6, <2>7
<1> QED
  BY <1>5, <1>6 DEF TimelineInv

LEMMA SummaryKeepsTimeline ==
  ASSUME StepTypes, TimelineInv, NEW t \in Turns, SummaryInserts(t)
  PROVE  TimelineInv'
<1> USE DEF StepTypes
<1> DEFINE n == seqRead[t]
           s == NewSummary(t)
<1>1. pc[t] = "insert" /\ Insertable(t) /\ rows' = rows \cup {s} /\ session' = session
      /\ muddled' = muddled
  BY DEF SummaryInserts
<1>2. n \in Nat \ {0} /\ s.seq = n /\ s.kind = "summary"
  BY <1>1, NewSummaryTyped DEF TypeInv, TurnsTyped
<1>3. \A r \in rows : r.seq # n
  BY <1>1 DEF Insertable
<1> HIDE DEF n, s
<1>4. UniqueSeqs'
  BY <1>1, <1>2, <1>3 DEF UniqueSeqs, TimelineInv
<1>5. ASSUME "revert" \notin muddled'
      PROVE  Contiguous' /\ QuestionsAnswered' /\ ReadsAreBehind'
  <2>1. n = NextSequence /\ NextSequence \in Nat \ {0} /\ \A r \in rows : r.seq < NextSequence
    BY <1>1, <1>5, InsertsNext, NextIsAbove DEF n, TypeInv
  <2>2. NextSequence' = n + 1
    <3>1. /\ NextSequence' \in Nat \ {0} /\ \A r \in rows' : r.seq < NextSequence'
          /\ NextSequence' = 1 \/ \E r \in rows' : NextSequence' = 1 + r.seq
          /\ \A r \in rows' : r.seq \in Nat
      BY NextIsAboveAfter DEF TypeInv
    <3>2. n < NextSequence' /\ \A r \in rows' : r.seq <= n
      BY <1>1, <1>2, <2>1, <3>1
    <3> QED
      BY <1>2, <3>1, <3>2
  <2>3. Contiguous'
    <3> SUFFICES ASSUME NEW k \in 1..(NextSequence' - 1) PROVE \E r \in rows' : r.seq = k
      BY DEF Contiguous
    <3>1. k = n \/ k \in 1..(NextSequence - 1)
      BY <1>2, <2>1, <2>2
    <3>2. CASE k \in 1..(NextSequence - 1)
      BY <1>1, <1>5, <3>2 DEF TimelineInv, Contiguous
    <3> QED
      BY <1>1, <1>2, <3>1, <3>2
  <2>4. QuestionsAnswered'
    <3>1. \A x \in rows' : x.kind = "user" => x \in rows
      BY <1>1, <1>2
    <3> QED
      BY <1>1, <1>5, <3>1 DEF TimelineInv, QuestionsAnswered
  <2>5. ReadsAreBehind'
    <3> SUFFICES ASSUME NEW u \in Turns, pc'[u] \in {"append", "insert"}, session' = "present"
                 PROVE seqRead'[u] <= NextSequence'
      BY DEF ReadsAreBehind
    <3>1. pc'[t] = "reload"
      BY DEF SummaryInserts, Goto, TypeInv, TurnsTyped
    <3>2. OthersKept(t)
      BY TurnIsOwn DEF TurnStep, ContextStep
    <3>3. u # t /\ pc'[u] = pc[u] /\ seqRead'[u] = seqRead[u] /\ session = "present"
      BY <1>1, <3>1, <3>2 DEF OthersKept
    <3>4. seqRead[u] <= NextSequence /\ seqRead[u] \in Nat
      BY <1>1, <1>5, <3>3 DEF TimelineInv, ReadsAreBehind, TypeInv, TurnsTyped
    <3> QED
      BY <1>2, <2>1, <2>2, <3>3, <3>4
  <2> QED
    BY <2>3, <2>4, <2>5
<1> QED
  BY <1>4, <1>5 DEF TimelineInv

(* Rows that keep their sequences keep the next one. *)
LEMMA SameSeqsSameNext ==
  ASSUME RowsTyped, RowsTyped', \A q \in rows' : \E r \in rows : q.seq = r.seq,
         \A r \in rows : \E q \in rows' : q.seq = r.seq
  PROVE  NextSequence' = NextSequence
<1>1. {r.seq : r \in rows'} = {r.seq : r \in rows}
  OBVIOUS
<1> QED
  BY <1>1 DEF NextSequence

LEMMA StoreKeepsTimeline ==
  ASSUME StepTypes, TimelineInv, NEW t \in Turns, TurnStep(t), Stores(t)
  PROVE  TimelineInv'
<1> USE DEF StepTypes
<1> DEFINE S == AnswerOf(t)
<1>1. /\ S \in SUBSET rows /\ produced[t] \in Nat /\ RowsTyped
      /\ rows' = Rewrite(S, produced[t]) /\ session' = session /\ muddled' = muddled
      /\ pc'[t] \in Ended
  BY DEF TypeInv, TurnsTyped, AnswerOf, Stores
<1> HIDE DEF S
<1>2. /\ \A q \in rows' : \E r \in rows : SameRow(q, r)
         /\ IF r \in S THEN q = [r EXCEPT !.size = produced[t]] ELSE q = r
      /\ \A r \in rows : \E q \in rows' : SameRow(q, r)
  BY <1>1, RewriteKeeps DEF SameRow
<1>3. UniqueSeqs'
  <2> SUFFICES ASSUME NEW q1 \in rows', NEW q2 \in rows', q1.seq = q2.seq PROVE q1 = q2
    BY DEF UniqueSeqs
  <2>1. PICK r1 \in rows : SameRow(q1, r1)
           /\ IF r1 \in S THEN q1 = [r1 EXCEPT !.size = produced[t]] ELSE q1 = r1
    BY <1>2
  <2>2. PICK r2 \in rows : SameRow(q2, r2)
           /\ IF r2 \in S THEN q2 = [r2 EXCEPT !.size = produced[t]] ELSE q2 = r2
    BY <1>2
  <2>3. r1 = r2
    BY <2>1, <2>2 DEF TimelineInv, UniqueSeqs, SameRow
  <2> QED
    BY <2>1, <2>2, <2>3
<1>4. NextSequence' = NextSequence
  BY <1>2, SameSeqsSameNext DEF SameRow, TypeInv
<1>5. ASSUME "revert" \notin muddled'
      PROVE  Contiguous' /\ QuestionsAnswered' /\ ReadsAreBehind'
  <2>1. Contiguous'
    BY <1>1, <1>2, <1>4, <1>5 DEF TimelineInv, Contiguous, SameRow
  <2>2. QuestionsAnswered'
    <3> SUFFICES ASSUME NEW x \in rows', x.kind = "user"
                 PROVE \E r \in rows' : r.turn = x.turn /\ r.kind = "assistant" /\ r.seq = x.seq + 1
      BY DEF QuestionsAnswered
    <3>1. PICK y \in rows : SameRow(x, y)
      BY <1>2
    <3>2. PICK z \in rows : z.turn = y.turn /\ z.kind = "assistant" /\ z.seq = y.seq + 1
      BY <1>1, <1>5, <3>1 DEF TimelineInv, QuestionsAnswered, SameRow
    <3>3. PICK r \in rows' : SameRow(r, z)
      BY <1>2
    <3> QED
      BY <3>1, <3>2, <3>3 DEF SameRow
  <2>3. ReadsAreBehind'
    <3>1. OthersKept(t)
      BY TurnIsOwn
    <3>2. pc'[t] \notin {"append", "insert"}
      BY <1>1 DEF Ended
    <3> QED
      BY <1>1, <1>4, <1>5, <3>1, <3>2 DEF TimelineInv, ReadsAreBehind, OthersKept
  <2> QED
    BY <2>1, <2>2, <2>3
<1> QED
  BY <1>3, <1>5 DEF TimelineInv

(* A turn that writes no rows: the sequence it may read is the next one.     *)
LEMMA ReadKeepsTimeline ==
  ASSUME StepTypes, TimelineInv, NEW t \in Turns, TurnStep(t),
         rows' = rows, muddled' = muddled, session' = session \/ OpenSession(t)
  PROVE  TimelineInv'
<1> USE DEF StepTypes
<1>1. UniqueSeqs' /\ NextSequence' = NextSequence
  BY DEF TimelineInv, UniqueSeqs, NextSequence
<1>2. ASSUME "revert" \notin muddled'
      PROVE  Contiguous' /\ QuestionsAnswered' /\ ReadsAreBehind'
  <2>1. Contiguous' /\ QuestionsAnswered'
    BY <1>1, <1>2 DEF TimelineInv, Contiguous, QuestionsAnswered
  <2>2. ASSUME NEW u \in Turns, pc'[u] \in {"append", "insert"}, session' = "present"
        PROVE  seqRead'[u] <= NextSequence'
    <3>1. CASE u = t
      <4>1. pc'[t] = "append" => AppendReads(t)
        BY PlaceMoves
      <4>2. pc'[t] = "insert" => SummaryReads(t)
        <5>1. CASE TurnRaises(t)
          BY <5>1 DEF TurnRaises, EndTurn, Goto, TypeInv, TurnsTyped
        <5>2. CASE ~ TurnRaises(t)
          <6>1. CASE OpeningStep(t)
            BY <6>1 DEF OpeningStep, OpenSession, OpenFails, AppendFails, Breaks, EndTurn,
              AppendReads, AppendInserts, TitleEnds, Register, Goto, TypeInv, TurnsTyped
          <6>2. CASE ContextStep(t)
            BY <5>2, <6>2 DEF ContextStep, LoadSummary, LoadRecent, SummaryReads, SummaryInserts,
              Reload, Retrieve, CancelledInContext, StartStream, AfterContext, EndTurn, Goto, TypeInv,
              TurnsTyped
          <6>3. CASE AnswerStep(t)
            BY <5>2, <6>3 DEF AnswerStep, Chunk, StreamEnds, StoreCancelled, StoreAnswer, StoreAndEnd,
              Fails, StoreFailed, Interrupted, StoreInterrupted, EndTurn, Goto, TypeInv, TurnsTyped
          <6> QED
            BY <6>1, <6>2, <6>3 DEF TurnStep
        <5> QED
          BY <5>1, <5>2
      <4>3. seqRead'[t] = NextSequence
        BY <2>2, <3>1, <4>1, <4>2 DEF AppendReads, SummaryReads, TypeInv, TurnsTyped
      <4> QED
        BY <1>1, <3>1, <4>3, NextIsAbove DEF TypeInv
    <3>2. CASE u # t
      <4>1. pc'[u] = pc[u] /\ seqRead'[u] = seqRead[u]
        BY <3>2, TurnIsOwn DEF OthersKept
      <4>2. pc[u] \in HoldingPlaces
        BY <2>2, <4>1 DEF HoldingPlaces, Generating
      <4>3. session # "none" /\ (OpenSession(t) => session # "deleted")
        <5>1. OpenSession(t) /\ session = "deleted" => FALSE
          <6> SUFFICES ASSUME OpenSession(t), session = "deleted" PROVE FALSE
            OBVIOUS
          <6> QED
            BY DEF OpenSession, SessionInv
        <5> QED
          BY <4>2, <5>1 DEF SessionInv
      <4>4. session = "present"
        BY <2>2, <4>3 DEF TypeInv, RowsTyped
      <4> QED
        BY <1>1, <1>2, <2>2, <4>1, <4>4 DEF TimelineInv, ReadsAreBehind
    <3> QED
      BY <3>1, <3>2
  <2> QED
    BY <2>1, <2>2 DEF ReadsAreBehind
<1> QED
  BY <1>1, <1>2 DEF TimelineInv

(* A revert cuts the timeline behind a question: unless it is marked, no      *)
(* turn was about to insert.                                                 *)
LEMMA RevertKeepsTimeline ==
  ASSUME StepTypes, TimelineInv, NEW x \in rows, Revert(x)
  PROVE  TimelineInv'
<1> USE DEF StepTypes
<1>1. /\ rows' = {q \in rows : q.seq < x.seq} /\ x.kind = "user" /\ session' = session
      /\ pc' = pc /\ seqRead' = seqRead
      /\ "revert" \notin muddled' => "revert" \notin muddled /\ \A t \in Turns : ~ HoldsReads(t)
  BY DEF Revert, turnVars
<1>2. x.seq \in Nat \ {0} /\ \A r \in rows : r.seq \in Nat \ {0}
  BY NextIsAbove DEF TypeInv
<1>3. UniqueSeqs'
  BY <1>1 DEF TimelineInv, UniqueSeqs
<1>4. ASSUME "revert" \notin muddled'
      PROVE  Contiguous' /\ QuestionsAnswered' /\ ReadsAreBehind'
  <2>1. Contiguous /\ QuestionsAnswered
    BY <1>1, <1>4 DEF TimelineInv
  <2>2. /\ NextSequence' \in Nat \ {0} /\ \A r \in rows' : r.seq < NextSequence'
        /\ NextSequence' = 1 \/ \E r \in rows' : NextSequence' = 1 + r.seq
    BY NextIsAboveAfter DEF TypeInv
  <2>3. NextSequence' <= x.seq
    BY <1>1, <1>2, <2>2
  <2>4. NextSequence \in Nat /\ x.seq < NextSequence
    BY NextIsAbove DEF TypeInv
  <2>5. Contiguous'
    <3> SUFFICES ASSUME NEW k \in 1..(NextSequence' - 1) PROVE \E r \in rows' : r.seq = k
      BY DEF Contiguous
    <3>1. k \in 1..(NextSequence - 1) /\ k < x.seq
      <4>1. PICK m \in Nat : m = NextSequence' /\ k \in 1..(m - 1) /\ m <= x.seq
        BY <2>2, <2>3
      <4>2. PICK p \in Nat : p = NextSequence /\ x.seq < p
        BY <2>4
      <4>3. k \in 1..(p - 1) /\ k < x.seq
        <5>1. \A b, e, c \in Nat : \A j \in 1..(b - 1) :
                b <= e /\ e < c => j \in 1..(c - 1) /\ j < e
          OBVIOUS
        <5> QED
          BY <1>2, <4>1, <4>2, <5>1
      <4> QED
        BY <4>2, <4>3
    <3> QED
      BY <1>1, <2>1, <3>1 DEF Contiguous
  <2>6. QuestionsAnswered'
    <3> SUFFICES ASSUME NEW q \in rows', q.kind = "user"
                 PROVE \E r \in rows' : r.turn = q.turn /\ r.kind = "assistant" /\ r.seq = q.seq + 1
      BY DEF QuestionsAnswered
    <3>1. q \in rows /\ q.seq < x.seq
      BY <1>1
    <3>2. PICK r \in rows : r.turn = q.turn /\ r.kind = "assistant" /\ r.seq = q.seq + 1
      BY <2>1, <3>1 DEF QuestionsAnswered
    <3>3. r # x
      BY <1>1, <3>2
    <3>4. r.seq # x.seq
      BY <3>2, <3>3 DEF TimelineInv, UniqueSeqs
    <3>5. r.seq < x.seq
      BY <1>2, <3>1, <3>2, <3>4
    <3> QED
      BY <1>1, <3>2, <3>5
  <2>7. ReadsAreBehind'
    <3>1. \A t \in Turns : pc[t] \notin {"append", "insert"}
      BY <1>1, <1>4 DEF HoldsReads, Generating
    <3> QED
      BY <1>1, <3>1 DEF ReadsAreBehind
  <2> QED
    BY <2>5, <2>6, <2>7
<1> QED
  BY <1>3, <1>4 DEF TimelineInv

LEMMA RequestKeepsTimeline ==
  ASSUME StepTypes, TimelineInv, RequestStep
  PROVE  TimelineInv'
<1> USE DEF StepTypes
<1>1. ASSUME rows' = rows, muddled' = muddled, session' = session,
             \A t \in Turns : pc'[t] \in {"append", "insert"} => pc'[t] = pc[t] /\ seqRead'[t] = seqRead[t]
      PROVE  TimelineInv'
  <2>1. NextSequence' = NextSequence
    BY <1>1 DEF NextSequence
  <2> QED
    BY <1>1, <2>1 DEF TimelineInv, UniqueSeqs, Contiguous, QuestionsAnswered, ReadsAreBehind
<1>2. ASSUME NEW t \in Turns, NEW new \in BOOLEAN, Request(t, new) PROVE TimelineInv'
  <2>1. pc' = [pc EXCEPT ![t] = "open"] /\ seqRead' = seqRead
    BY <1>2 DEF Request, Goto
  <2>2. rows' = rows /\ muddled' = muddled /\ session' = session
    BY <1>2 DEF Request, dbVars
  <2> QED
    BY <1>1, <2>1, <2>2 DEF TypeInv, TurnsTyped
<1>3. ASSUME NEW t \in Turns, Cancel(t) \/ ClientLeaves(t) PROVE TimelineInv'
  BY <1>1, <1>3 DEF Cancel, ClientLeaves, dbVars, turnVars
<1>4. CASE DeleteSession
  <2>1. rows' = {} /\ session' = "deleted"
    BY <1>4 DEF DeleteSession
  <2>2. NextSequence' = 1
    BY <2>1, NextIsAboveAfter DEF TypeInv
  <2> QED
    BY <2>1, <2>2 DEF TimelineInv, UniqueSeqs, Contiguous, QuestionsAnswered, ReadsAreBehind
<1>5. CASE Restart
  <2>1. \A t \in Turns : pc'[t] = IF pc[t] \in Running THEN "gone" ELSE pc[t]
    BY <1>5 DEF Restart
  <2>2. \A t \in Turns : pc'[t] \notin {"append", "insert"}
    BY <2>1 DEF Running, Opening, Generating
  <2> QED
    BY <1>1, <1>5, <2>2 DEF Restart, dbVars
<1> QED
  BY <1>2, <1>3, <1>4, <1>5, RevertKeepsTimeline DEF RequestStep

LEMMA TimelineKept == StepTypes /\ TimelineInv /\ [Next]_vars => TimelineInv'
<1> SUFFICES ASSUME StepTypes, TimelineInv, [Next]_vars PROVE TimelineInv'
  OBVIOUS
<1>1. ASSUME NEW t \in Turns, TurnStep(t) PROVE TimelineInv'
  <2>1. TypeInv
    BY DEF StepTypes
  <2> QED
    BY <1>1, <2>1, RowsOfTurn, AppendKeepsTimeline, SummaryKeepsTimeline, StoreKeepsTimeline,
      ReadKeepsTimeline, Zenon
<1>2. CASE UNCHANGED vars
  <2>1. NextSequence' = NextSequence
    BY <1>2 DEF vars, NextSequence
  <2> QED
    BY <1>2, <2>1 DEF vars, TimelineInv, UniqueSeqs, Contiguous, QuestionsAnswered, ReadsAreBehind
<1> QED
  BY <1>1, <1>2, RequestKeepsTimeline DEF Next

LEMMA InitTimeline == Init => TimelineInv
<1> SUFFICES ASSUME Init PROVE TimelineInv
  OBVIOUS
<1>1. PICK order \in {<<>>, Past}, sizes \in [PastTurns -> 0..MaxChunks] :
        rows = PastRows(order, sizes)
  BY DEF Init
<1>2. PICK n \in Nat : n = Len(order)
  <2>1. order \in Seq(Turns)
    BY <1>1, PastRowsShape
  <2> QED
    BY <2>1
<1> DEFINE q(i) == Question(2 * i - 1, order[i])
           a(i) == Answer(2 * i, order[i], sizes[order[i]])
<1>3. /\ \A r \in rows : \E i \in 1..n : r = q(i) \/ r = a(i)
      /\ \A i \in 1..n : q(i) \in rows /\ a(i) \in rows
  BY <1>1, <1>2, PastRowsShape
<1>4. \A i \in 1..n : /\ q(i).seq = 2 * i - 1 /\ q(i).turn = order[i] /\ q(i).kind = "user"
                      /\ a(i).seq = 2 * i /\ a(i).turn = order[i] /\ a(i).kind = "assistant"
  BY DEF Question, Answer, Row
<1> HIDE DEF q, a
<1>5. UniqueSeqs
  <2> SUFFICES ASSUME NEW r \in rows, NEW s \in rows, r.seq = s.seq PROVE r = s
    BY DEF UniqueSeqs
  <2>1. PICK i \in 1..n : r = q(i) \/ r = a(i)
    BY <1>3
  <2>2. PICK j \in 1..n : s = q(j) \/ s = a(j)
    BY <1>3
  <2>3. 2 * i - 1 # 2 * j /\ 2 * i # 2 * j - 1
    OBVIOUS
  <2>4. 2 * i = 2 * j => i = j
    OBVIOUS
  <2>5. 2 * i - 1 = 2 * j - 1 => i = j
    OBVIOUS
  <2> QED
    BY <1>4, <2>1, <2>2, <2>3, <2>4, <2>5
<1>6. QuestionsAnswered
  <2> SUFFICES ASSUME NEW x \in rows, x.kind = "user"
               PROVE \E r \in rows : r.turn = x.turn /\ r.kind = "assistant" /\ r.seq = x.seq + 1
    BY DEF QuestionsAnswered
  <2>1. PICK i \in 1..n : x = q(i)
    BY <1>3, <1>4
  <2>2. a(i).seq = x.seq + 1
    BY <1>4, <2>1
  <2> QED
    BY <1>3, <1>4, <2>1, <2>2
<1>7. Contiguous
  <2>1. TypeInv
    BY InitTyped
  <2>2. /\ NextSequence \in Nat \ {0}
        /\ NextSequence = 1 \/ \E r \in rows : NextSequence = 1 + r.seq
    BY <2>1, NextIsAbove DEF TypeInv
  <2>3. NextSequence - 1 <= 2 * n
    <3>1. \A r \in rows : r.seq \in Nat /\ r.seq <= 2 * n
      BY <1>3, <1>4
    <3> QED
      BY <2>2, <3>1
  <2> SUFFICES ASSUME NEW k \in 1..(NextSequence - 1) PROVE \E r \in rows : r.seq = k
    BY DEF Contiguous
  <2>4. k \in 1..(2 * n)
    BY <2>2, <2>3
  <2>5. \E i \in 1..n : k = 2 * i - 1 \/ k = 2 * i
    <3>1. PICK i \in Nat : k = 2 * i \/ k = 2 * i - 1
      <4>1. k = 2 * (k \div 2) \/ k = 2 * (k \div 2) + 1
        BY <2>4
      <4>2. k \div 2 \in Nat /\ (k \div 2) + 1 \in Nat
        BY <2>4
      <4>3. k = 2 * (k \div 2) + 1 => k = 2 * ((k \div 2) + 1) - 1
        BY <4>2
      <4> QED
        BY <4>1, <4>2, <4>3
    <3>2. i \in 1..n
      BY <2>4, <3>1
    <3> QED
      BY <3>1, <3>2
  <2>6. PICK i \in 1..n : k = 2 * i - 1 \/ k = 2 * i
    BY <2>5
  <2>7. q(i) \in rows /\ a(i) \in rows /\ q(i).seq = 2 * i - 1 /\ a(i).seq = 2 * i
    BY <1>3, <1>4
  <2> QED
    BY <2>6, <2>7
<1>8. ReadsAreBehind
  <2>1. \A t \in Turns : pc[t] \in {"done", "idle"}
    BY DEF Init
  <2> QED
    BY <2>1 DEF ReadsAreBehind
<1> QED
  BY <1>5, <1>6, <1>7, <1>8 DEF TimelineInv

(* The invariant of the session and its timeline, whatever turns overlap.    *)
LEMMA TimelineAlways == Spec => [](TypeInv /\ SessionInv /\ TimelineInv)
<1>1. TypeInv /\ TypeInv' /\ SessionInv /\ [Next]_vars => SessionInv'
  BY SessionKept
<1>2. TypeInv /\ TypeInv' /\ SessionInv /\ SessionInv' /\ TimelineInv /\ [Next]_vars => TimelineInv'
  BY TimelineKept DEF StepTypes
<1> QED
  BY <1>1, <1>2, InitSession, InitTimeline, TypesAreKept, PTL DEF Spec

(* Every question is directly followed by its answer and the sequence of a   *)
(* session has no gap and no duplicate, for any number of overlapping turns  *)
(* and failures: append_message reads the sequence before the write          *)
(* transaction, and what it read can be inserted only as the next one.       *)
THEOREM TimelineIsIntact == Spec => []TimelineIntact
<1>1. TypeInv /\ TimelineInv => TimelineIntact
  <2> SUFFICES ASSUME TypeInv, TimelineInv PROVE TimelineIntact
    OBVIOUS
  <2>1. ASSUME "revert" \notin muddled
        PROVE  {r.seq : r \in rows} = 1..Cardinality(rows)
    <3>1. PICK n \in Nat : NextSequence = n + 1
      <4>1. NextSequence - 1 \in Nat /\ NextSequence = (NextSequence - 1) + 1
        BY NextIsAbove DEF TypeInv
      <4> QED
        BY <4>1
    <3>2. \A r \in rows : r.seq \in 1..n
      BY <3>1, NextIsAbove DEF TypeInv
    <3>3. \A k \in 1..n : \E r \in rows : r.seq = k
      BY <2>1, <3>1 DEF TimelineInv, Contiguous
    <3>4. {r.seq : r \in rows} = 1..n
      BY <3>2, <3>3
    <3> DEFINE f == [r \in rows |-> r.seq]
    <3>5. f \in Bijection(rows, 1..n)
      <4>1. f \in Injection(rows, 1..n)
        BY <3>2 DEF Injection, IsInjective, TimelineInv, UniqueSeqs
      <4>2. f \in Surjection(rows, 1..n)
        BY <3>2, <3>3 DEF Surjection
      <4> QED
        BY <4>1, <4>2 DEF Bijection
    <3>6. ExistsBijection(rows, 1..n)
      BY <3>5 DEF ExistsBijection
    <3>7. Cardinality(1..n) = n
      BY FS_Interval
    <3>8. Cardinality(rows) = n
      BY <3>6, <3>7, FS_Bijection DEF TypeInv, RowsTyped
    <3> QED
      BY <3>4, <3>8
  <2>2. ASSUME "revert" \notin muddled, NEW q \in rows, q.kind = "user"
        PROVE  \E r \in AnswerOf(q.turn) : r.seq = q.seq + 1
    BY <2>2 DEF TimelineInv, QuestionsAnswered, AnswerOf
  <2> QED
    BY <2>1, <2>2 DEF TimelineIntact, TimelineInv, UniqueSeqs
<1> QED
  BY <1>1, TimelineAlways, PTL

-----------------------------------------------------------------------------
(* The context of a turn.                                                    *)

AfterAsk == {"title", "register"} \cup Generating
Loaded   == {"recent", "summarise", "insert", "reload", "retrieve", "check", "stream"}
Compacts == {"summarise", "insert"}
Complete == Compacts \cup {"retrieve", "check", "stream"}

Covered(r, s) == \E f \in s.covers : f.turn = r.turn /\ f.kind = r.kind

(* Every message before the tail of a summary went into it.                  *)
SummaryComplete(s) == \A r \in rows : r.kind # "summary" /\ r.seq < s.tail => Covered(r, s)

(* Every message before the question is at hand.                             *)
ContextHolds(t) ==
  \A r \in rows : r.kind # "summary" /\ r.seq < asked[t] =>
    \/ \E q \in context[t].recent : q.seq = r.seq
    \/ context[t].summary # None /\ Covered(r, context[t].summary)

(* What was loaded is what is stored, up to the size of an answer.           *)
RecentIsStored(t) ==
  \A q \in context[t].recent :
    /\ q.seq < asked[t]
    /\ \A r \in rows : r.seq = q.seq => r.turn = q.turn /\ r.kind = q.kind

TurnContext(t) ==
  /\ session = "present" /\ pc[t] \in AfterAsk => asked[t] < NextSequence
  /\ pc[t] \in Loaded /\ context[t].summary # None =>
       /\ SummaryComplete(context[t].summary)
       /\ session = "present" => context[t].summary.tail <= NextSequence
  /\ pc[t] \in Complete => ContextHolds(t)
  /\ pc[t] \in Compacts => RecentIsStored(t)

ContextInv ==
  "revert" \notin muddled =>
    /\ \A s \in Summaries : SummaryComplete(s) /\ s.tail < s.seq
    /\ \A t \in Turns : TurnContext(t)

-----------------------------------------------------------------------------
(* The facts of a summary.                                                   *)

(* A row says what a fact says, and nobody writes it any more.               *)
SettledFact(f, next) ==
  /\ pc[f.turn] \in Ended
  /\ \E r \in rows : r.turn = f.turn /\ r.kind = f.kind /\ r.size = f.size /\ r.seq < next

RowsHaveTurns == \A r \in rows : pc[r.turn] \notin {"idle", "open", "ready", "append"}

TurnFacts(t) ==
  /\ pc[t] \in AfterAsk => \A r \in rows : r.seq < asked[t] => pc[r.turn] \in Ended
  /\ pc[t] \in Compacts \cup {"recent"} /\ context[t].summary # None =>
       \A f \in context[t].summary.covers : SettledFact(f, NextSequence)
  /\ pc[t] \in Compacts => \A q \in context[t].recent : q \in rows /\ pc[q.turn] \in Ended

FactsInv ==
  /\ RowsHaveTurns
  /\ muddled = {} =>
       /\ \A s \in Summaries : \A f \in s.covers : SettledFact(f, s.seq)
       /\ session = "present" => \A t \in Turns : TurnFacts(t)

(* Where a turn's step leaves what it has of the session. *)
Stays(u) ==
  /\ asked'[u] = asked[u] /\ context'[u] = context[u]
  /\ pc'[u] \in AfterAsk => pc[u] \in AfterAsk
  /\ pc'[u] \in Loaded => pc[u] \in Loaded
  /\ pc'[u] \in Complete => pc[u] \in Complete
  /\ pc'[u] \in Compacts => pc[u] \in Compacts
  /\ pc'[u] = "recent" => pc[u] = "recent"

ContextLoads(t) ==
  /\ \/ pc[t] = "recent" /\ pc'[t] \in {"summarise", "retrieve", "check"}
     \/ pc[t] = "reload" /\ pc'[t] \in {"retrieve", "check"}
  /\ context' = [context EXCEPT ![t].recent = RecentOf(t, context[t].summary)]
  /\ UNCHANGED <<rows, session, asked, muddled>>

LEMMA PlacesOfContext ==
  /\ Loaded \subseteq AfterAsk /\ Complete \subseteq AfterAsk /\ Compacts \subseteq Complete
  /\ AfterAsk \subseteq HoldingPlaces
  /\ AfterAsk \cap ({"idle", "open", "ready", "append"} \cup Ended) = {}
  BY DEF Loaded, Complete, Compacts, AfterAsk, Generating, HoldingPlaces, Ended

LEMMA TurnRaisesContext ==
  ASSUME TypeInv, NEW t \in Turns, TurnRaises(t), pc[t] \in Generating
  PROVE  Stays(t) \/ pc'[t] \notin AfterAsk
<1>1. CASE produced[t] > 0
  BY <1>1 DEF TurnRaises, Goto, Unmoved, TypeInv, TurnsTyped, Stays, AfterAsk, Generating, Loaded,
    Complete, Compacts
<1>2. CASE ~ (produced[t] > 0)
  BY <1>2, EndTurnEnds, PlacesOfContext DEF TurnRaises, Ended
<1> QED
  BY <1>1, <1>2

LEMMA ContextMoves ==
  ASSUME TypeInv, NEW t \in Turns, TurnStep(t)
  PROVE  \/ AppendInserts(t) \/ LoadSummary(t) \/ ContextLoads(t) \/ SummaryInserts(t)
         \/ pc'[t] \notin AfterAsk
         \/ Stays(t)
<1>1. CASE OpenSession(t) \/ AppendReads(t)
  BY <1>1 DEF OpenSession, AppendReads, Goto, TypeInv, TurnsTyped, AfterAsk, Generating
<1>2. CASE OpenFails(t) \/ AppendFails(t)
  BY <1>2, EndTurnEnds, PlacesOfContext DEF OpenFails, AppendFails, Breaks, Ended
<1>3. CASE TitleEnds(t) \/ Register(t)
  BY <1>3 DEF TitleEnds, Register, Goto, Unmoved, TypeInv, TurnsTyped, Stays, AfterAsk, Generating,
    Loaded, Complete, Compacts
<1>4. CASE LoadRecent(t)
  <2>1. CASE TurnRaises(t)
    BY <1>4, <2>1, TurnRaisesContext DEF LoadRecent, Generating
  <2>2. CASE ~ TurnRaises(t)
    BY <1>4, <2>2 DEF LoadRecent, ContextLoads, AfterContext, Goto, dbVars, TypeInv, TurnsTyped
  <2> QED
    BY <2>1, <2>2
<1>5. CASE Reload(t)
  BY <1>5 DEF Reload, ContextLoads, AfterContext, Goto, dbVars, TypeInv, TurnsTyped
<1>6. CASE SummaryReads(t) \/ Retrieve(t) \/ StartStream(t) \/ Chunk(t) \/ StreamEnds(t)
  BY <1>6 DEF SummaryReads, Retrieve, StartStream, Chunk, StreamEnds, Goto, Unmoved, TypeInv,
    TurnsTyped, Stays, AfterAsk, Generating, Loaded, Complete, Compacts
<1>7. CASE CancelledInContext(t) \/ StoreCancelled(t) \/ StoreAnswer(t) \/ StoreFailed(t)
           \/ StoreInterrupted(t)
  BY <1>7, EndTurnEnds, PlacesOfContext DEF CancelledInContext, StoreCancelled, StoreAnswer,
    StoreAndEnd, StoreFailed, StoreInterrupted, Ended
<1>8. CASE Fails(t)
  BY <1>8, TurnRaisesContext DEF Fails, Generating
<1>9. CASE Interrupted(t)
  <2>1. CASE EndTurn(t, "gone")
    BY <2>1, EndTurnEnds, PlacesOfContext DEF Ended
  <2>2. CASE pc'[t] = "interrupting" /\ produced[t] > 0 /\ asked' = asked /\ context' = context
    <3>1. pc[t] \in {"stream"} \cup Storing
      BY <2>2 DEF TypeInv, TurnsTyped
    <3> QED
      BY <2>2, <3>1 DEF Stays, AfterAsk, Generating, Loaded, Complete, Compacts, Storing
  <2> QED
    BY <1>9, <2>1, <2>2 DEF Interrupted, Goto, Unmoved, TypeInv, TurnsTyped
<1> QED
  BY <1>1, <1>2, <1>3, <1>4, <1>5, <1>6, <1>7, <1>8, <1>9
  DEF TurnStep, OpeningStep, ContextStep, AnswerStep

(* A turn's step adds rows behind the last one, or rewrites sizes.           *)
RowsGrow ==
  /\ session = "present" => NextSequence <= NextSequence'
  /\ session # "present" => rows' = {}
  /\ \A q \in rows' : (\E r \in rows : SameRow(q, r)) \/ q.seq >= NextSequence

LEMMA RowsGrowInTurn ==
  ASSUME StepTypes, TimelineInv, NEW t \in Turns, TurnStep(t), "revert" \notin muddled'
  PROVE  RowsGrow /\ "revert" \notin muddled
<1> USE DEF StepTypes
<1>1. \A r \in rows : SameRow(r, r)
  BY DEF SameRow
<1>2. NextSequence \in Nat \ {0} /\ NextSequence' \in Nat \ {0}
      /\ \A r \in rows' : r.seq \in Nat /\ r.seq < NextSequence'
  BY NextIsAbove, NextIsAboveAfter DEF TypeInv
<1>3. NextSequence <= NextSequence
  BY <1>2
<1>4. CASE AppendInserts(t)
  <2>1. "revert" \notin muddled /\ pc[t] = "append" /\ Insertable(t) /\ session = "present"
    BY <1>4 DEF AppendInserts, Insertable
  <2>2. seqRead[t] = NextSequence
    BY <2>1, InsertsNext
  <2>3. PICK last \in Nat :
          /\ rows' = rows \cup {Question(seqRead[t], t), Answer(last + 1, t, 0)}
          /\ seqRead[t] <= last
    BY <1>4, MessagesInserted
  <2>4. PICK n \in Nat : n = NextSequence
    BY <1>2
  <2>5. last + 1 >= n /\ n >= n
    BY <2>2, <2>3, <2>4
  <2>6. Question(seqRead[t], t).seq = n /\ Answer(last + 1, t, 0).seq = last + 1
    BY <2>2, <2>4 DEF Question, Answer, Row
  <2>7. Question(seqRead[t], t) \in rows'
    BY <2>3
  <2>8. NextSequence <= NextSequence'
    <3>1. n < NextSequence'
      BY <1>2, <2>6, <2>7
    <3> QED
      BY <1>2, <2>4, <3>1
  <2> QED
    BY <1>1, <2>1, <2>3, <2>4, <2>5, <2>6, <2>8 DEF RowsGrow
<1>5. CASE SummaryInserts(t)
  <2>1. "revert" \notin muddled /\ pc[t] = "insert" /\ Insertable(t) /\ session = "present"
        /\ rows' = rows \cup {NewSummary(t)}
    BY <1>5 DEF SummaryInserts, Insertable
  <2>2. seqRead[t] = NextSequence
    BY <2>1, InsertsNext
  <2>3. NewSummary(t).seq = NextSequence /\ NewSummary(t) \in rows'
    BY <2>1, <2>2, NewSummaryTyped
  <2>4. NextSequence < NextSequence' /\ NewSummary(t).seq >= NextSequence
    BY <1>2, <2>3
  <2> QED
    BY <1>1, <1>2, <2>1, <2>4 DEF RowsGrow
<1>6. CASE Stores(t)
  <2>1. AnswerOf(t) \in SUBSET rows /\ produced[t] \in Nat /\ RowsTyped
        /\ rows' = Rewrite(AnswerOf(t), produced[t]) /\ muddled' = muddled
    BY <1>6 DEF TypeInv, TurnsTyped, AnswerOf, Stores
  <2> DEFINE S == AnswerOf(t)
  <2> HIDE DEF S
  <2>5. S \in SUBSET rows /\ produced[t] \in Nat /\ RowsTyped /\ rows' = Rewrite(S, produced[t])
    BY <2>1 DEF S
  <2>2. /\ \A q \in rows' : \E r \in rows : SameRow(q, r)
        /\ \A r \in rows : \E q \in rows' : SameRow(q, r)
    <3>1. /\ \A q \in Rewrite(S, produced[t]) : \E r \in rows :
               /\ SameRow(q, r)
               /\ IF r \in S THEN q = [r EXCEPT !.size = produced[t]] /\ q.size = produced[t] ELSE q = r
          /\ \A r \in rows : \E q \in Rewrite(S, produced[t]) :
               SameRow(q, r) /\ (r \notin S => q = r)
      BY <2>5, RewriteKeeps
    <3> QED
      BY <2>5, <3>1, Zenon
  <2>3. NextSequence' = NextSequence
    BY <2>2, SameSeqsSameNext DEF SameRow, TypeInv
  <2>4. rows = {} => rows' = {}
    BY <2>2
  <2> QED
    BY <1>3, <2>1, <2>2, <2>3, <2>4 DEF RowsGrow, SessionInv
<1>7. CASE rows' = rows /\ muddled' = muddled
  <2>1. NextSequence' = NextSequence
    BY <1>7 DEF NextSequence
  <2> QED
    BY <1>1, <1>3, <1>7, <2>1 DEF RowsGrow, SessionInv
<1> QED
  BY <1>4, <1>5, <1>6, <1>7, RowsOfTurn

(* Rows that are added behind the tail of a summary leave it complete. *)
LEMMA SummaryStaysComplete ==
  ASSUME StepTypes, RowsGrow, NEW s \in RowType, SummaryComplete(s),
         session = "present" => s.tail <= NextSequence
  PROVE  \A r \in rows' : r.kind # "summary" /\ r.seq < s.tail => Covered(r, s)
<1> USE DEF StepTypes
<1> SUFFICES ASSUME NEW r \in rows', r.kind # "summary", r.seq < s.tail PROVE Covered(r, s)
  OBVIOUS
<1>1. session = "present"
  BY DEF RowsGrow
<1>2. s.tail <= NextSequence /\ s.tail \in Nat /\ NextSequence \in Nat /\ r.seq \in Nat
  BY <1>1, NextIsAbove, NextIsAboveAfter DEF TypeInv, RowType
<1>3. ~ (r.seq >= NextSequence)
  BY <1>2
<1>4. PICK q \in rows : SameRow(r, q)
  BY <1>3 DEF RowsGrow
<1>5. Covered(q, s)
  BY <1>4 DEF SummaryComplete, SameRow
<1> QED
  BY <1>4, <1>5 DEF Covered, SameRow

LEMMA StaysKeepsContext ==
  ASSUME StepTypes, RowsGrow, NEW u \in Turns, Stays(u), TurnContext(u),
         session' = "present" => session = "present" \/ pc'[u] \notin AfterAsk
  PROVE  TurnContext(u)'
<1> USE DEF StepTypes
<1>1. NextSequence \in Nat \ {0} /\ NextSequence' \in Nat \ {0}
      /\ (\A r \in rows : r.seq \in Nat) /\ (\A r \in rows' : r.seq \in Nat)
  BY NextIsAbove, NextIsAboveAfter DEF TypeInv
<1>2. asked[u] \in Nat /\ context[u] \in [summary : RowType \cup {None}, recent : SUBSET RowType]
  BY DEF TypeInv, TurnsTyped, ContextsTyped
<1>3. session' = "present" /\ pc'[u] \in AfterAsk => asked'[u] < NextSequence'
  <2> SUFFICES ASSUME session' = "present", pc'[u] \in AfterAsk PROVE asked'[u] < NextSequence'
    OBVIOUS
  <2>1. session = "present" /\ asked[u] < NextSequence /\ asked'[u] = asked[u]
    BY DEF Stays, TurnContext
  <2> QED
    BY <1>1, <1>2, <2>1 DEF RowsGrow
<1>4. ASSUME pc'[u] \in Loaded, context'[u].summary # None
      PROVE  /\ SummaryComplete(context[u].summary)'
             /\ session' = "present" => context'[u].summary.tail <= NextSequence'
  <2> DEFINE s == context[u].summary
  <2>1. /\ context'[u].summary = s /\ s \in RowType /\ SummaryComplete(s)
        /\ session = "present" => s.tail <= NextSequence
        /\ pc'[u] \in AfterAsk
    BY <1>2, <1>4, PlacesOfContext DEF Stays, TurnContext
  <2>2. \A r \in rows' : r.kind # "summary" /\ r.seq < s.tail => Covered(r, s)
    BY <2>1, SummaryStaysComplete
  <2>3. SummaryComplete(context[u].summary)'
    BY <2>1, <2>2 DEF SummaryComplete, Covered
  <2>4. session' = "present" => s.tail <= NextSequence'
    BY <1>1, <2>1 DEF RowsGrow, RowType
  <2> QED
    BY <2>1, <2>3, <2>4
<1>5. ASSUME NEW r \in rows', r.seq < asked[u], pc'[u] \in AfterAsk
      PROVE  \E q \in rows : SameRow(r, q)
  <2>1. session = "present"
    BY <1>5 DEF RowsGrow
  <2>2. asked[u] < NextSequence
    BY <1>5, <2>1 DEF TurnContext, Stays
  <2>3. ~ (r.seq >= NextSequence)
    BY <1>1, <1>2, <1>5, <2>2
  <2> QED
    BY <2>3 DEF RowsGrow
<1>6. ASSUME pc'[u] \in Complete PROVE ContextHolds(u)'
  <2>1. /\ context'[u] = context[u] /\ asked'[u] = asked[u] /\ ContextHolds(u)
        /\ pc'[u] \in AfterAsk
    BY <1>6, PlacesOfContext DEF Stays, TurnContext
  <2> SUFFICES ASSUME NEW r \in rows', r.kind # "summary", r.seq < asked[u]
               PROVE  \/ \E q \in context[u].recent : q.seq = r.seq
                      \/ context[u].summary # None /\ Covered(r, context[u].summary)
    BY <2>1 DEF ContextHolds, Covered
  <2>2. PICK q \in rows : SameRow(r, q)
    BY <1>5, <2>1
  <2>3. \/ \E p \in context[u].recent : p.seq = q.seq
        \/ context[u].summary # None /\ Covered(q, context[u].summary)
    BY <2>1, <2>2 DEF ContextHolds, SameRow
  <2> QED
    BY <2>2, <2>3 DEF SameRow, Covered
<1>7. ASSUME pc'[u] \in Compacts PROVE RecentIsStored(u)'
  <2>1. /\ context'[u] = context[u] /\ asked'[u] = asked[u] /\ RecentIsStored(u)
        /\ pc'[u] \in AfterAsk
    BY <1>7, PlacesOfContext DEF Stays, TurnContext
  <2> SUFFICES ASSUME NEW q \in context[u].recent
               PROVE  /\ q.seq < asked[u]
                      /\ \A r \in rows' : r.seq = q.seq => r.turn = q.turn /\ r.kind = q.kind
    BY <2>1 DEF RecentIsStored
  <2>2. q.seq < asked[u]
    BY <2>1 DEF RecentIsStored
  <2>3. ASSUME NEW r \in rows', r.seq = q.seq PROVE r.turn = q.turn /\ r.kind = q.kind
    <3>1. PICK p \in rows : SameRow(r, p)
      BY <1>5, <2>1, <2>2, <2>3
    <3> QED
      BY <2>1, <2>3, <3>1 DEF RecentIsStored, SameRow
  <2> QED
    BY <2>2, <2>3
<1> QED
  BY <1>3, <1>4, <1>6, <1>7 DEF TurnContext

LEMMA OpensOnlyNew ==
  ASSUME StepTypes, NEW t \in Turns, TurnStep(t), NEW u \in Turns, u # t,
         session' = "present", pc'[u] \in AfterAsk
  PROVE  session = "present"
<1> USE DEF StepTypes
<1>1. pc'[u] = pc[u]
  BY TurnIsOwn DEF OthersKept
<1>2. pc[u] \in HoldingPlaces
  BY <1>1, PlacesOfContext
<1>3. session = "none" => FALSE
  BY <1>2 DEF SessionInv
<1>4. session' = session \/ OpenSession(t)
  BY RowsOfTurn DEF AppendInserts, SummaryInserts, Stores
<1>5. OpenSession(t) /\ session = "deleted" => FALSE
  <2> SUFFICES ASSUME OpenSession(t), session = "deleted" PROVE FALSE
    OBVIOUS
  <2> QED
    BY DEF OpenSession, SessionInv
<1> QED
  BY <1>3, <1>4, <1>5 DEF TypeInv, RowsTyped

(* The new summary stands for all that came before its tail. *)
LEMMA NewSummaryComplete ==
  ASSUME TypeInv, NEW t \in Turns, pc[t] = "insert", TurnContext(t), session = "present",
         NEW r \in rows, r.kind # "summary", r.seq < NewSummary(t).tail
  PROVE  Covered(r, NewSummary(t))
<1> DEFINE recent == context[t].recent
           summary == context[t].summary
           tail == TailStart(recent)
           old == {s \in {summary} : s # None}
           compacted == {q \in recent : q.seq < tail}
           covers == UNION {Facts(q) : q \in compacted \cup old}
<1>1. NewSummary(t).covers = covers /\ NewSummary(t).tail = tail
  BY DEF NewSummary, Row
<1>2. recent \in SUBSET RowType /\ CanCompact(recent) /\ (summary # None => summary.kind = "summary")
  BY DEF TypeInv, ContextsTyped
<1>3. tail \in Nat /\ \E q \in recent : q.seq = tail
  BY <1>2, TailTyped
<1>4. ContextHolds(t) /\ RecentIsStored(t)
  BY DEF TurnContext, Complete, Compacts
<1>5. r.seq < asked[t]
  <2>1. tail < asked[t] /\ asked[t] \in Nat /\ r.seq \in Nat
    BY <1>3, <1>4 DEF RecentIsStored, TypeInv, TurnsTyped, RowsTyped, RowType
  <2> QED
    BY <1>1, <1>3, <2>1
<1>6. CASE \E q \in recent : q.seq = r.seq
  <2>1. PICK q \in recent : q.seq = r.seq
    BY <1>6
  <2>2. q.turn = r.turn /\ q.kind = r.kind
    BY <1>4, <2>1 DEF RecentIsStored
  <2>3. q \in compacted
    BY <1>1, <2>1
  <2>4. [turn |-> q.turn, kind |-> q.kind, size |-> q.size] \in Facts(q)
    BY <2>2 DEF Facts
  <2>5. [turn |-> q.turn, kind |-> q.kind, size |-> q.size] \in covers
    BY <2>3, <2>4
  <2> HIDE DEF covers
  <2> QED
    BY <1>1, <2>2, <2>5 DEF Covered
<1>7. CASE summary # None /\ Covered(r, summary)
  <2>1. PICK f \in summary.covers : f.turn = r.turn /\ f.kind = r.kind
    BY <1>7 DEF Covered
  <2>2. summary \in old /\ Facts(summary) = summary.covers
    BY <1>2, <1>7 DEF Facts
  <2>3. f \in covers
    BY <2>1, <2>2
  <2> HIDE DEF covers
  <2> QED
    BY <1>1, <2>1, <2>3 DEF Covered
<1> QED
  BY <1>4, <1>5, <1>6, <1>7 DEF ContextHolds

(* Loading from a complete summary's tail on misses nothing. *)
LEMMA LoadHolds ==
  ASSUME StepTypes, TimelineInv, NEW t \in Turns, ContextLoads(t), TurnContext(t)
  PROVE  TurnContext(t)'
<1> USE DEF StepTypes
<1> DEFINE summary == context[t].summary
<1>1. /\ context'[t].summary = summary /\ context'[t].recent = RecentOf(t, summary)
      /\ pc[t] \in Loaded /\ pc[t] \in AfterAsk
      /\ rows' = rows /\ session' = session /\ asked' = asked
  BY DEF ContextLoads, TypeInv, ContextsTyped, Loaded, AfterAsk, Generating
<1>2. NextSequence' = NextSequence
  BY <1>1 DEF NextSequence
<1>3. summary # None =>
        /\ SummaryComplete(summary) /\ summary.kind = "summary" /\ summary \in RowType
        /\ session = "present" => summary.tail <= NextSequence
  BY <1>1 DEF TurnContext, TypeInv, ContextsTyped
<1>4. summary # None => SummaryComplete(context[t].summary)'
  BY <1>1, <1>3 DEF SummaryComplete, Covered
<1>5. ContextHolds(t)'
  <2> SUFFICES ASSUME NEW r \in rows, r.kind # "summary", r.seq < asked[t]
               PROVE  \/ \E q \in RecentOf(t, summary) : q.seq = r.seq
                      \/ summary # None /\ Covered(r, summary)
    BY <1>1 DEF ContextHolds, Covered
  <2>1. CASE summary = None \/ r.seq >= summary.tail
    BY <1>3, <2>1 DEF RecentOf
  <2>2. CASE summary # None /\ ~ (r.seq >= summary.tail)
    <3>1. r.seq < summary.tail
      BY <1>3, <2>2 DEF RowType, TypeInv, RowsTyped
    <3> QED
      BY <1>3, <2>2, <3>1 DEF SummaryComplete
  <2> QED
    BY <2>1, <2>2
<1>6. RecentIsStored(t)'
  <2>1. \A q \in RecentOf(t, summary) : q \in rows /\ q.seq < asked[t]
    BY DEF RecentOf
  <2> QED
    BY <1>1, <2>1 DEF RecentIsStored, TimelineInv, UniqueSeqs
<1>7. session' = "present" => asked'[t] < NextSequence'
  BY <1>1, <1>2 DEF TurnContext
<1> QED
  BY <1>1, <1>2, <1>3, <1>4, <1>5, <1>6, <1>7 DEF TurnContext

(* A summary that is there after a turn's step was there before, or is new. *)
LEMMA SummariesOfStep ==
  ASSUME TypeInv, NEW t \in Turns, TurnStep(t), NEW s \in Summaries'
  PROVE  (\E r \in Summaries : SameRow(s, r)) \/ (SummaryInserts(t) /\ s = NewSummary(t))
<1>0. s \in rows' /\ s.kind = "summary"
  BY DEF Summaries
<1> SUFFICES (\E r \in rows : SameRow(s, r)) \/ (SummaryInserts(t) /\ s = NewSummary(t))
  BY <1>0 DEF Summaries, SameRow
<1>1. CASE rows' = rows
  BY <1>0, <1>1 DEF SameRow
<1>2. CASE SummaryInserts(t)
  <2>1. rows' = rows \cup {NewSummary(t)}
    BY <1>2 DEF SummaryInserts
  <2> QED
    BY <1>0, <1>2, <2>1 DEF SameRow
<1>3. CASE AppendInserts(t)
  <2>1. PICK last \in Nat : rows' = rows \cup {Question(seqRead[t], t), Answer(last + 1, t, 0)}
    BY <1>3, MessagesInserted
  <2>2. Question(seqRead[t], t).kind = "user" /\ Answer(last + 1, t, 0).kind = "assistant"
    BY DEF Question, Answer, Row
  <2> QED
    BY <1>0, <2>1, <2>2 DEF SameRow
<1>4. CASE Stores(t)
  <2> DEFINE S == AnswerOf(t)
  <2> HIDE DEF S
  <2>1. S \in SUBSET rows /\ produced[t] \in Nat /\ RowsTyped /\ rows' = Rewrite(S, produced[t])
    BY <1>4 DEF S, TypeInv, TurnsTyped, AnswerOf, Stores
  <2> QED
    BY <1>0, <2>1, RewriteKeeps DEF SameRow
<1> QED
  BY <1>1, <1>2, <1>3, <1>4, RowsOfTurn

LEMMA TurnKeepsContext ==
  ASSUME StepTypes, TimelineInv, ContextInv, NEW t \in Turns, TurnStep(t),
         "revert" \notin muddled'
  PROVE  /\ \A s \in Summaries' : SummaryComplete(s)' /\ s.tail < s.seq
         /\ \A u \in Turns : TurnContext(u)'
<1> USE DEF StepTypes
<1>1. RowsGrow /\ "revert" \notin muddled
  BY RowsGrowInTurn
<1>2. (\A s \in Summaries : SummaryComplete(s) /\ s.tail < s.seq) /\ \A u \in Turns : TurnContext(u)
  BY <1>1 DEF ContextInv
<1>3. /\ NextSequence \in Nat \ {0} /\ \A r \in rows : r.seq \in Nat /\ r.seq < NextSequence
      /\ NextSequence' \in Nat \ {0} /\ \A r \in rows' : r.seq \in Nat /\ r.seq < NextSequence'
  BY NextIsAbove, NextIsAboveAfter DEF TypeInv
<1>4. ASSUME NEW s \in Summaries
      PROVE  /\ s \in RowType /\ s.tail <= NextSequence
             /\ \A r \in rows' : r.kind # "summary" /\ r.seq < s.tail => Covered(r, s)
  <2>1. s \in RowType /\ s \in rows
    BY DEF Summaries, TypeInv, RowsTyped
  <2>2. s.tail < s.seq /\ s.seq < NextSequence /\ s.tail \in Nat /\ s.seq \in Nat
    BY <1>2, <1>3, <2>1 DEF RowType
  <2>3. s.tail <= NextSequence
    BY <1>3, <2>2
  <2> QED
    BY <1>1, <1>2, <2>1, <2>3, SummaryStaysComplete
<1>5. ASSUME SummaryInserts(t)
      PROVE  LET s == NewSummary(t)
             IN  /\ rows' = rows \cup {s} /\ session = "present" /\ pc'[t] = "reload"
                 /\ s.tail < s.seq /\ s.seq = NextSequence /\ s.kind = "summary" /\ s \in RowType
                 /\ context'[t].summary = s /\ asked'[t] = asked[t] /\ asked[t] < NextSequence
                 /\ \A r \in rows' : r.kind # "summary" /\ r.seq < s.tail => Covered(r, s)
  <2> DEFINE s == NewSummary(t)
  <2>1. /\ rows' = rows \cup {s} /\ session = "present" /\ pc'[t] = "reload"
        /\ pc[t] = "insert" /\ Insertable(t) /\ context'[t].summary = s /\ asked'[t] = asked[t]
    BY <1>5 DEF SummaryInserts, Insertable, Goto, TypeInv, TurnsTyped, ContextsTyped
  <2>2. /\ s \in RowType /\ s.kind = "summary" /\ s.tail = TailStart(context[t].recent)
        /\ s.seq = NextSequence
    BY <1>1, <2>1, NewSummaryTyped, InsertsNext
  <2>3. TurnContext(t) /\ pc[t] \in AfterAsk /\ pc[t] \in Compacts
    BY <1>2, <2>1 DEF AfterAsk, Generating, Compacts
  <2>4. asked[t] < NextSequence /\ asked[t] \in Nat
    BY <2>1, <2>3 DEF TurnContext, TypeInv, TurnsTyped
  <2>5. s.tail < asked[t] /\ s.tail \in Nat
    <3>1. CanCompact(context[t].recent) /\ context[t].recent \in SUBSET RowType
      BY <2>1 DEF TypeInv, ContextsTyped
    <3>2. \E q \in context[t].recent : q.seq = TailStart(context[t].recent)
      BY <3>1, TailTyped
    <3> QED
      BY <2>2, <2>3, <3>2 DEF TurnContext, RecentIsStored, RowType
  <2>6. s.tail < s.seq
    BY <1>3, <2>2, <2>4, <2>5
  <2>7. \A r \in rows : r.kind # "summary" /\ r.seq < s.tail => Covered(r, s)
    BY <2>1, <2>3, NewSummaryComplete
  <2> HIDE DEF s
  <2> QED
    BY <2>1, <2>2, <2>4, <2>6, <2>7 DEF s
<1>6. ASSUME NEW s \in Summaries' PROVE SummaryComplete(s)' /\ s.tail < s.seq
  <2>1. CASE \E q \in Summaries : SameRow(s, q)
    <3>1. PICK q \in Summaries : SameRow(s, q)
      BY <2>1
    <3>2. \A r \in rows' : r.kind # "summary" /\ r.seq < q.tail => Covered(r, q)
      BY <1>4
    <3>3. q.tail < q.seq
      BY <1>2
    <3> QED
      BY <3>1, <3>2, <3>3 DEF SummaryComplete, Covered, SameRow
  <2>2. CASE SummaryInserts(t) /\ s = NewSummary(t)
    BY <1>5, <2>2 DEF SummaryComplete, Covered
  <2> QED
    BY <2>1, <2>2, SummariesOfStep
<1>7. TurnContext(t)'
  <2>1. CASE AppendInserts(t)
    <3>1. /\ pc'[t] \in {"title", "register"} /\ asked'[t] = seqRead[t]
          /\ pc[t] = "append" /\ Insertable(t)
      BY <2>1 DEF AppendInserts, Goto, TypeInv, TurnsTyped
    <3>2. seqRead[t] = NextSequence
      BY <1>1, <3>1, InsertsNext
    <3>3. NextSequence < NextSequence'
      <4>1. Question(seqRead[t], t) \in rows' /\ Question(seqRead[t], t).seq = seqRead[t]
        BY <2>1, MessagesInserted DEF Question, Row
      <4> QED
        BY <1>3, <3>2, <4>1
    <3> QED
      BY <3>1, <3>2, <3>3 DEF TurnContext, Loaded, Complete, Compacts
  <2>2. CASE LoadSummary(t)
    <3>1. /\ rows' = rows /\ session' = session /\ asked' = asked /\ pc'[t] = "recent"
          /\ context'[t].summary = LatestSummary /\ pc[t] \in AfterAsk
      BY <2>2 DEF LoadSummary, Goto, dbVars, TypeInv, TurnsTyped, ContextsTyped, AfterAsk, Generating
    <3>2. NextSequence' = NextSequence
      BY <3>1 DEF NextSequence
    <3>3. LatestSummary # None => LatestSummary \in Summaries
      BY LatestIsSummary DEF Summaries, TypeInv
    <3>4. context'[t].summary # None =>
            SummaryComplete(context[t].summary)' /\ context'[t].summary.tail <= NextSequence'
      BY <1>4, <3>1, <3>2, <3>3 DEF SummaryComplete, Covered
    <3>5. session' = "present" => asked'[t] < NextSequence'
      BY <1>2, <3>1, <3>2 DEF TurnContext
    <3> QED
      BY <3>1, <3>4, <3>5 DEF TurnContext, Complete, Compacts
  <2>3. CASE ContextLoads(t)
    BY <1>2, <2>3, LoadHolds
  <2>4. CASE SummaryInserts(t)
    <3> DEFINE s == NewSummary(t)
    <3>1. s \in rows'
      BY <1>5, <2>4
    <3>2. s.seq < NextSequence' /\ asked[t] < NextSequence' /\ s.tail <= NextSequence'
      <4>1. /\ s.seq = NextSequence /\ s.tail < s.seq /\ s.tail \in Nat
            /\ asked[t] < NextSequence /\ asked[t] \in Nat
        BY <1>5, <2>4 DEF RowType, TypeInv, TurnsTyped
      <4> HIDE DEF s
      <4> QED
        BY <1>3, <3>1, <4>1
    <3>3. SummaryComplete(context[t].summary)'
      BY <1>5, <2>4 DEF SummaryComplete, Covered
    <3> QED
      BY <1>5, <2>4, <3>2, <3>3 DEF TurnContext, Complete, Compacts
  <2>5. CASE pc'[t] \notin AfterAsk
    BY <2>5, PlacesOfContext DEF TurnContext
  <2>6. CASE Stays(t)
    <3>1. CASE session' = session
      BY <1>1, <1>2, <2>6, <3>1, StaysKeepsContext
    <3>2. CASE session' # session
      <4>1. OpenSession(t)
        BY <3>2, RowsOfTurn DEF AppendInserts, SummaryInserts, Stores
      <4>2. pc'[t] = "ready"
        BY <4>1, PlaceMoves
      <4> QED
        BY <4>2, PlacesOfContext DEF TurnContext
    <3> QED
      BY <3>1, <3>2
  <2> QED
    BY <2>1, <2>2, <2>3, <2>4, <2>5, <2>6, ContextMoves
<1>8. ASSUME NEW u \in Turns, u # t PROVE TurnContext(u)'
  <2>1. Stays(u)
    BY <1>8, TurnIsOwn DEF OthersKept, Stays
  <2>2. session' = "present" => session = "present" \/ pc'[u] \notin AfterAsk
    BY <1>8, OpensOnlyNew
  <2> QED
    BY <1>1, <1>2, <2>1, <2>2, StaysKeepsContext
<1> QED
  BY <1>6, <1>7, <1>8

LEMMA RequestKeepsContext ==
  ASSUME StepTypes, ContextInv, RequestStep, "revert" \notin muddled'
  PROVE  /\ \A s \in Summaries' : SummaryComplete(s)' /\ s.tail < s.seq
         /\ \A u \in Turns : TurnContext(u)'
<1> USE DEF StepTypes
<1>1. "revert" \notin muddled /\ rows' \subseteq rows
  BY RequestMoves DEF RequestStep, Request, Cancel, ClientLeaves, Revert, DeleteSession, Restart
<1>2. (\A s \in Summaries : SummaryComplete(s) /\ s.tail < s.seq) /\ \A u \in Turns : TurnContext(u)
  BY <1>1 DEF ContextInv
<1>3. \A s \in Summaries' : SummaryComplete(s)' /\ s.tail < s.seq
  BY <1>1, <1>2 DEF Summaries, SummaryComplete, Covered
<1>4. ASSUME NEW u \in Turns, rows' = rows, session' = session, Stays(u) PROVE TurnContext(u)'
  <2>1. RowsGrow
    <3>1. NextSequence' = NextSequence /\ \A r \in rows : SameRow(r, r)
      BY <1>4 DEF NextSequence, SameRow
    <3>2. NextSequence <= NextSequence
      BY NextIsAbove DEF TypeInv
    <3> QED
      BY <1>4, <3>1, <3>2 DEF RowsGrow, SessionInv
  <2> QED
    BY <1>2, <1>4, <2>1, StaysKeepsContext
<1>5. ASSUME NEW u \in Turns, pc'[u] \notin AfterAsk PROVE TurnContext(u)'
  BY <1>5, PlacesOfContext DEF TurnContext
<1>6. ASSUME NEW t \in Turns, NEW new \in BOOLEAN, Request(t, new), NEW u \in Turns PROVE TurnContext(u)'
  <2>1. CASE u = t
    <3>1. pc'[u] = "open"
      BY <1>6, <2>1 DEF Request, Goto, TypeInv, TurnsTyped
    <3> QED
      BY <1>5, <3>1 DEF AfterAsk, Generating
  <2>2. CASE u # t
    BY <1>4, <1>6, <2>2 DEF Request, Goto, dbVars, Stays, TypeInv, TurnsTyped
  <2> QED
    BY <2>1, <2>2
<1>7. ASSUME NEW t \in Turns, Cancel(t) \/ ClientLeaves(t), NEW u \in Turns PROVE TurnContext(u)'
  BY <1>4, <1>7 DEF Cancel, ClientLeaves, dbVars, turnVars, Stays
<1>8. ASSUME NEW r \in rows, Revert(r), NEW u \in Turns PROVE TurnContext(u)'
  <2>1. ~ HoldsReads(u) /\ pc' = pc
    BY <1>8 DEF Revert, turnVars
  <2> QED
    BY <1>5, <2>1 DEF HoldsReads, AfterAsk
<1>9. ASSUME DeleteSession, NEW u \in Turns PROVE TurnContext(u)'
  <2>1. rows' = {} /\ session' = "deleted" /\ context' = context /\ pc' = pc /\ asked' = asked
    BY <1>9 DEF DeleteSession, turnVars
  <2> QED
    BY <1>2, <2>1 DEF TurnContext, SummaryComplete, ContextHolds, RecentIsStored
<1>10. ASSUME Restart, NEW u \in Turns PROVE TurnContext(u)'
  <2>1. pc'[u] \notin AfterAsk
    BY <1>10 DEF Restart, AfterAsk, Generating, Running, Opening
  <2> QED
    BY <1>5, <2>1
<1> QED
  BY <1>3, <1>6, <1>7, <1>8, <1>9, <1>10 DEF RequestStep

LEMMA ContextKept ==
  StepTypes /\ TimelineInv /\ ContextInv /\ [Next]_vars => ContextInv'
<1> SUFFICES ASSUME StepTypes, TimelineInv, ContextInv, [Next]_vars, "revert" \notin muddled'
             PROVE  /\ \A s \in Summaries' : SummaryComplete(s)' /\ s.tail < s.seq
                    /\ \A u \in Turns : TurnContext(u)'
  BY DEF ContextInv
<1>1. CASE UNCHANGED vars
  <2>1. NextSequence' = NextSequence /\ Summaries' = Summaries
    BY <1>1 DEF vars, NextSequence, Summaries
  <2> QED
    BY <1>1, <2>1 DEF vars, ContextInv, TurnContext, SummaryComplete, ContextHolds, RecentIsStored,
      Covered
<1> QED
  BY <1>1, TurnKeepsContext, RequestKeepsContext DEF Next

LEMMA InitContext == Init => ContextInv
<1> SUFFICES ASSUME Init PROVE ContextInv
  OBVIOUS
<1>1. Summaries = {}
  <2>1. PICK order \in {<<>>, Past}, sizes \in [PastTurns -> 0..MaxChunks] :
          rows = PastRows(order, sizes)
    BY DEF Init
  <2>2. \A r \in rows : r.kind # "summary"
    BY <2>1, PastRowsShape DEF Question, Answer, Row
  <2> QED
    BY <2>2 DEF Summaries
<1>2. \A t \in Turns : pc[t] \notin AfterAsk
  BY DEF Init, AfterAsk, Generating
<1> QED
  BY <1>1, <1>2, PlacesOfContext DEF ContextInv, TurnContext

(* The invariant of the contexts: a compaction that was started before a     *)
(* turn that overlaps it still covers all that came before its tail.         *)
LEMMA ContextAlways == Spec => [](TypeInv /\ SessionInv /\ TimelineInv /\ ContextInv)
<1>1. /\ TypeInv /\ TypeInv' /\ SessionInv /\ SessionInv' /\ TimelineInv /\ ContextInv
      /\ [Next]_vars
      => ContextInv'
  BY ContextKept DEF StepTypes
<1> QED
  BY <1>1, InitContext, TimelineAlways, PTL DEF Spec

(* What a turn is answered from loses nothing: whatever turns overlap and    *)
(* whoever compacts meanwhile, every message before the question was loaded, *)
(* or went into the summary that stands for it.                              *)
THEOREM ContextIsComplete == Spec => []ContextComplete
<1>1. ContextInv => ContextComplete
  BY DEF ContextInv, TurnContext, ContextComplete, ContextHolds, Covered, Complete
<1> QED
  BY <1>1, ContextAlways, PTL

-----------------------------------------------------------------------------
(* What summaries say.  While no turn met another, a fact of a summary is of *)
(* a turn that has ended, and nobody writes the rows of one that has.        *)

FactsInvs == TimelineInv /\ ContextInv /\ FactsInv

LEMMA PlacesOfTurns ==
  ASSUME TypeInv, NEW t \in Turns
  PROVE  pc[t] \in Running => pc[t] \notin Ended
  BY DEF Running, Ended, Opening, Generating

(* A row of another turn is left as it is. *)
LEMMA OthersRowsKept ==
  ASSUME TypeInv, NEW t \in Turns, TurnStep(t), NEW r \in rows, r.turn # t
  PROVE  r \in rows'
<1>1. CASE AppendInserts(t) \/ SummaryInserts(t)
  BY <1>1 DEF AppendInserts, SummaryInserts
<1>2. CASE Stores(t)
  <2> DEFINE S == AnswerOf(t)
  <2>1. r \notin S /\ rows' = Rewrite(S, produced[t])
    BY <1>2 DEF AnswerOf, Stores
  <2> QED
    BY <2>1 DEF Rewrite
<1>3. CASE rows' = rows
  BY <1>3
<1> QED
  BY <1>1, <1>2, <1>3, RowsOfTurn

LEMMA EndedKept ==
  ASSUME TypeInv, NEW t \in Turns, TurnStep(t), NEW u \in Turns, pc[u] \in Ended
  PROVE  u # t /\ pc'[u] \in Ended
<1>1. u # t
  BY PlaceMoves, PlacesOfTurns
<1> QED
  BY <1>1, TurnIsOwn DEF OthersKept

LEMMA SettledKept ==
  ASSUME TypeInv, NEW t \in Turns, TurnStep(t), NEW f \in FactType, NEW n, NEW m,
         SettledFact(f, n), \A k \in Nat : k < n => k < m
  PROVE  pc'[f.turn] \in Ended /\ \E r \in rows' : /\ r.turn = f.turn /\ r.kind = f.kind
                                                   /\ r.size = f.size /\ r.seq < m
<1>1. f.turn \in Turns /\ pc[f.turn] \in Ended
  BY DEF SettledFact, FactType
<1>2. f.turn # t /\ pc'[f.turn] \in Ended
  BY <1>1, EndedKept
<1>3. PICK r \in rows : r.turn = f.turn /\ r.kind = f.kind /\ r.size = f.size /\ r.seq < n
  BY DEF SettledFact
<1>4. r \in rows' /\ r.seq \in Nat
  BY <1>2, <1>3, OthersRowsKept DEF TypeInv, RowsTyped, RowType
<1> QED
  BY <1>2, <1>3, <1>4

LEMMA TurnKeepsRowsOfTurns ==
  ASSUME TypeInv, RowsHaveTurns, NEW t \in Turns, TurnStep(t)
  PROVE  RowsHaveTurns'
<1> DEFINE Early == {"idle", "open", "ready", "append"}
<1> SUFFICES ASSUME NEW q \in rows' PROVE pc'[q.turn] \notin Early
  BY DEF RowsHaveTurns
<1>1. ASSUME NEW r \in rows, SameRow(q, r) PROVE pc'[q.turn] \notin Early
  <2>1. pc[r.turn] \notin Early /\ q.turn = r.turn /\ r.turn \in Turns
    BY <1>1 DEF RowsHaveTurns, SameRow, TypeInv, RowsTyped, RowType
  <2>2. CASE r.turn = t
    <3>1. ~ OpenSession(t) /\ ~ AppendReads(t)
      BY <2>1, <2>2 DEF OpenSession, AppendReads
    <3> QED
      BY <2>1, <2>2, <3>1, PlaceMoves
  <2>3. CASE r.turn # t
    BY <2>1, <2>3, TurnIsOwn DEF OthersKept
  <2> QED
    BY <2>2, <2>3
<1>2. CASE AppendInserts(t)
  <2>1. PICK last \in Nat : rows' = rows \cup {Question(seqRead[t], t), Answer(last + 1, t, 0)}
    BY <1>2, MessagesInserted
  <2>2. Question(seqRead[t], t).turn = t /\ Answer(last + 1, t, 0).turn = t
    BY DEF Question, Answer, Row
  <2>3. pc'[t] \in {"title", "register"}
    BY <1>2 DEF AppendInserts, Goto, TypeInv, TurnsTyped
  <2> QED
    BY <1>1, <2>1, <2>2, <2>3 DEF SameRow
<1>3. CASE SummaryInserts(t)
  <2>1. rows' = rows \cup {NewSummary(t)} /\ pc'[t] = "reload" /\ pc[t] = "insert"
    BY <1>3 DEF SummaryInserts, Goto, TypeInv, TurnsTyped
  <2>2. NewSummary(t).turn = t
    BY <2>1, NewSummaryTyped
  <2> QED
    BY <1>1, <2>1, <2>2 DEF SameRow
<1>4. CASE Stores(t)
  <2> DEFINE S == AnswerOf(t)
  <2> HIDE DEF S
  <2>1. S \in SUBSET rows /\ produced[t] \in Nat /\ RowsTyped /\ rows' = Rewrite(S, produced[t])
    BY <1>4 DEF S, TypeInv, TurnsTyped, AnswerOf, Stores
  <2>2. \A p \in Rewrite(S, produced[t]) : \E r \in rows :
          /\ SameRow(p, r)
          /\ IF r \in S THEN p = [r EXCEPT !.size = produced[t]] /\ p.size = produced[t] ELSE p = r
    BY <2>1, RewriteKeeps
  <2>3. \E r \in rows : SameRow(q, r)
    BY <2>1, <2>2, Zenon
  <2> QED
    BY <1>1, <2>3
<1>5. CASE rows' = rows
  BY <1>1, <1>5 DEF SameRow
<1> QED
  BY <1>2, <1>3, <1>4, <1>5, RowsOfTurn

(* What a turn holds stays settled while it, or another turn, moves on. *)
LEMMA StaysKeepsFacts ==
  ASSUME StepTypes, FactsInvs, NEW t \in Turns, TurnStep(t), muddled = {}, RowsGrow,
         session = "present", NEW u \in Turns, Stays(u), TurnFacts(u)
  PROVE  TurnFacts(u)'
<1> USE DEF StepTypes
<1>1. /\ NextSequence \in Nat \ {0} /\ NextSequence' \in Nat \ {0} /\ NextSequence <= NextSequence'
      /\ (\A r \in rows : r.seq \in Nat) /\ (\A r \in rows' : r.seq \in Nat)
  BY NextIsAbove, NextIsAboveAfter DEF TypeInv, RowsGrow
<1>2. asked[u] \in Nat /\ context[u] \in [summary : RowType \cup {None}, recent : SUBSET RowType]
  BY DEF TypeInv, TurnsTyped, ContextsTyped
<1>3. ASSUME pc'[u] \in AfterAsk, NEW r \in rows', r.seq < asked'[u]
      PROVE  pc'[r.turn] \in Ended
  <2>1. asked[u] < NextSequence /\ asked'[u] = asked[u] /\ pc[u] \in AfterAsk
    BY <1>3 DEF Stays, FactsInvs, ContextInv, TurnContext
  <2>2. ~ (r.seq >= NextSequence)
    BY <1>1, <1>2, <1>3, <2>1
  <2>3. PICK q \in rows : SameRow(r, q)
    BY <2>2 DEF RowsGrow
  <2>4. pc[q.turn] \in Ended /\ q.turn \in Turns /\ q.turn = r.turn
    BY <1>3, <2>1, <2>3 DEF TurnFacts, SameRow, TypeInv, RowsTyped, RowType
  <2> QED
    BY <2>4, EndedKept
<1>4. ASSUME pc'[u] \in Compacts \cup {"recent"}, context'[u].summary # None,
             NEW f \in context'[u].summary.covers
      PROVE  SettledFact(f, NextSequence)'
  <2>1. f \in context[u].summary.covers /\ f \in FactType /\ SettledFact(f, NextSequence)
    BY <1>2, <1>4 DEF Stays, TurnFacts, RowType
  <2>2. \A k \in Nat : k < NextSequence => k < NextSequence'
    BY <1>1
  <2> QED
    BY <2>1, <2>2, SettledKept DEF SettledFact
<1>5. ASSUME pc'[u] \in Compacts, NEW q \in context'[u].recent
      PROVE  q \in rows' /\ pc'[q.turn] \in Ended
  <2>1. q \in rows /\ pc[q.turn] \in Ended /\ q.turn \in Turns
    BY <1>2, <1>5 DEF Stays, TurnFacts, RowType
  <2> QED
    BY <2>1, EndedKept, OthersRowsKept
<1> QED
  BY <1>3, <1>4, <1>5 DEF TurnFacts

(* What goes into a new summary is settled. *)
LEMMA NewSummarySettled ==
  ASSUME TypeInv, FactsInvs, NEW t \in Turns, muddled = {}, pc[t] = "insert", Insertable(t),
         NEW f \in NewSummary(t).covers
  PROVE  f \in FactType /\ SettledFact(f, NextSequence)
<1> DEFINE recent == context[t].recent
           summary == context[t].summary
           tail == TailStart(recent)
           old == {s \in {summary} : s # None}
           compacted == {q \in recent : q.seq < tail}
           covers == UNION {Facts(q) : q \in compacted \cup old}
<1>1. NewSummary(t).covers = covers /\ NewSummary(t) \in RowType
  BY NewSummaryTyped DEF NewSummary, Row
<1>2. /\ pc[t] \in Compacts /\ session = "present"
      /\ recent \in SUBSET RowType /\ (summary # None => summary.kind = "summary")
  BY DEF TypeInv, ContextsTyped, Compacts, Insertable
<1>3. /\ \A q \in recent : q \in rows /\ pc[q.turn] \in Ended
      /\ summary # None => \A g \in summary.covers : SettledFact(g, NextSequence)
  BY <1>2 DEF FactsInvs, FactsInv, TurnFacts
<1>4. f \in FactType
  BY <1>1 DEF RowType
<1>5. PICK q \in compacted \cup old : f \in Facts(q)
  BY <1>1
<1>6. CASE q \in old
  <2>1. q = summary /\ summary # None /\ q.kind = "summary"
    BY <1>2, <1>6
  <2>2. f \in summary.covers
    BY <1>5, <2>1 DEF Facts
  <2> QED
    BY <1>3, <1>4, <2>1, <2>2
<1>7. CASE q \in recent
  <2>1. q \in rows /\ pc[q.turn] \in Ended /\ q.seq < NextSequence /\ q.seq \in Nat
        /\ NextSequence \in Nat
    BY <1>3, <1>7, NextIsAbove DEF TypeInv
  <2>2. CASE q.kind = "summary"
    <3>1. f \in q.covers /\ q \in Summaries
      BY <1>5, <2>1, <2>2 DEF Facts, Summaries
    <3>2. SettledFact(f, q.seq)
      BY <3>1 DEF FactsInvs, FactsInv
    <3>3. PICK r \in rows : r.turn = f.turn /\ r.kind = f.kind /\ r.size = f.size /\ r.seq < q.seq
      BY <3>2 DEF SettledFact
    <3>4. r.seq < NextSequence
      BY NextIsAbove DEF TypeInv
    <3> QED
      BY <1>4, <2>1, <3>2, <3>3, <3>4 DEF SettledFact
  <2>3. CASE q.kind # "summary"
    <3>1. f = [turn |-> q.turn, kind |-> q.kind, size |-> q.size]
      BY <1>5, <2>3 DEF Facts
    <3>2. f.turn = q.turn /\ f.kind = q.kind /\ f.size = q.size
      BY <3>1
    <3> QED
      BY <1>4, <2>1, <3>2 DEF SettledFact
  <2> QED
    BY <2>2, <2>3
<1> QED
  BY <1>4, <1>5, <1>6, <1>7

LEMMA TurnKeepsFacts ==
  ASSUME StepTypes, FactsInvs, NEW t \in Turns, TurnStep(t), muddled' = {}
  PROVE  /\ \A s \in Summaries' : \A f \in s.covers : SettledFact(f, s.seq)'
         /\ session' = "present" => \A u \in Turns : TurnFacts(u)'
<1> USE DEF StepTypes
<1>1. RowsGrow /\ muddled = {}
  <2>1. muddled = {}
    BY RowsOfTurn DEF AppendInserts, SummaryInserts, Stores
  <2> QED
    BY <2>1, RowsGrowInTurn DEF FactsInvs
<1>2. /\ RowsHaveTurns /\ \A s \in Summaries : \A f \in s.covers : SettledFact(f, s.seq)
      /\ session = "present" => \A u \in Turns : TurnFacts(u)
  BY <1>1 DEF FactsInvs, FactsInv
<1>3. /\ NextSequence \in Nat \ {0} /\ \A r \in rows : r.seq \in Nat /\ r.seq < NextSequence
      /\ NextSequence' \in Nat \ {0} /\ \A r \in rows' : r.seq \in Nat /\ r.seq < NextSequence'
  BY NextIsAbove, NextIsAboveAfter DEF TypeInv
<1>4. ASSUME NEW s \in Summaries', NEW f \in s.covers PROVE SettledFact(f, s.seq)'
  <2>1. CASE \E q \in Summaries : SameRow(s, q)
    <3>1. PICK q \in Summaries : SameRow(s, q)
      BY <2>1
    <3>2. f \in FactType /\ SettledFact(f, s.seq)
      BY <1>2, <3>1 DEF SameRow, Summaries, TypeInv, RowsTyped, RowType
    <3> QED
      BY <3>2, SettledKept DEF SettledFact
  <2>2. CASE SummaryInserts(t) /\ s = NewSummary(t)
    <3>1. pc[t] = "insert" /\ Insertable(t)
      BY <2>2 DEF SummaryInserts
    <3>2. f \in FactType /\ SettledFact(f, NextSequence)
      BY <1>1, <2>2, <3>1, NewSummarySettled
    <3>3. s.seq = NextSequence
      BY <1>1, <2>2, <3>1, NewSummaryTyped, InsertsNext DEF FactsInvs
    <3> QED
      BY <3>2, <3>3, SettledKept DEF SettledFact
  <2> QED
    BY <2>1, <2>2, SummariesOfStep
<1>5. ASSUME NEW u \in Turns, Stays(u), session = "present" PROVE TurnFacts(u)'
  BY <1>1, <1>2, <1>5, StaysKeepsFacts
<1>6. ASSUME session' = "present" PROVE TurnFacts(t)'
  <2>1. CASE AppendInserts(t)
    <3>1. /\ pc'[t] \in {"title", "register"} /\ asked'[t] = seqRead[t]
          /\ pc[t] = "append" /\ Insertable(t)
          /\ \A u \in Turns \ {t} : ~ HoldsReads(u)
      BY <2>1 DEF AppendInserts, Goto, TypeInv, TurnsTyped
    <3>2. seqRead[t] = NextSequence
      BY <1>1, <3>1, InsertsNext DEF FactsInvs
    <3>3. ASSUME NEW r \in rows', r.seq < asked'[t] PROVE pc'[r.turn] \in Ended
      <4>1. PICK last \in Nat :
              rows' = rows \cup {Question(seqRead[t], t), Answer(last + 1, t, 0)}
              /\ seqRead[t] \in Nat /\ seqRead[t] <= last
        BY <2>1, MessagesInserted
      <4>2. Question(seqRead[t], t).seq = seqRead[t] /\ Answer(last + 1, t, 0).seq = last + 1
        BY DEF Question, Answer, Row
      <4>3. r \in rows
        <5> DEFINE n == seqRead[t]
        <5>1. n \in Nat /\ ~ (n < n) /\ ~ (last + 1 < n)
          BY <4>1
        <5> QED
          BY <3>1, <3>3, <4>1, <4>2, <5>1
      <4>4. r.turn \in Turns /\ pc[r.turn] \notin {"idle", "open", "ready", "append"}
        BY <1>2, <4>3 DEF RowsHaveTurns, TypeInv, RowsTyped, RowType
      <4>5. r.turn # t /\ pc[r.turn] \in Places
        BY <3>1, <4>4 DEF TypeInv, TurnsTyped
      <4>6. pc[r.turn] \in Ended
        BY <3>1, <4>4, <4>5 DEF HoldsReads, Places, Running, Opening
      <4> QED
        BY <4>4, <4>6, EndedKept
    <3> QED
      BY <3>1, <3>3 DEF TurnFacts, Compacts
  <2>2. CASE LoadSummary(t)
    <3>1. /\ rows' = rows /\ session = "present" /\ asked' = asked /\ pc'[t] = "recent"
          /\ context'[t].summary = LatestSummary /\ pc[t] \in AfterAsk
      BY <1>6, <2>2 DEF LoadSummary, Goto, dbVars, TypeInv, TurnsTyped, ContextsTyped, AfterAsk,
        Generating
    <3>2. ASSUME NEW r \in rows', r.seq < asked'[t] PROVE pc'[r.turn] \in Ended
      <4>1. pc[r.turn] \in Ended /\ r.turn \in Turns
        BY <1>2, <3>1, <3>2 DEF TurnFacts, TypeInv, RowsTyped, RowType
      <4> QED
        BY <4>1, EndedKept
    <3>3. ASSUME context'[t].summary # None, NEW f \in context'[t].summary.covers
          PROVE  SettledFact(f, NextSequence)'
      <4>1. LatestSummary \in Summaries /\ LatestSummary \in rows
        BY <3>1, <3>3, LatestIsSummary DEF Summaries, TypeInv
      <4>2. f \in FactType /\ SettledFact(f, LatestSummary.seq)
        BY <1>2, <3>1, <3>3, <4>1 DEF TypeInv, RowsTyped, RowType
      <4>3. \A k \in Nat : k < LatestSummary.seq => k < NextSequence'
        <5>1. LatestSummary \in rows' /\ LatestSummary.seq \in Nat /\ LatestSummary.seq < NextSequence'
          BY <1>3, <3>1, <4>1
        <5> QED
          BY <1>3, <5>1
      <4> QED
        BY <4>2, <4>3, SettledKept DEF SettledFact
    <3> QED
      BY <3>1, <3>2, <3>3 DEF TurnFacts, Compacts
  <2>3. CASE ContextLoads(t)
    <3> DEFINE summary == context[t].summary
    <3>1. /\ context'[t].summary = summary /\ context'[t].recent = RecentOf(t, summary)
          /\ pc[t] \in {"recent", "reload"} /\ (pc'[t] \in Compacts \cup {"recent"} => pc[t] = "recent")
          /\ rows' = rows /\ session = "present" /\ asked' = asked
      BY <1>6, <2>3 DEF ContextLoads, TypeInv, ContextsTyped, Compacts
    <3>2. TurnFacts(t) /\ pc[t] \in AfterAsk
      BY <1>2, <3>1 DEF AfterAsk, Generating
    <3>3. ASSUME NEW r \in rows', r.seq < asked'[t] PROVE r.turn \in Turns /\ pc'[r.turn] \in Ended
      <4>1. pc[r.turn] \in Ended /\ r.turn \in Turns
        BY <3>1, <3>2, <3>3 DEF TurnFacts, TypeInv, RowsTyped, RowType
      <4> QED
        BY <4>1, EndedKept
    <3>4. ASSUME pc'[t] \in Compacts \cup {"recent"}, summary # None, NEW f \in summary.covers
          PROVE  SettledFact(f, NextSequence)'
      <4>1. f \in FactType /\ SettledFact(f, NextSequence)
        BY <3>1, <3>2, <3>4 DEF TurnFacts, TypeInv, ContextsTyped, RowType
      <4>2. NextSequence' = NextSequence
        BY <3>1 DEF NextSequence
      <4> QED
        BY <4>1, <4>2, SettledKept DEF SettledFact
    <3>5. \A q \in RecentOf(t, summary) : q \in rows' /\ q.seq < asked'[t]
      BY <3>1 DEF RecentOf
    <3> QED
      BY <3>1, <3>3, <3>4, <3>5 DEF TurnFacts
  <2>4. CASE SummaryInserts(t)
    <3>1. /\ rows' = rows \cup {NewSummary(t)} /\ session = "present" /\ pc'[t] = "reload"
          /\ pc[t] = "insert" /\ Insertable(t) /\ asked'[t] = asked[t] /\ pc[t] \in AfterAsk
      BY <2>4 DEF SummaryInserts, Insertable, Goto, TypeInv, TurnsTyped, AfterAsk, Generating
    <3>2. NewSummary(t).seq = NextSequence
      BY <1>1, <3>1, NewSummaryTyped, InsertsNext DEF FactsInvs
    <3>3. asked[t] < NextSequence /\ asked[t] \in Nat
      BY <1>1, <3>1 DEF FactsInvs, ContextInv, TurnContext, TypeInv, TurnsTyped
    <3>4. ASSUME NEW r \in rows', r.seq < asked'[t] PROVE pc'[r.turn] \in Ended
      <4>1. r \in rows
        <5>1. ~ (NextSequence < asked[t])
          BY <1>3, <3>3
        <5> QED
          BY <3>1, <3>2, <3>4, <5>1
      <4>2. pc[r.turn] \in Ended /\ r.turn \in Turns
        BY <1>2, <3>1, <3>4, <4>1 DEF TurnFacts, TypeInv, RowsTyped, RowType
      <4> QED
        BY <4>2, EndedKept
    <3> QED
      BY <3>1, <3>4 DEF TurnFacts, Compacts
  <2>5. CASE pc'[t] \notin AfterAsk
    <3>1. pc'[t] \notin Compacts \cup {"recent"}
      BY <2>5 DEF AfterAsk, Generating, Compacts
    <3> QED
      BY <2>5, <3>1 DEF TurnFacts
  <2>6. CASE Stays(t)
    <3>1. CASE session = "present"
      BY <1>5, <2>6, <3>1
    <3>2. CASE session # "present"
      <4>1. OpenSession(t)
        BY <1>6, <3>2, RowsOfTurn DEF AppendInserts, SummaryInserts, Stores
      <4>2. pc'[t] = "ready"
        BY <4>1, PlaceMoves
      <4> QED
        BY <4>2 DEF TurnFacts, AfterAsk, Generating, Compacts
    <3> QED
      BY <3>1, <3>2
  <2> QED
    BY <2>1, <2>2, <2>3, <2>4, <2>5, <2>6, ContextMoves
<1>7. ASSUME NEW u \in Turns, u # t, session' = "present" PROVE TurnFacts(u)'
  <2>1. CASE pc'[u] \in AfterAsk
    <3>1. session = "present"
      BY <1>7, <2>1, OpensOnlyNew
    <3>2. Stays(u)
      BY <1>7, TurnIsOwn DEF OthersKept, Stays
    <3> QED
      BY <1>5, <3>1, <3>2
  <2>2. CASE pc'[u] \notin AfterAsk
    <3>1. pc'[u] \notin Compacts \cup {"recent"}
      BY <2>2 DEF AfterAsk, Generating, Compacts
    <3> QED
      BY <2>2, <3>1 DEF TurnFacts
  <2> QED
    BY <2>1, <2>2
<1> QED
  BY <1>4, <1>6, <1>7

LEMMA RequestKeepsFacts ==
  ASSUME StepTypes, FactsInv, RequestStep
  PROVE  FactsInv'
<1> USE DEF StepTypes
<1>1. /\ \A t \in Turns : pc'[t] = pc[t] \/ (pc[t] \in Running /\ pc'[t] = "gone")
                          \/ (pc[t] = "idle" /\ pc'[t] = "open")
      /\ rows' \subseteq rows
      /\ session' = session \/ (session = "present" /\ session' = "deleted")
  BY RequestMoves
<1>2. \A t \in Turns : pc[t] \in Ended => pc'[t] \in Ended
  BY <1>1 DEF Ended, Running, Opening, Generating
<1>3. \A r \in rows : r.turn \in Turns /\ r.seq \in Nat
  BY DEF TypeInv, RowsTyped, RowType
<1>4. RowsHaveTurns'
  BY <1>1, <1>3 DEF FactsInv, RowsHaveTurns
<1> SUFFICES ASSUME muddled' = {}
             PROVE  /\ \A s \in Summaries' : \A f \in s.covers : SettledFact(f, s.seq)'
                    /\ session' = "present" => \A u \in Turns : TurnFacts(u)'
  BY <1>4 DEF FactsInv
<1>5. /\ muddled = {} /\ RowsHaveTurns
      /\ \A s \in Summaries : \A f \in s.covers : SettledFact(f, s.seq)
      /\ session = "present" => \A u \in Turns : TurnFacts(u)
  BY DEF FactsInv, RequestStep, Request, Cancel, ClientLeaves, Revert, DeleteSession, Restart
<1>6. \A s \in Summaries : s.covers \in SUBSET FactType
  BY DEF Summaries, TypeInv, RowsTyped, RowType
<1>7. ASSUME rows' = rows, session' = session,
             NEW u \in Turns, pc'[u] \in AfterAsk => pc'[u] = pc[u] /\ asked'[u] = asked[u]
                                                     /\ context'[u] = context[u]
      PROVE  session' = "present" => TurnFacts(u)'
  <2> SUFFICES ASSUME session = "present", pc'[u] \in AfterAsk PROVE TurnFacts(u)'
    <3>1. pc'[u] \in Compacts \cup {"recent"} => pc'[u] \in AfterAsk
      BY DEF AfterAsk, Generating, Compacts
    <3> QED
      BY <1>7, <3>1 DEF TurnFacts
  <2>1. NextSequence' = NextSequence
    BY <1>7 DEF NextSequence
  <2>2. TurnFacts(u) /\ pc'[u] = pc[u] /\ asked'[u] = asked[u] /\ context'[u] = context[u]
    BY <1>5, <1>7
  <2>3. context[u].summary # None => context[u].summary.covers \in SUBSET FactType
    BY DEF TypeInv, ContextsTyped, RowType
  <2>4. ASSUME NEW f \in FactType, SettledFact(f, NextSequence) PROVE SettledFact(f, NextSequence)'
    BY <1>2, <1>7, <2>1, <2>4 DEF SettledFact, FactType
  <2>5. context[u].recent \in SUBSET RowType
    BY DEF TypeInv, ContextsTyped
  <2> QED
    BY <1>2, <1>3, <1>7, <2>2, <2>3, <2>4, <2>5 DEF TurnFacts, RowType
<1>8. ASSUME rows' = rows PROVE \A s \in Summaries' : \A f \in s.covers : SettledFact(f, s.seq)'
  BY <1>2, <1>5, <1>6, <1>8 DEF Summaries, SettledFact, FactType
<1>9. ASSUME NEW t \in Turns, NEW new \in BOOLEAN, Request(t, new), NEW u \in Turns
      PROVE  rows' = rows /\ session' = session
             /\ (pc'[u] \in AfterAsk => pc'[u] = pc[u] /\ asked'[u] = asked[u]
                                        /\ context'[u] = context[u])
  <2>1. pc' = [pc EXCEPT ![t] = "open"] /\ asked' = asked /\ context' = context
        /\ rows' = rows /\ session' = session
    BY <1>9 DEF Request, Goto, dbVars
  <2> QED
    BY <2>1 DEF TypeInv, TurnsTyped, AfterAsk, Generating
<1>10. ASSUME NEW t \in Turns, Cancel(t) \/ ClientLeaves(t)
       PROVE  rows' = rows /\ session' = session /\ pc' = pc /\ asked' = asked /\ context' = context
  BY <1>10 DEF Cancel, ClientLeaves, dbVars, turnVars
<1>11. ASSUME Restart, NEW u \in Turns
       PROVE  rows' = rows /\ session' = session /\ pc'[u] \notin AfterAsk
  BY <1>11 DEF Restart, dbVars, AfterAsk, Generating, Running, Opening
<1>12. ASSUME NEW x \in rows, Revert(x)
       PROVE  /\ \A s \in Summaries' : \A f \in s.covers : SettledFact(f, s.seq)'
              /\ \A u \in Turns : TurnFacts(u)'
  <2>1. /\ rows' = {q \in rows : q.seq < x.seq} /\ pc' = pc
        /\ \A u \in Turns : ~ HoldsReads(u)
    BY <1>12 DEF Revert, turnVars
  <2>2. ASSUME NEW s \in Summaries', NEW f \in s.covers PROVE SettledFact(f, s.seq)'
    <3>1. s \in Summaries /\ s.seq < x.seq /\ s.seq \in Nat /\ x.seq \in Nat
      BY <1>3, <2>1 DEF Summaries
    <3>2. PICK r \in rows : r.turn = f.turn /\ r.kind = f.kind /\ r.size = f.size /\ r.seq < s.seq
      BY <1>5, <2>2, <3>1 DEF SettledFact
    <3>3. r \in rows'
      BY <1>3, <2>1, <3>1, <3>2
    <3>4. pc'[f.turn] \in Ended
      BY <1>5, <2>1, <2>2, <3>1 DEF SettledFact
    <3> QED
      BY <1>4, <2>1, <3>2, <3>3, <3>4 DEF SettledFact
  <2>3. \A u \in Turns : pc'[u] \notin AfterAsk /\ pc'[u] \notin Compacts \cup {"recent"}
    BY <2>1 DEF HoldsReads, AfterAsk, Generating, Compacts
  <2> QED
    BY <2>2, <2>3 DEF TurnFacts
<1>13. CASE DeleteSession
  BY <1>13 DEF DeleteSession, Summaries
<1>14. ASSUME NEW t \in Turns, NEW new \in BOOLEAN, Request(t, new)
       PROVE  /\ \A s \in Summaries' : \A f \in s.covers : SettledFact(f, s.seq)'
              /\ session' = "present" => \A u \in Turns : TurnFacts(u)'
  BY <1>7, <1>8, <1>9, <1>14
<1>15. ASSUME NEW t \in Turns, Cancel(t) \/ ClientLeaves(t)
       PROVE  /\ \A s \in Summaries' : \A f \in s.covers : SettledFact(f, s.seq)'
              /\ session' = "present" => \A u \in Turns : TurnFacts(u)'
  BY <1>7, <1>8, <1>10, <1>15
<1>16. ASSUME Restart
       PROVE  /\ \A s \in Summaries' : \A f \in s.covers : SettledFact(f, s.seq)'
              /\ session' = "present" => \A u \in Turns : TurnFacts(u)'
  <2>1. rows' = rows /\ session' = session
    BY <1>16 DEF Restart, dbVars
  <2> QED
    BY <1>7, <1>8, <1>11, <1>16, <2>1
<1> QED
  BY <1>12, <1>13, <1>14, <1>15, <1>16 DEF RequestStep

LEMMA FactsKept ==
  StepTypes /\ FactsInvs /\ [Next]_vars => FactsInv'
<1> SUFFICES ASSUME StepTypes, FactsInvs, [Next]_vars PROVE FactsInv'
  OBVIOUS
<1>1. ASSUME NEW t \in Turns, TurnStep(t) PROVE FactsInv'
  <2>1. RowsHaveTurns'
    BY <1>1, TurnKeepsRowsOfTurns DEF FactsInvs, FactsInv, StepTypes
  <2> QED
    BY <1>1, <2>1, TurnKeepsFacts DEF FactsInv
<1>2. CASE UNCHANGED vars
  <2>1. NextSequence' = NextSequence /\ Summaries' = Summaries
    BY <1>2 DEF vars, NextSequence, Summaries
  <2> QED
    BY <1>2, <2>1 DEF vars, FactsInvs, FactsInv, RowsHaveTurns, TurnFacts, SettledFact
<1> QED
  BY <1>1, <1>2, RequestKeepsFacts DEF Next, FactsInvs

LEMMA InitFacts == Init => FactsInv
<1> SUFFICES ASSUME Init PROVE FactsInv
  OBVIOUS
<1>1. Summaries = {}
  <2>1. PICK order \in {<<>>, Past}, sizes \in [PastTurns -> 0..MaxChunks] :
          rows = PastRows(order, sizes)
    BY DEF Init
  <2>2. \A r \in rows : r.kind # "summary"
    BY <2>1, PastRowsShape DEF Question, Answer, Row
  <2> QED
    BY <2>2 DEF Summaries
<1>2. TypeInv
  BY InitTyped
<1>3. RowsHaveTurns
  BY <1>2 DEF Init, RowsHaveTurns, TypeInv, RowsTyped, RowType
<1>4. \A t \in Turns : pc[t] \in {"done", "idle"}
  BY DEF Init
<1>5. \A t \in Turns : TurnFacts(t)
  BY <1>4 DEF TurnFacts, AfterAsk, Generating, Compacts
<1> QED
  BY <1>1, <1>3, <1>5 DEF FactsInv

(* The invariant of the facts: with the contexts', no turn summarises what is *)
(* still being written unless it met another turn.                           *)
LEMMA FactsAlways == Spec => [](TypeInv /\ SessionInv /\ TimelineInv /\ ContextInv /\ FactsInv)
<1>1. /\ TypeInv /\ TypeInv' /\ SessionInv /\ SessionInv' /\ TimelineInv /\ ContextInv /\ FactsInv
      /\ [Next]_vars
      => FactsInv'
  BY FactsKept DEF StepTypes, FactsInvs
<1> QED
  BY <1>1, InitFacts, ContextAlways, PTL DEF Spec

(* What a stored summary says is what is stored, as long as no turn met      *)
(* another or a revert: a compaction reads only answers nobody writes any    *)
(* more, and a revert takes a summary along with what it is made of.         *)
THEOREM SummariesAreTrue == Spec => []SummaryMatchesRows
<1>1. FactsInv => SummaryMatchesRows
  BY DEF FactsInv, SettledFact, SummaryMatchesRows
<1> QED
  BY <1>1, FactsAlways, PTL

-----------------------------------------------------------------------------
(* What a client is told.  A step of a turn tells its client at most one     *)
(* event; where the turn is says which events the client has seen.           *)

Before == Running \ ({"stream"} \cup Storing)

Says(t, e) == connected[t] /\ e \in EventType /\ sent'[t] = sent[t] \o <<e>>

EndsQuietly(t) ==
  sent'[t] = sent[t] /\ pc'[t] \in Ended /\ (connected[t] => pc'[t] \notin {"done", "cancelled"})

MovesQuietly(t) ==
  /\ sent'[t] = sent[t] /\ pc'[t] \in Running \ {"open"} /\ (pc'[t] \in Before => pc[t] \in Before)
  /\ connected[t] =>
       /\ pc[t] # "open"
       /\ pc'[t] \in Generating => pc[t] \in Generating
       /\ pc'[t] \in {"check", "stream"} /\ t \in RagTurns => pc[t] \in {"check", "stream"}
       /\ pc'[t] \in {"stream", "store"} => \/ pc[t] = "stream" /\ produced'[t] = produced[t]
                                            \/ pc[t] = "check" /\ produced'[t] = 0
       /\ pc'[t] = "cancelling" => pc[t] = "stream" /\ produced'[t] = produced[t] + 1

TellsStart(t) ==
  \E e \in EventType :
    /\ Says(t, e)
    /\ \/ pc[t] = "open" /\ pc'[t] = "ready" /\ e.event = "session_ready"
       \/ pc[t] = "title" /\ pc'[t] = "register" /\ e.event = "session_title_updated"
       \/ pc[t] = "register" /\ pc'[t] = "load" /\ e.event = "generation_start"
       \/ pc[t] = "retrieve" /\ pc'[t] = "check" /\ e.event = "rag_ready"

TellsChunk(t) ==
  /\ pc[t] = "stream" /\ pc'[t] = "stream" /\ t \notin cancelled
  /\ Says(t, Event("delta", 1)) /\ produced'[t] = produced[t] + 1

TellsEnd(t) ==
  /\ pc[t] \in Generating
  /\ \/ pc'[t] = "error" /\ Says(t, Event("error", 0))
     \/ pc[t] = "check" /\ pc'[t] = "cancelled" /\ rows' = rows /\ Says(t, Event("cancelled", 0))
     \/ /\ pc[t] = "cancelling" /\ pc'[t] = "cancelled" /\ Says(t, Event("cancelled", 1))
        /\ rows' = Rewrite(AnswerOf(t), produced[t])
     \/ /\ pc[t] = "store" /\ pc'[t] = "done" /\ Says(t, Event("message_done", produced[t]))
        /\ rows' = Rewrite(AnswerOf(t), produced[t])

Tells(t) == EndsQuietly(t) \/ MovesQuietly(t) \/ TellsStart(t) \/ TellsChunk(t) \/ TellsEnd(t)

LEMMA YieldSays ==
  ASSUME TypeInv, NEW t \in Turns, NEW e \in EventType, Yield(t, <<e>>)
  PROVE  IF connected[t] THEN Says(t, e) ELSE sent'[t] = sent[t]
  BY DEF Yield, Says, TypeInv, StreamsTyped

LEMMA EventsTyped ==
  /\ \A n \in Nat : /\ Event("generation_start", n) \in EventType
                    /\ Event("message_done", n) \in EventType
  /\ Event("session_ready", 0) \in EventType /\ Event("session_title_updated", 0) \in EventType
  /\ Event("rag_ready", 0) \in EventType /\ Event("delta", 1) \in EventType
  /\ Event("cancelled", 0) \in EventType /\ Event("cancelled", 1) \in EventType
  /\ Event("error", 0) \in EventType
  BY DEF Event, EventType

LEMMA TurnRaisesTells ==
  ASSUME TypeInv, NEW t \in Turns, TurnRaises(t), pc[t] \in Generating
  PROVE  Tells(t)
<1>1. CASE produced[t] > 0
  <2>1. pc[t] \in {"stream"} \cup Storing /\ pc'[t] = "failing" /\ sent' = sent
    BY <1>1 DEF TurnRaises, Goto, TypeInv, TurnsTyped
  <2>2. MovesQuietly(t)
    BY <2>1 DEF MovesQuietly, Before, Running, Generating, Storing
  <2> QED
    BY <2>2 DEF Tells
<1>2. CASE ~ (produced[t] > 0)
  <2>1. pc'[t] = "error" /\ Yield(t, <<Event("error", 0)>>)
    BY <1>2, EndTurnEnds DEF TurnRaises
  <2>2. IF connected[t] THEN Says(t, Event("error", 0)) ELSE sent'[t] = sent[t]
    BY <2>1, YieldSays, EventsTyped
  <2> QED
    BY <2>1, <2>2 DEF Tells, EndsQuietly, TellsEnd, Ended
<1> QED
  BY <1>1, <1>2

LEMMA OpeningTells ==
  ASSUME TypeInv, NEW t \in Turns, OpeningStep(t)
  PROVE  Tells(t)
<1>1. ASSUME NEW e \in EventType, Yield(t, <<e>>),
             \/ pc[t] = "open" /\ pc'[t] = "ready" /\ e.event = "session_ready"
             \/ pc[t] = "title" /\ pc'[t] = "register" /\ e.event = "session_title_updated"
             \/ pc[t] = "register" /\ pc'[t] = "load" /\ e.event = "generation_start"
      PROVE  Tells(t)
  <2>1. CASE connected[t]
    <3>1. TellsStart(t)
      BY <1>1, <2>1, YieldSays DEF TellsStart
    <3> QED
      BY <3>1 DEF Tells
  <2>2. CASE ~ connected[t]
    <3>1. sent'[t] = sent[t]
      BY <1>1, <2>2, YieldSays
    <3>2. MovesQuietly(t)
      BY <1>1, <2>2, <3>1 DEF MovesQuietly, Before, Running, Generating, Storing, Opening
    <3> QED
      BY <3>2 DEF Tells
  <2> QED
    BY <2>1, <2>2
<1>2. CASE OpenSession(t)
  <2>1. pc[t] = "open" /\ pc'[t] = "ready" /\ Yield(t, <<Event("session_ready", 0)>>)
    BY <1>2 DEF OpenSession, Goto, TypeInv, TurnsTyped
  <2>2. Event("session_ready", 0).event = "session_ready"
    BY DEF Event
  <2> QED
    BY <1>1, <2>1, <2>2, EventsTyped
<1>3. CASE OpenFails(t) \/ AppendFails(t)
  BY <1>3, EndTurnEnds DEF OpenFails, AppendFails, Breaks, netVars, Tells, EndsQuietly, Ended
<1>4. CASE AppendReads(t) \/ AppendInserts(t)
  <2>1. MovesQuietly(t)
    BY <1>4 DEF AppendReads, AppendInserts, Goto, netVars, TypeInv, TurnsTyped, MovesQuietly, Before,
      Running, Generating, Storing, Opening
  <2> QED
    BY <2>1 DEF Tells
<1>5. CASE TitleEnds(t)
  <2>1. PICK ok \in BOOLEAN :
          Yield(t, IF ok THEN <<Event("session_title_updated", 0)>> ELSE <<>>)
    BY <1>5 DEF TitleEnds
  <2>2. pc[t] = "title" /\ pc'[t] = "register"
    BY <1>5 DEF TitleEnds, Goto, TypeInv, TurnsTyped
  <2>3. CASE ok
    <3>1. Event("session_title_updated", 0).event = "session_title_updated"
      BY DEF Event
    <3> QED
      BY <1>1, <2>1, <2>2, <2>3, <3>1, EventsTyped
  <2>4. CASE ~ ok
    <3>1. sent[t] \o <<>> = sent[t]
      BY ConcatEmptySeq DEF TypeInv, StreamsTyped
    <3>2. sent'[t] = sent[t]
      BY <2>1, <2>4, <3>1 DEF Yield, TypeInv, StreamsTyped
    <3>3. MovesQuietly(t)
      BY <2>2, <3>2 DEF MovesQuietly, Before, Running, Generating, Storing, Opening
    <3> QED
      BY <3>3 DEF Tells
  <2> QED
    BY <2>3, <2>4
<1>6. CASE Register(t)
  <2>1. /\ pc[t] = "register" /\ pc'[t] = "load" /\ asked[t] \in Nat
        /\ Yield(t, <<Event("generation_start", asked[t])>>)
    BY <1>6 DEF Register, Goto, TypeInv, TurnsTyped
  <2>2. Event("generation_start", asked[t]).event = "generation_start"
    BY DEF Event
  <2> QED
    BY <1>1, <2>1, <2>2, EventsTyped
<1> QED
  BY <1>2, <1>3, <1>4, <1>5, <1>6 DEF OpeningStep

LEMMA ContextTells ==
  ASSUME TypeInv, NEW t \in Turns, ContextStep(t)
  PROVE  Tells(t)
<1>1. CASE LoadSummary(t) \/ SummaryReads(t) \/ SummaryInserts(t) \/ Reload(t) \/ StartStream(t)
  <2>1. MovesQuietly(t)
    BY <1>1 DEF LoadSummary, SummaryReads, SummaryInserts, Reload, StartStream, AfterContext, Unmoved,
      Goto, netVars, TypeInv, TurnsTyped, MovesQuietly, Before, Running, Generating, Storing
  <2> QED
    BY <2>1 DEF Tells
<1>2. CASE LoadRecent(t)
  <2>1. CASE TurnRaises(t)
    BY <1>2, <2>1, TurnRaisesTells DEF LoadRecent, Generating
  <2>2. CASE ~ TurnRaises(t)
    <3>1. MovesQuietly(t)
      BY <1>2, <2>2 DEF LoadRecent, AfterContext, Goto, netVars, TypeInv, TurnsTyped, MovesQuietly,
        Before, Running, Generating, Storing
    <3> QED
      BY <3>1 DEF Tells
  <2> QED
    BY <2>1, <2>2
<1>3. CASE Retrieve(t)
  <2>1. pc[t] = "retrieve" /\ pc'[t] = "check" /\ Yield(t, <<Event("rag_ready", 0)>>)
    BY <1>3 DEF Retrieve, Goto, TypeInv, TurnsTyped
  <2>2. IF connected[t] THEN Says(t, Event("rag_ready", 0)) ELSE sent'[t] = sent[t]
    BY <2>1, YieldSays, EventsTyped
  <2>3. CASE connected[t]
    <3>1. Event("rag_ready", 0) \in EventType /\ Event("rag_ready", 0).event = "rag_ready"
      BY EventsTyped DEF Event
    <3>2. TellsStart(t)
      BY <2>1, <2>2, <2>3, <3>1 DEF TellsStart
    <3> QED
      BY <3>2 DEF Tells
  <2>4. CASE ~ connected[t]
    <3>1. MovesQuietly(t)
      BY <2>1, <2>2, <2>4 DEF MovesQuietly, Before, Running, Generating, Storing
    <3> QED
      BY <3>1 DEF Tells
  <2> QED
    BY <2>3, <2>4
<1>4. CASE CancelledInContext(t)
  <2>1. /\ pc[t] = "check" /\ pc'[t] = "cancelled" /\ rows' = rows
        /\ Yield(t, <<Event("cancelled", 0)>>)
    BY <1>4, EndTurnEnds DEF CancelledInContext, dbVars
  <2>2. IF connected[t] THEN Says(t, Event("cancelled", 0)) ELSE sent'[t] = sent[t]
    BY <2>1, YieldSays, EventsTyped
  <2> QED
    BY <2>1, <2>2 DEF Tells, EndsQuietly, TellsEnd, Ended, Generating
<1> QED
  BY <1>1, <1>2, <1>3, <1>4 DEF ContextStep

LEMMA AnswerTells ==
  ASSUME TypeInv, NEW t \in Turns, AnswerStep(t)
  PROVE  Tells(t)
<1>1. CASE Chunk(t)
  <2>1. CASE t \in cancelled
    <3>1. MovesQuietly(t)
      BY <1>1, <2>1 DEF Chunk, Goto, TypeInv, TurnsTyped, MovesQuietly, Before, Running, Generating,
        Storing
    <3> QED
      BY <3>1 DEF Tells
  <2>2. CASE t \notin cancelled
    <3>1. /\ pc[t] = "stream" /\ pc'[t] = "stream" /\ Yield(t, <<Event("delta", 1)>>)
          /\ produced'[t] = produced[t] + 1
      BY <1>1, <2>2 DEF Chunk, TypeInv, TurnsTyped
    <3>2. IF connected[t] THEN Says(t, Event("delta", 1)) ELSE sent'[t] = sent[t]
      BY <3>1, YieldSays, EventsTyped
    <3>3. CASE connected[t]
      BY <2>2, <3>1, <3>2, <3>3 DEF Tells, TellsChunk
    <3>4. CASE ~ connected[t]
      <4>1. MovesQuietly(t)
        BY <3>1, <3>2, <3>4 DEF MovesQuietly, Before, Running, Generating, Storing
      <4> QED
        BY <4>1 DEF Tells
    <3> QED
      BY <3>3, <3>4
  <2> QED
    BY <2>1, <2>2
<1>2. CASE StreamEnds(t)
  <2>1. MovesQuietly(t)
    BY <1>2 DEF StreamEnds, Goto, Unmoved, netVars, TypeInv, TurnsTyped, MovesQuietly, Before, Running,
      Generating, Storing
  <2> QED
    BY <2>1 DEF Tells
<1>3. ASSUME NEW how \in {"done", "cancelled", "error"}, NEW e \in EventType, EndTurn(t, how),
             Yield(t, <<e>>), pc[t] \in Generating,
             \/ how = "error" /\ e = Event("error", 0)
             \/ /\ pc[t] = "cancelling" /\ how = "cancelled" /\ e = Event("cancelled", 1)
                /\ rows' = Rewrite(AnswerOf(t), produced[t])
             \/ /\ pc[t] = "store" /\ how = "done" /\ e = Event("message_done", produced[t])
                /\ rows' = Rewrite(AnswerOf(t), produced[t])
      PROVE  Tells(t)
  <2>1. pc'[t] = how
    BY <1>3, EndTurnEnds
  <2>2. IF connected[t] THEN Says(t, e) ELSE sent'[t] = sent[t]
    BY <1>3, YieldSays
  <2>3. CASE connected[t]
    <3>1. Says(t, e)
      BY <2>2, <2>3
    <3>2. TellsEnd(t)
      BY <1>3, <2>1, <3>1 DEF TellsEnd
    <3> QED
      BY <3>2 DEF Tells
  <2>4. CASE ~ connected[t]
    <3>1. how \in Ended
      BY DEF Ended
    <3> QED
      BY <2>1, <2>2, <2>4, <3>1 DEF Tells, EndsQuietly
  <2> QED
    BY <2>3, <2>4
<1>4. CASE StoreCancelled(t)
  BY <1>3, <1>4, EventsTyped DEF StoreCancelled, StoreAndEnd, Generating
<1>5. CASE StoreAnswer(t)
  <2>1. Event("message_done", produced[t]) \in EventType
    BY EventsTyped DEF TypeInv, TurnsTyped
  <2> QED
    BY <1>3, <1>5, <2>1 DEF StoreAnswer, StoreAndEnd, Generating
<1>6. CASE Fails(t)
  BY <1>6, TurnRaisesTells DEF Fails, Generating
<1>7. CASE StoreFailed(t)
  BY <1>3, <1>7, EventsTyped DEF StoreFailed, Generating
<1>8. CASE Interrupted(t)
  <2>1. CASE EndTurn(t, "gone")
    BY <1>8, <2>1, EndTurnEnds DEF Interrupted, netVars, Tells, EndsQuietly, Ended
  <2>2. CASE ~ EndTurn(t, "gone")
    <3>1. /\ ~ connected[t] /\ pc'[t] = "interrupting" /\ sent' = sent
      BY <1>8, <2>2 DEF Interrupted, Goto, netVars, TypeInv, TurnsTyped
    <3>2. MovesQuietly(t)
      BY <3>1 DEF MovesQuietly, Before, Running, Generating, Storing
    <3> QED
      BY <3>2 DEF Tells
  <2> QED
    BY <2>1, <2>2
<1>9. CASE StoreInterrupted(t)
  BY <1>9, EndTurnEnds DEF StoreInterrupted, netVars, Tells, EndsQuietly, Ended
<1> QED
  BY <1>1, <1>2, <1>4, <1>5, <1>6, <1>7, <1>8, <1>9 DEF AnswerStep

(* A turn's step tells its client at most one event. *)
LEMMA TurnTells ==
  ASSUME TypeInv, NEW t \in Turns, TurnStep(t)
  PROVE  Tells(t) /\ connected'[t] = connected[t]
<1>1. Tells(t)
  BY OpeningTells, ContextTells, AnswerTells DEF TurnStep
<1>2. connected' = connected
  BY DEF TurnStep, OpeningStep, ContextStep, AnswerStep, OpenSession, OpenFails, AppendReads,
    AppendInserts, AppendFails, Breaks, TitleEnds, Register, LoadSummary, LoadRecent, SummaryReads,
    SummaryInserts, Reload, Retrieve, CancelledInContext, StartStream, Chunk, StreamEnds,
    StoreCancelled, StoreAnswer, StoreAndEnd, Fails, TurnRaises, StoreFailed, Interrupted,
    StoreInterrupted, netVars
<1> QED
  BY <1>1, <1>2

(* Where a turn is says what its client has been told. *)
Has(t, names) == \E i \in DOMAIN sent[t] : sent[t][i].event \in names

(* The order of the events of one stream. *)
InOrder(s, t) ==
  \A i \in DOMAIN s :
    /\ (s[i].event = "session_ready") = (i = 1)
    /\ \A j \in 1..(i - 1) : s[j].event \notin Closing
    /\ s[i].event \in {"delta", "message_done"} =>
         \E j \in 1..(i - 1) : s[j].event = "generation_start"
    /\ s[i].event = "delta" /\ t \in RagTurns => \E j \in 1..(i - 1) : s[j].event = "rag_ready"

TurnStream(t) ==
  /\ pc[t] \in {"idle", "open"} => sent[t] = <<>>
  /\ t \in registered => pc[t] \in Generating
  /\ pc[t] \in Running => ~ Has(t, Closing)
  /\ connected[t] /\ pc[t] \in Running \ {"open"} => sent[t] # <<>>
  /\ connected[t] /\ pc[t] \in Generating => Has(t, {"generation_start"})
  /\ connected[t] /\ pc[t] \in {"check", "stream"} /\ t \in RagTurns => Has(t, {"rag_ready"})
  /\ InOrder(sent[t], t)

StreamInv == \A t \in Turns : TurnStream(t)

(* What was told of an answer, against what is stored of it. *)
TurnAnswer(t) ==
  /\ pc[t] \in Before => \A r \in AnswerOf(t) : r.size = 0
  /\ connected[t] /\ pc[t] \in Before => Told(t) = 0
  /\ connected[t] /\ pc[t] \in {"stream", "store"} => produced[t] = Told(t)
  /\ connected[t] /\ pc[t] = "cancelling" => produced[t] = Told(t) + 1
  /\ connected[t] /\ pc[t] \in {"done", "cancelled"} =>
       /\ \A r \in AnswerOf(t) : r.size = Told(t)
       /\ pc[t] = "done" => sent[t][Len(sent[t])] = Event("message_done", Told(t))

AnswerInv == \A t \in Turns : TurnAnswer(t)

(* One more event. *)
LEMMA OneMoreEvent ==
  ASSUME NEW s \in Seq(EventType), NEW e \in EventType
  PROVE  /\ s \o <<e>> \in Seq(EventType) /\ Len(s) \in Nat
         /\ Len(s \o <<e>>) = Len(s) + 1 /\ DOMAIN (s \o <<e>>) = 1..(Len(s) + 1)
         /\ \A i \in 1..Len(s) : (s \o <<e>>)[i] = s[i]
         /\ (s \o <<e>>)[Len(s) + 1] = e
<1>1. <<e>> \in Seq(EventType) /\ Len(<<e>>) = 1 /\ <<e>>[1] = e
  OBVIOUS
<1>2. Len(s) \in Nat
  OBVIOUS
<1>3. s \o <<e>> \in Seq(EventType) /\ Len(s \o <<e>>) = Len(s) + 1
  BY <1>1, ConcatProperties
<1>4. \A i \in 1..Len(s) : (s \o <<e>>)[i] = s[i]
  BY <1>1, ConcatProperties
<1>5. (s \o <<e>>)[Len(s) + 1] = e
  OBVIOUS
<1> QED
  BY <1>2, <1>3, <1>4, <1>5

Counted(e) == e.event \in {"delta", "cancelled"} /\ e.value = 1
CountedIn(s) == {i \in DOMAIN s : Counted(s[i])}

LEMMA CountedFinite ==
  ASSUME NEW s \in Seq(EventType)
  PROVE  IsFiniteSet(CountedIn(s)) /\ Cardinality(CountedIn(s)) \in Nat
<1>1. DOMAIN s = 1..Len(s) /\ Len(s) \in Nat
  OBVIOUS
<1>2. IsFiniteSet(1..Len(s))
  BY <1>1, FS_Interval
<1>3. IsFiniteSet(CountedIn(s))
  BY <1>1, <1>2, FS_Subset DEF CountedIn
<1> QED
  BY <1>3, FS_CardinalityType

(* An event counts as one chunk told, or as none. *)
LEMMA CountOneMore ==
  ASSUME NEW s \in Seq(EventType), NEW e \in EventType
  PROVE  Cardinality(CountedIn(s \o <<e>>))
           = IF Counted(e) THEN Cardinality(CountedIn(s)) + 1 ELSE Cardinality(CountedIn(s))
<1> DEFINE n == Len(s) + 1
           z == s \o <<e>>
<1>1. /\ Len(s) \in Nat /\ DOMAIN z = 1..n /\ z[n] = e /\ \A i \in 1..Len(s) : z[i] = s[i]
  BY OneMoreEvent
<1>2. DOMAIN s = 1..Len(s)
  OBVIOUS
<1>3. n \notin CountedIn(s) /\ \A i \in 1..n : i = n \/ i \in 1..Len(s)
  BY <1>1, <1>2 DEF CountedIn
<1>4. \A i \in 1..Len(s) : i \in 1..n /\ i # n
  BY <1>1
<1>5. n \in 1..n
  BY <1>1
<1> HIDE DEF n, z
<1>6. CASE Counted(e)
  <2>1. CountedIn(z) = CountedIn(s) \cup {n}
    BY <1>1, <1>2, <1>3, <1>4, <1>5, <1>6 DEF CountedIn
  <2>2. Cardinality(CountedIn(s) \cup {n}) = Cardinality(CountedIn(s)) + 1
    BY <1>3, CountedFinite, FS_AddElement
  <2> QED
    BY <1>6, <2>1, <2>2 DEF z
<1>7. CASE ~ Counted(e)
  <2>1. CountedIn(z) = CountedIn(s)
    BY <1>1, <1>2, <1>3, <1>4, <1>7 DEF CountedIn
  <2> QED
    BY <1>7, <2>1 DEF z
<1> QED
  BY <1>6, <1>7

LEMMA ToldIsCount == ASSUME NEW t PROVE Told(t) = Cardinality(CountedIn(sent[t]))
  BY DEF Told, CountedIn, Counted

LEMMA ToldIsCountAfter == ASSUME NEW t PROVE Told(t)' = Cardinality(CountedIn(sent'[t]))
  BY DEF Told, CountedIn, Counted

(* What is told with an event, and what without. *)
LEMMA ToldMoves ==
  ASSUME TypeInv, NEW t \in Turns
  PROVE  /\ Told(t) \in Nat
         /\ sent'[t] = sent[t] => Told(t)' = Told(t)
         /\ \A e \in EventType : sent'[t] = sent[t] \o <<e>> =>
              Told(t)' = IF Counted(e) THEN Told(t) + 1 ELSE Told(t)
<1>1. sent[t] \in Seq(EventType)
  BY DEF TypeInv, StreamsTyped
<1>2. Told(t) \in Nat
  BY <1>1, ToldIsCount, CountedFinite
<1>3. ASSUME sent'[t] = sent[t] PROVE Told(t)' = Told(t)
  BY <1>3, ToldIsCount, ToldIsCountAfter
<1>4. ASSUME NEW e \in EventType, sent'[t] = sent[t] \o <<e>>
      PROVE  Told(t)' = IF Counted(e) THEN Told(t) + 1 ELSE Told(t)
  BY <1>1, <1>4, ToldIsCount, ToldIsCountAfter, CountOneMore
<1> QED
  BY <1>2, <1>3, <1>4

LEMMA HasMoves ==
  ASSUME TypeInv, NEW t \in Turns, NEW e \in EventType, sent'[t] = sent[t] \o <<e>>, NEW names
  PROVE  Has(t, names)' <=> Has(t, names) \/ e.event \in names
<1> DEFINE s == sent[t]
           n == Len(s) + 1
<1>1. s \in Seq(EventType)
  BY DEF TypeInv, StreamsTyped
<1>2. /\ Len(s) \in Nat /\ DOMAIN sent'[t] = 1..n /\ sent'[t][n] = e
      /\ \A i \in 1..Len(s) : sent'[t][i] = s[i]
  BY <1>1, OneMoreEvent
<1>3. DOMAIN s = 1..Len(s)
  BY <1>1
<1>4. n \in 1..n /\ (\A i \in 1..n : i = n \/ i \in 1..Len(s)) /\ \A i \in 1..Len(s) : i \in 1..n
  BY <1>2
<1> HIDE DEF n
<1> QED
  BY <1>2, <1>3, <1>4 DEF Has

(* An event may come next when what must precede it has been told.           *)
LEMMA OrderGrows ==
  ASSUME TypeInv, NEW t \in Turns, NEW e \in EventType, sent'[t] = sent[t] \o <<e>>,
         InOrder(sent[t], t), ~ Has(t, Closing),
         (e.event = "session_ready") = (sent[t] = <<>>),
         e.event \in {"delta", "message_done"} => Has(t, {"generation_start"}),
         e.event = "delta" /\ t \in RagTurns => Has(t, {"rag_ready"})
  PROVE  InOrder(sent'[t], t)
<1> DEFINE s == sent[t]
           n == Len(s) + 1
           z == sent'[t]
<1>1. s \in Seq(EventType)
  BY DEF TypeInv, StreamsTyped
<1>2. /\ Len(s) \in Nat /\ DOMAIN z = 1..n /\ z[n] = e
      /\ \A i \in 1..Len(s) : z[i] = s[i]
  BY <1>1, OneMoreEvent
<1>3. DOMAIN s = 1..Len(s) /\ (s = <<>>) = (n = 1)
  BY <1>1, <1>2
<1>4. /\ 1..(n - 1) = 1..Len(s)
      /\ \A i \in 1..n : i = n \/ i \in 1..Len(s)
      /\ \A i \in 1..Len(s) : \A j \in 1..(i - 1) : j \in 1..Len(s)
  BY <1>2
<1>5. /\ \A j \in 1..Len(s) : s[j].event \notin Closing
      /\ e.event \in {"delta", "message_done"} => \E j \in 1..Len(s) : s[j].event = "generation_start"
      /\ e.event = "delta" /\ t \in RagTurns => \E j \in 1..Len(s) : s[j].event = "rag_ready"
  BY <1>3 DEF Has
<1> HIDE DEF n, z
<1> SUFFICES ASSUME NEW i \in 1..n
             PROVE  /\ (z[i].event = "session_ready") = (i = 1)
                    /\ \A j \in 1..(i - 1) : z[j].event \notin Closing
                    /\ z[i].event \in {"delta", "message_done"} =>
                         \E j \in 1..(i - 1) : z[j].event = "generation_start"
                    /\ z[i].event = "delta" /\ t \in RagTurns =>
                         \E j \in 1..(i - 1) : z[j].event = "rag_ready"
  BY <1>2 DEF InOrder, z
<1>6. CASE i = n
  <2>1. \A j \in 1..(n - 1) : z[j] = s[j]
    BY <1>2, <1>4
  <2> QED
    BY <1>2, <1>3, <1>4, <1>5, <1>6, <2>1
<1>7. CASE i \in 1..Len(s)
  <2>1. \A j \in 1..(i - 1) : z[j] = s[j]
    BY <1>2, <1>4, <1>7
  <2>2. z[i] = s[i] /\ i \in DOMAIN s
    BY <1>2, <1>3, <1>7
  <2>3. /\ (s[i].event = "session_ready") = (i = 1)
        /\ \A j \in 1..(i - 1) : s[j].event \notin Closing
        /\ s[i].event \in {"delta", "message_done"} =>
             \E j \in 1..(i - 1) : s[j].event = "generation_start"
        /\ s[i].event = "delta" /\ t \in RagTurns => \E j \in 1..(i - 1) : s[j].event = "rag_ready"
    BY <2>2 DEF InOrder
  <2> HIDE DEF s
  <2> QED
    BY <2>1, <2>2, <2>3
<1> QED
  BY <1>4, <1>6, <1>7

LEMMA QuietStream ==
  ASSUME NEW t, sent'[t] = sent[t]
  PROVE  /\ \A names : Has(t, names)' <=> Has(t, names)
         /\ InOrder(sent[t], t)' <=> InOrder(sent[t], t)
  BY DEF Has, InOrder, Closing

(* A generation is in the registry only while its turn generates. *)
LEMMA RegisteredMoves ==
  ASSUME TypeInv, NEW t \in Turns, TurnStep(t), t \in registered => pc[t] \in Generating,
         t \in registered'
  PROVE  pc'[t] \in Generating
<1>1. \A how : ~ EndTurn(t, how)
  BY DEF EndTurn
<1>2. CASE OpeningStep(t)
  BY <1>1, <1>2 DEF OpeningStep, OpenSession, OpenFails, AppendReads, AppendInserts, AppendFails,
    Breaks, TitleEnds, Register, Goto, genVars, TypeInv, TurnsTyped, Generating
<1>3. CASE TurnRaises(t)
  BY <1>1, <1>3 DEF TurnRaises, Goto, genVars, TypeInv, TurnsTyped, Generating
<1>4. CASE ContextStep(t)
  <2>1. ~ CancelledInContext(t)
    BY <1>1 DEF CancelledInContext
  <2>2. CASE ~ TurnRaises(t)
    BY <1>4, <2>1, <2>2 DEF ContextStep, LoadSummary, LoadRecent, SummaryReads, SummaryInserts, Reload,
      Retrieve, StartStream, AfterContext, Goto, TypeInv, TurnsTyped, Generating
  <2> QED
    BY <1>3, <2>2
<1>5. CASE AnswerStep(t)
  <2>1. ~ StoreCancelled(t) /\ ~ StoreAnswer(t) /\ ~ StoreFailed(t) /\ ~ StoreInterrupted(t)
    BY <1>1 DEF StoreCancelled, StoreAnswer, StoreAndEnd, StoreFailed, StoreInterrupted
  <2>2. CASE Chunk(t) \/ StreamEnds(t)
    BY <2>2 DEF Chunk, StreamEnds, Goto, TypeInv, TurnsTyped, Generating
  <2>3. CASE Interrupted(t)
    BY <1>1, <2>3 DEF Interrupted, Goto, TypeInv, TurnsTyped, Generating
  <2> QED
    BY <1>3, <1>5, <2>1, <2>2, <2>3 DEF AnswerStep, Fails
<1> QED
  BY <1>2, <1>4, <1>5 DEF TurnStep

LEMMA TurnKeepsStream ==
  ASSUME TypeInv, NEW t \in Turns, TurnStep(t), TurnStream(t)
  PROVE  TurnStream(t)'
<1>1. Tells(t) /\ connected'[t] = connected[t] /\ pc[t] \in Running /\ connected[t] \in BOOLEAN
  BY TurnTells, PlaceMoves DEF TypeInv, StreamsTyped
<1>2. t \in registered' => pc'[t] \in Generating
  BY RegisteredMoves DEF TurnStream
<1>3. sent[t] \in Seq(EventType)
  BY DEF TypeInv, StreamsTyped
<1>4. Ended \cap (Running \cup {"idle", "open"}) = {} /\ Generating \subseteq Running
      /\ {"check", "stream"} \subseteq Generating
  BY DEF Ended, Running, Opening, Generating
<1>5. CASE EndsQuietly(t)
  BY <1>1, <1>2, <1>4, <1>5, QuietStream DEF EndsQuietly, TurnStream
<1>6. CASE MovesQuietly(t)
  <2>1. /\ sent'[t] = sent[t] /\ pc'[t] \in Running \ {"open"}
        /\ connected[t] =>
             /\ pc[t] # "open"
             /\ pc'[t] \in Generating => pc[t] \in Generating
             /\ pc'[t] \in {"check", "stream"} /\ t \in RagTurns => pc[t] \in {"check", "stream"}
    BY <1>6 DEF MovesQuietly
  <2>2. pc'[t] \notin {"idle", "open"}
    BY <2>1 DEF Running, Opening, Generating
  <2> QED
    BY <1>1, <1>2, <2>1, <2>2, QuietStream DEF TurnStream
<1>7. CASE TellsStart(t)
  <2>1. PICK e \in EventType :
          /\ connected[t] /\ sent'[t] = sent[t] \o <<e>>
          /\ \/ pc[t] = "open" /\ pc'[t] = "ready" /\ e.event = "session_ready"
             \/ pc[t] = "title" /\ pc'[t] = "register" /\ e.event = "session_title_updated"
             \/ pc[t] = "register" /\ pc'[t] = "load" /\ e.event = "generation_start"
             \/ pc[t] = "retrieve" /\ pc'[t] = "check" /\ e.event = "rag_ready"
    BY <1>7 DEF TellsStart, Says
  <2>2. \A names : Has(t, names)' <=> Has(t, names) \/ e.event \in names
    BY <2>1, HasMoves
  <2>3. e.event \notin Closing \cup {"delta", "message_done"}
    BY <2>1 DEF Closing
  <2>4. (e.event = "session_ready") = (sent[t] = <<>>)
    BY <1>1, <2>1 DEF TurnStream, Running, Opening, Generating
  <2>5. ~ Has(t, Closing) /\ InOrder(sent[t], t)
    BY <1>1 DEF TurnStream
  <2>6. InOrder(sent'[t], t)
    BY <2>1, <2>3, <2>4, <2>5, OrderGrows
  <2>7. sent'[t] # <<>>
    BY <1>3, <2>1, OneMoreEvent
  <2>8. connected[t] /\ pc'[t] \in Generating => Has(t, {"generation_start"})'
    BY <2>1, <2>2 DEF TurnStream, Generating
  <2>9. pc'[t] \in {"check", "stream"} => Has(t, {"rag_ready"})'
    BY <2>1, <2>2
  <2>10. pc'[t] \notin {"idle", "open"}
    BY <2>1
  <2> QED
    BY <1>1, <1>2, <2>2, <2>3, <2>5, <2>6, <2>7, <2>8, <2>9, <2>10 DEF TurnStream, InOrder, Closing
<1>8. CASE TellsChunk(t)
  <2> DEFINE e == Event("delta", 1)
  <2>1. e \in EventType /\ e.event = "delta" /\ sent'[t] = sent[t] \o <<e>> /\ connected[t]
        /\ pc[t] = "stream" /\ pc'[t] = "stream"
    BY <1>8 DEF TellsChunk, Says, Event
  <2>2. /\ ~ Has(t, Closing) /\ InOrder(sent[t], t) /\ sent[t] # <<>> /\ Has(t, {"generation_start"})
        /\ t \in RagTurns => Has(t, {"rag_ready"})
    BY <1>1, <2>1 DEF TurnStream, Generating
  <2> HIDE DEF e
  <2>3. InOrder(sent'[t], t)
    BY <2>1, <2>2, OrderGrows
  <2>4. \A names : Has(t, names)' <=> Has(t, names) \/ e.event \in names
    BY <2>1, HasMoves
  <2>5. sent'[t] # <<>>
    BY <1>3, <2>1, OneMoreEvent
  <2>6. ~ Has(t, Closing)' /\ Has(t, {"generation_start"})' /\ (t \in RagTurns => Has(t, {"rag_ready"})')
    BY <2>1, <2>2, <2>4 DEF Closing
  <2> QED
    BY <1>1, <1>2, <2>1, <2>3, <2>5, <2>6 DEF TurnStream, InOrder, Closing
<1>9. CASE TellsEnd(t)
  <2>1. PICK e \in EventType :
          /\ connected[t] /\ sent'[t] = sent[t] \o <<e>> /\ pc[t] \in Generating /\ pc'[t] \in Ended
          /\ e.event \in {"message_done", "cancelled", "error"}
    BY <1>9 DEF TellsEnd, Says, Event, Ended
  <2>2. /\ ~ Has(t, Closing) /\ InOrder(sent[t], t) /\ sent[t] # <<>> /\ Has(t, {"generation_start"})
    BY <1>1, <1>4, <2>1 DEF TurnStream, Generating
  <2>3. InOrder(sent'[t], t)
    BY <2>1, <2>2, OrderGrows
  <2>4. pc'[t] \notin Running /\ pc'[t] \notin {"idle", "open"} /\ pc'[t] \notin Generating
        /\ pc'[t] \notin {"check", "stream"}
    BY <1>4, <2>1
  <2> QED
    BY <1>2, <2>3, <2>4 DEF TurnStream, InOrder, Closing
<1> QED
  BY <1>1, <1>5, <1>6, <1>7, <1>8, <1>9 DEF Tells

LEMMA OthersKeepStream ==
  ASSUME NEW u, TurnStream(u), pc'[u] = pc[u], sent'[u] = sent[u],
         u \in registered' => u \in registered, connected'[u] => connected[u]
  PROVE  TurnStream(u)'
  BY QuietStream DEF TurnStream

LEMMA RequestKeepsStream ==
  ASSUME TypeInv, StreamInv, RequestStep
  PROVE  StreamInv'
<1> SUFFICES ASSUME NEW u \in Turns PROVE TurnStream(u)'
  BY DEF StreamInv
<1>1. TurnStream(u)
  BY DEF StreamInv
<1>2. ASSUME NEW t \in Turns, NEW new \in BOOLEAN, Request(t, new) PROVE TurnStream(u)'
  <2>1. CASE u = t
    <3>1. /\ pc[u] = "idle" /\ pc'[u] = "open" /\ sent'[u] = sent[u] /\ registered' = registered
      BY <1>2, <2>1 DEF Request, Goto, genVars, TypeInv, TurnsTyped
    <3>2. sent'[u] = <<>> /\ u \notin registered'
      BY <1>1, <3>1 DEF TurnStream, Generating
    <3> QED
      BY <3>1, <3>2 DEF TurnStream, Has, InOrder, Generating
  <2>2. CASE u # t
    <3>1. /\ pc'[u] = pc[u] /\ sent'[u] = sent[u] /\ registered' = registered
          /\ connected'[u] = connected[u]
      BY <1>2, <2>2 DEF Request, Goto, genVars, TypeInv, TurnsTyped, StreamsTyped
    <3> QED
      BY <1>1, <3>1, OthersKeepStream
  <2> QED
    BY <2>1, <2>2
<1>3. ASSUME NEW t \in Turns, Cancel(t) PROVE TurnStream(u)'
  BY <1>1, <1>3, OthersKeepStream DEF Cancel, turnVars, netVars
<1>4. ASSUME NEW t \in Turns, ClientLeaves(t) PROVE TurnStream(u)'
  BY <1>1, <1>4, OthersKeepStream DEF ClientLeaves, turnVars, genVars, TypeInv, StreamsTyped
<1>5. ASSUME NEW r \in rows, Revert(r) PROVE TurnStream(u)'
  BY <1>1, <1>5, OthersKeepStream DEF Revert, turnVars, genVars, netVars
<1>6. CASE DeleteSession
  BY <1>1, <1>6, OthersKeepStream DEF DeleteSession, turnVars, genVars, netVars
<1>7. CASE Restart
  <2>1. /\ sent' = sent /\ registered' = {}
        /\ pc'[u] = IF pc[u] \in Running THEN "gone" ELSE pc[u]
        /\ connected'[u] => connected[u]
    BY <1>7 DEF Restart
  <2>2. CASE pc[u] \in Running
    <3>1. pc'[u] = "gone"
      BY <2>1, <2>2
    <3> QED
      BY <1>1, <2>1, <3>1, QuietStream DEF TurnStream, Running, Opening, Generating
  <2>3. CASE pc[u] \notin Running
    <3>1. pc'[u] = pc[u]
      BY <2>1, <2>3
    <3> QED
      BY <1>1, <2>1, <3>1, OthersKeepStream
  <2> QED
    BY <2>2, <2>3
<1> QED
  BY <1>2, <1>3, <1>4, <1>5, <1>6, <1>7 DEF RequestStep

LEMMA StreamKept == TypeInv /\ StreamInv /\ [Next]_vars => StreamInv'
<1> SUFFICES ASSUME TypeInv, StreamInv, [Next]_vars PROVE StreamInv'
  OBVIOUS
<1>1. ASSUME NEW t \in Turns, TurnStep(t), NEW u \in Turns PROVE TurnStream(u)'
  <2>1. CASE u = t
    BY <1>1, <2>1, TurnKeepsStream DEF StreamInv
  <2>2. CASE u # t
    BY <1>1, <2>2, TurnIsOwn, OthersKeepStream DEF StreamInv, OthersKept
  <2> QED
    BY <2>1, <2>2
<1>2. CASE UNCHANGED vars
  BY <1>2 DEF vars, StreamInv, TurnStream, Has, InOrder, Closing
<1> QED
  BY <1>1, <1>2, RequestKeepsStream DEF Next, StreamInv

LEMMA InitStream == Init => StreamInv
<1> SUFFICES ASSUME Init, NEW t \in Turns PROVE TurnStream(t)
  BY DEF StreamInv
<1>1. sent[t] = <<>> /\ registered = {} /\ pc[t] \in {"done", "idle"} /\ connected[t] = FALSE
  BY DEF Init
<1> QED
  BY <1>1 DEF TurnStream, Has, InOrder, Running, Opening, Generating

LEMMA StreamAlways == Spec => [](TypeInv /\ StreamInv)
<1> QED
  BY InitStream, StreamKept, TypesAreKept, PTL DEF Spec

(* The event contract of every stream, whatever fails or is cancelled in it: *)
(* session_ready first, generation_start and the RAG snapshot before any     *)
(* text, one closing event, and none while a cancel is still accepted.       *)
THEOREM StreamsKeepTheContract == Spec => []StreamContract
<1>1. TypeInv /\ StreamInv => StreamContract
  <2> SUFFICES ASSUME TypeInv, StreamInv, NEW t \in Turns, NEW i \in DOMAIN sent[t]
               PROVE  LET before == {sent[t][j].event : j \in 1..(i - 1)}
                          event  == sent[t][i].event
                      IN  /\ (event = "session_ready") = (i = 1)
                          /\ before \cap Closing = {}
                          /\ event \in {"delta", "message_done"} => "generation_start" \in before
                          /\ event = "delta" /\ t \in RagTurns => "rag_ready" \in before
                          /\ event \in Closing => t \notin registered
    BY DEF StreamContract
  <2>1. TurnStream(t)
    BY DEF StreamInv
  <2>2. sent[t][i].event \in Closing => t \notin registered
    BY <2>1 DEF TurnStream, Has, Running
  <2>3. InOrder(sent[t], t)
    BY <2>1 DEF TurnStream
  <2> QED
    BY <2>2, <2>3 DEF InOrder
<1> QED
  BY <1>1, StreamAlways, PTL

(* Once a cancel is accepted the turn tells at most the chunk that comes with *)
(* the cancelled event, in any interleaving of the cancel with the stream.   *)
THEOREM CancelIsHeard == Spec => CancelHeard
<1>1. TypeInv /\ [Next]_vars => [\A t \in cancelled : Told(t)' > Told(t) => pc'[t] = "cancelled"]_vars
  <2> SUFFICES ASSUME TypeInv, Next, NEW t \in cancelled, Told(t)' > Told(t)
               PROVE  pc'[t] = "cancelled"
    OBVIOUS
  <2>1. t \in Turns
    BY DEF TypeInv, TurnsTyped
  <2>2. Told(t) \in Nat /\ ~ (Told(t) > Told(t)) /\ sent'[t] # sent[t]
    <3>1. Told(t) \in Nat /\ (sent'[t] = sent[t] => Told(t)' = Told(t))
      BY <2>1, ToldMoves
    <3> QED
      BY <3>1
  <2>3. TurnStep(t)
    <3>1. ~ RequestStep
      <4>1. RequestStep => sent' = sent
        BY DEF RequestStep, Request, Cancel, ClientLeaves, Revert, DeleteSession, Restart, netVars
      <4> QED
        BY <2>2, <4>1
    <3>2. PICK u \in Turns : TurnStep(u)
      BY <3>1 DEF Next
    <3>3. u # t => sent'[t] = sent[t]
      BY <2>1, <3>2, TurnIsOwn DEF OthersKept
    <3> QED
      BY <2>2, <3>2, <3>3
  <2>4. Tells(t)
    BY <2>1, <2>3, TurnTells
  <2>5. \A e \in EventType : sent'[t] = sent[t] \o <<e>> => Counted(e)
    BY <2>1, <2>2, ToldMoves
  <2>6. ~ EndsQuietly(t) /\ ~ MovesQuietly(t) /\ ~ TellsChunk(t)
    BY <2>2 DEF EndsQuietly, MovesQuietly, TellsChunk
  <2>7. ~ TellsStart(t)
    BY <2>5 DEF TellsStart, Says, Counted
  <2>8. TellsEnd(t)
    BY <2>4, <2>6, <2>7 DEF Tells
  <2> QED
    BY <2>5, <2>8 DEF TellsEnd, Says, Counted, Event
<1> QED
  BY <1>1, TypesAreKept, PTL DEF Spec, CancelHeard

(* The answer row of a turn is written by the turn alone. *)
LEMMA NewRowsOwn ==
  ASSUME TypeInv, NEW t \in Turns, TurnStep(t), NEW r \in rows', r.turn # t
  PROVE  r \in rows
<1>1. CASE AppendInserts(t)
  <2>1. PICK last \in Nat : rows' = rows \cup {Question(seqRead[t], t), Answer(last + 1, t, 0)}
    BY <1>1, MessagesInserted
  <2> QED
    BY <2>1 DEF Question, Answer, Row
<1>2. CASE SummaryInserts(t)
  <2>1. rows' = rows \cup {NewSummary(t)} /\ pc[t] = "insert"
    BY <1>2 DEF SummaryInserts
  <2>2. NewSummary(t).turn = t
    BY <2>1, NewSummaryTyped
  <2> QED
    BY <2>1, <2>2
<1>3. CASE Stores(t)
  <2> DEFINE S == AnswerOf(t)
  <2>1. rows' = Rewrite(S, produced[t]) /\ \A q \in S : q.turn = t
    BY <1>3 DEF AnswerOf, Stores
  <2> HIDE DEF S
  <2>2. \A q \in S : [q EXCEPT !.size = produced[t]].turn = t
    <3>1. S \in SUBSET RowType
      BY DEF S, AnswerOf, TypeInv, RowsTyped
    <3> QED
      BY <2>1, <3>1 DEF RowType
  <2> QED
    BY <2>1, <2>2 DEF Rewrite
<1>4. CASE rows' = rows
  BY <1>4
<1> QED
  BY <1>1, <1>2, <1>3, <1>4, RowsOfTurn

LEMMA StoredAnswer ==
  ASSUME TypeInv, NEW t \in Turns, rows' = Rewrite(AnswerOf(t), produced[t])
  PROVE  \A q \in AnswerOf(t)' : q.size = produced[t]
<1> DEFINE S == AnswerOf(t)
<1>1. \A r \in rows : r.turn = t /\ r.kind = "assistant" => r \in S
  BY DEF AnswerOf
<1> HIDE DEF S
<1>2. S \in SUBSET rows /\ produced[t] \in Nat /\ RowsTyped /\ rows' = Rewrite(S, produced[t])
  BY DEF S, TypeInv, TurnsTyped, AnswerOf
<1>3. \A q \in Rewrite(S, produced[t]) : \E r \in rows :
        /\ SameRow(q, r)
        /\ IF r \in S THEN q = [r EXCEPT !.size = produced[t]] /\ q.size = produced[t] ELSE q = r
  BY <1>2, RewriteKeeps
<1> SUFFICES ASSUME NEW q \in rows', q.turn = t, q.kind = "assistant" PROVE q.size = produced[t]
  BY DEF AnswerOf
<1>4. PICK r \in rows :
        /\ SameRow(q, r)
        /\ IF r \in S THEN q = [r EXCEPT !.size = produced[t]] /\ q.size = produced[t] ELSE q = r
  BY <1>2, <1>3, Zenon
<1>5. r \in S
  BY <1>1, <1>4 DEF SameRow
<1> QED
  BY <1>4, <1>5

LEMMA UnstoredAnswer ==
  ASSUME TypeInv, RowsHaveTurns, NEW t \in Turns, TurnStep(t), TurnAnswer(t), pc'[t] \in Before,
         pc[t] \in Before
  PROVE  \A r \in AnswerOf(t)' : r.size = 0
<1>1. \A r \in AnswerOf(t) : r.size = 0
  BY DEF TurnAnswer
<1>2. CASE AppendInserts(t)
  <2>1. PICK last \in Nat : rows' = rows \cup {Question(seqRead[t], t), Answer(last + 1, t, 0)}
    BY <1>2, MessagesInserted
  <2>2. pc[t] = "append"
    BY <1>2 DEF AppendInserts
  <2>3. \A r \in rows : r.turn # t
    BY <2>2 DEF RowsHaveTurns
  <2> QED
    BY <2>1, <2>3 DEF AnswerOf, Question, Answer, Row
<1>3. CASE SummaryInserts(t)
  <2>1. rows' = rows \cup {NewSummary(t)} /\ pc[t] = "insert"
    BY <1>3 DEF SummaryInserts
  <2>2. NewSummary(t).kind = "summary"
    BY <2>1, NewSummaryTyped
  <2> QED
    BY <1>1, <2>1, <2>2 DEF AnswerOf
<1>4. CASE Stores(t)
  BY <1>4 DEF Stores, Before
<1>5. CASE rows' = rows
  BY <1>1, <1>5 DEF AnswerOf
<1> QED
  BY <1>2, <1>3, <1>4, <1>5, RowsOfTurn

LEMMA LastEvent ==
  ASSUME TypeInv, NEW t \in Turns, NEW e \in EventType, sent'[t] = sent[t] \o <<e>>
  PROVE  sent'[t][Len(sent'[t])] = e
<1>1. sent[t] \in Seq(EventType)
  BY DEF TypeInv, StreamsTyped
<1> QED
  BY <1>1, OneMoreEvent

LEMMA TurnKeepsAnswer ==
  ASSUME TypeInv, StreamInv, RowsHaveTurns, NEW t \in Turns, TurnStep(t), TurnAnswer(t)
  PROVE  TurnAnswer(t)'
<1>1. Tells(t) /\ connected'[t] = connected[t] /\ pc[t] \in Running /\ produced[t] \in Nat
  BY TurnTells, PlaceMoves DEF TypeInv, TurnsTyped
<1>2. Told(t) \in Nat
  BY ToldMoves
<1>3. /\ {"stream", "store", "cancelling"} \cap Before = {} /\ Ended \cap Running = {}
      /\ Before \subseteq Running /\ {"stream", "store", "cancelling"} \subseteq Running
      /\ {"check"} \subseteq Before
      /\ {"stream", "store", "cancelling"} \cap {"done", "cancelled"} = {}
  BY DEF Before, Storing, Ended, Running, Opening, Generating
<1>4. CASE EndsQuietly(t)
  BY <1>1, <1>3, <1>4 DEF EndsQuietly, TurnAnswer
<1>5. CASE MovesQuietly(t)
  <2>1. Told(t)' = Told(t) /\ pc'[t] \in Running /\ pc'[t] \notin {"done", "cancelled"}
    BY <1>3, <1>5, ToldMoves DEF MovesQuietly, Ended
  <2>2. ASSUME pc'[t] \in Before
        PROVE  /\ \A r \in AnswerOf(t)' : r.size = 0
               /\ connected'[t] => Told(t)' = 0
    <3>1. pc[t] \in Before
      BY <1>5, <2>2 DEF MovesQuietly
    <3> QED
      BY <1>1, <2>1, <2>2, <3>1, UnstoredAnswer DEF TurnAnswer
  <2>3. ASSUME connected[t], pc'[t] \in {"stream", "store"} PROVE produced'[t] = Told(t)
    BY <1>3, <1>5, <2>3 DEF MovesQuietly, TurnAnswer
  <2>4. ASSUME connected[t], pc'[t] = "cancelling" PROVE produced'[t] = Told(t) + 1
    BY <1>5, <2>4 DEF MovesQuietly, TurnAnswer
  <2> QED
    BY <1>1, <2>1, <2>2, <2>3, <2>4 DEF TurnAnswer
<1>6. CASE TellsStart(t)
  <2>1. PICK e \in EventType :
          /\ connected[t] /\ sent'[t] = sent[t] \o <<e>> /\ ~ Counted(e)
          /\ pc[t] \in {"open", "title", "register", "retrieve"}
          /\ pc'[t] \in {"ready", "register", "load", "check"}
    BY <1>6 DEF TellsStart, Says, Counted
  <2>2. Told(t)' = Told(t)
    BY <2>1, ToldMoves
  <2>3. pc[t] \in Before /\ pc'[t] \in Before
    BY <2>1 DEF Before, Running, Opening, Generating, Storing
  <2>4. pc'[t] \notin {"stream", "store", "cancelling", "done", "cancelled"}
    BY <2>1
  <2> QED
    BY <1>1, <2>1, <2>2, <2>3, <2>4, UnstoredAnswer DEF TurnAnswer
<1>7. CASE TellsChunk(t)
  <2>1. /\ pc[t] = "stream" /\ pc'[t] = "stream" /\ connected[t] /\ produced'[t] = produced[t] + 1
        /\ sent'[t] = sent[t] \o <<Event("delta", 1)>> /\ Event("delta", 1) \in EventType
    BY <1>7 DEF TellsChunk, Says
  <2>2. Counted(Event("delta", 1))
    BY DEF Counted, Event
  <2>3. Told(t)' = Told(t) + 1
    BY <2>1, <2>2, ToldMoves
  <2> QED
    BY <1>3, <2>1, <2>3 DEF TurnAnswer
<1>8. CASE TellsEnd(t)
  <2>1. pc'[t] \in {"error", "cancelled", "done"} /\ pc'[t] \notin Before
    BY <1>8 DEF TellsEnd, Before, Running, Opening, Generating
  <2>2. CASE pc'[t] = "error"
    BY <2>1, <2>2 DEF TurnAnswer
  <2>3. CASE pc[t] = "check" /\ pc'[t] = "cancelled" /\ rows' = rows /\ Says(t, Event("cancelled", 0))
    <3>1. ~ Counted(Event("cancelled", 0))
      BY DEF Counted, Event
    <3>2. Told(t)' = Told(t) /\ connected[t]
      BY <2>3, <3>1, ToldMoves DEF Says
    <3>3. AnswerOf(t)' = AnswerOf(t)
      BY <2>3 DEF AnswerOf
    <3> QED
      BY <1>3, <2>1, <2>3, <3>2, <3>3 DEF TurnAnswer
  <2>4. CASE /\ pc[t] = "cancelling" /\ pc'[t] = "cancelled" /\ Says(t, Event("cancelled", 1))
             /\ rows' = Rewrite(AnswerOf(t), produced[t])
    <3>1. Counted(Event("cancelled", 1))
      BY DEF Counted, Event
    <3>2. Told(t)' = Told(t) + 1 /\ connected[t]
      BY <2>4, <3>1, ToldMoves DEF Says
    <3>3. \A q \in AnswerOf(t)' : q.size = produced[t]
      BY <2>4, StoredAnswer
    <3> QED
      BY <2>1, <2>4, <3>2, <3>3 DEF TurnAnswer
  <2>5. CASE /\ pc[t] = "store" /\ pc'[t] = "done" /\ Says(t, Event("message_done", produced[t]))
             /\ rows' = Rewrite(AnswerOf(t), produced[t])
    <3>1. ~ Counted(Event("message_done", produced[t]))
      BY DEF Counted, Event
    <3>2. Told(t)' = Told(t) /\ connected[t]
      BY <2>5, <3>1, ToldMoves DEF Says
    <3>3. \A q \in AnswerOf(t)' : q.size = produced[t]
      BY <2>5, StoredAnswer
    <3>4. sent'[t][Len(sent'[t])] = Event("message_done", produced[t])
      BY <2>5, LastEvent DEF Says
    <3>5. produced[t] = Told(t)
      BY <2>5, <3>2 DEF TurnAnswer
    <3> QED
      BY <2>1, <2>5, <3>2, <3>3, <3>4, <3>5 DEF TurnAnswer
  <2> QED
    BY <1>8, <2>2, <2>3, <2>4, <2>5 DEF TellsEnd
<1> QED
  BY <1>1, <1>4, <1>5, <1>6, <1>7, <1>8 DEF Tells

LEMMA OthersKeepAnswer ==
  ASSUME TypeInv, NEW u \in Turns, TurnAnswer(u), pc'[u] = pc[u], sent'[u] = sent[u],
         produced'[u] = produced[u], connected'[u] => connected[u],
         AnswerOf(u)' \subseteq AnswerOf(u)
  PROVE  TurnAnswer(u)'
<1>1. Told(u)' = Told(u)
  BY ToldMoves
<1> QED
  BY <1>1 DEF TurnAnswer

LEMMA RequestKeepsAnswer ==
  ASSUME TypeInv, StreamInv, RowsHaveTurns, AnswerInv, RequestStep
  PROVE  AnswerInv'
<1> SUFFICES ASSUME NEW u \in Turns PROVE TurnAnswer(u)'
  BY DEF AnswerInv
<1>1. TurnAnswer(u) /\ AnswerOf(u)' \subseteq AnswerOf(u)
  BY RequestMoves DEF AnswerInv, AnswerOf
<1>2. ASSUME NEW t \in Turns, NEW new \in BOOLEAN, Request(t, new) PROVE TurnAnswer(u)'
  <2>1. CASE u = t
    <3>1. pc[u] = "idle" /\ pc'[u] = "open" /\ sent'[u] = sent[u]
      BY <1>2, <2>1 DEF Request, Goto, TypeInv, TurnsTyped
    <3>2. sent'[u] = <<>>
      BY <3>1 DEF StreamInv, TurnStream
    <3>3. CountedIn(sent'[u]) = {}
      BY <3>2 DEF CountedIn
    <3>4. Told(u)' = 0
      BY <3>3, ToldIsCountAfter, FS_EmptySet
    <3>5. AnswerOf(u)' = {}
      BY <1>1, <3>1 DEF RowsHaveTurns, AnswerOf
    <3> QED
      BY <3>1, <3>4, <3>5 DEF TurnAnswer
  <2>2. CASE u # t
    <3>1. /\ pc'[u] = pc[u] /\ sent'[u] = sent[u] /\ produced' = produced
          /\ connected'[u] = connected[u]
      BY <1>2, <2>2 DEF Request, Goto, TypeInv, TurnsTyped, StreamsTyped
    <3> QED
      BY <1>1, <3>1, OthersKeepAnswer
  <2> QED
    BY <2>1, <2>2
<1>3. ASSUME NEW t \in Turns, Cancel(t) PROVE TurnAnswer(u)'
  BY <1>1, <1>3, OthersKeepAnswer DEF Cancel, turnVars, netVars
<1>4. ASSUME NEW t \in Turns, ClientLeaves(t) PROVE TurnAnswer(u)'
  BY <1>1, <1>4, OthersKeepAnswer DEF ClientLeaves, turnVars, TypeInv, StreamsTyped
<1>5. ASSUME NEW r \in rows, Revert(r) PROVE TurnAnswer(u)'
  BY <1>1, <1>5, OthersKeepAnswer DEF Revert, turnVars, netVars
<1>6. CASE DeleteSession
  BY <1>1, <1>6, OthersKeepAnswer DEF DeleteSession, turnVars, netVars
<1>7. CASE Restart
  <2>1. /\ sent' = sent /\ pc'[u] = IF pc[u] \in Running THEN "gone" ELSE pc[u]
        /\ connected'[u] => connected[u]
    BY <1>7 DEF Restart
  <2>2. CASE pc[u] \in Running
    <3>1. pc'[u] = "gone" /\ "gone" \notin Before
      BY <2>1, <2>2 DEF Before, Running, Opening, Generating
    <3> QED
      BY <3>1 DEF TurnAnswer
  <2>3. CASE pc[u] \notin Running
    <3>1. /\ pc'[u] = pc[u] /\ pc[u] \notin Before
          /\ pc[u] \notin {"stream", "store", "cancelling"}
      BY <2>1, <2>3 DEF Before, Running, Generating
    <3>2. Told(u)' = Told(u)
      BY <2>1, ToldMoves
    <3> QED
      BY <1>1, <2>1, <3>1, <3>2 DEF TurnAnswer
  <2> QED
    BY <2>2, <2>3
<1> QED
  BY <1>2, <1>3, <1>4, <1>5, <1>6, <1>7 DEF RequestStep

LEMMA AnswerInvKept ==
  TypeInv /\ StreamInv /\ RowsHaveTurns /\ AnswerInv /\ [Next]_vars => AnswerInv'
<1> SUFFICES ASSUME TypeInv, StreamInv, RowsHaveTurns, AnswerInv, [Next]_vars PROVE AnswerInv'
  OBVIOUS
<1>1. ASSUME NEW t \in Turns, TurnStep(t), NEW u \in Turns PROVE TurnAnswer(u)'
  <2>1. CASE u = t
    BY <1>1, <2>1, TurnKeepsAnswer DEF AnswerInv
  <2>2. CASE u # t
    <3>1. AnswerOf(u)' \subseteq AnswerOf(u)
      BY <1>1, <2>2, NewRowsOwn DEF AnswerOf
    <3> QED
      BY <1>1, <2>2, <3>1, TurnIsOwn, OthersKeepAnswer DEF AnswerInv, OthersKept
  <2> QED
    BY <2>1, <2>2
<1>2. CASE UNCHANGED vars
  <2> SUFFICES ASSUME NEW u \in Turns PROVE TurnAnswer(u)'
    BY DEF AnswerInv
  <2>1. AnswerOf(u)' \subseteq AnswerOf(u)
    BY <1>2 DEF vars, AnswerOf
  <2> QED
    BY <1>2, <2>1, OthersKeepAnswer DEF vars, AnswerInv
<1> QED
  BY <1>1, <1>2, RequestKeepsAnswer DEF Next, AnswerInv

LEMMA InitAnswer == Init => AnswerInv
<1> SUFFICES ASSUME Init, NEW t \in Turns PROVE TurnAnswer(t)
  BY DEF AnswerInv
<1>1. pc[t] \in {"done", "idle"} /\ connected[t] = FALSE
  BY DEF Init
<1> QED
  BY <1>1 DEF TurnAnswer, Before, Running, Opening, Generating

(* An answer told to its end is the answer stored, a cancelled one included, *)
(* for any number of chunks and whatever else happens to the session: the    *)
(* handlers store what was produced before they tell the closing event.      *)
THEOREM AnswersAreKept == Spec => []AnswerKept
<1>1. AnswerInv => AnswerKept
  BY DEF AnswerInv, TurnAnswer, AnswerKept
<1>2. TypeInv /\ StreamInv /\ FactsInv /\ AnswerInv /\ [Next]_vars => AnswerInv'
  BY AnswerInvKept DEF FactsInv
<1> QED
  BY <1>1, <1>2, InitAnswer, StreamAlways, FactsAlways, PTL DEF Spec

-----------------------------------------------------------------------------
(* The tokens of a set of messages.  Tokens is a fold that takes the elements *)
(* in an order of its own; the order does not matter.                        *)

Sized(S) == IsFiniteSet(S) /\ \A r \in S : r.size \in Nat

Picked(s) == CHOOSE x \in s : TRUE
Unroll(g, s) == IF s = {} THEN 0 ELSE Picked(s).size + g[s \ {Picked(s)}]
Unrolls(g, S) == g = [s \in SUBSET S |-> Unroll(g, s)]

LEMMA TokensIs ==
  ASSUME NEW S
  PROVE  Tokens(S) = (CHOOSE g : Unrolls(g, S))[S]
  BY Zenon DEF Tokens, MapThenSumSet, MapThenFoldSet, Unrolls, Unroll, Picked

LEMMA PickedIn ==
  ASSUME NEW s, s # {}, Sized(s)
  PROVE  /\ Picked(s) \in s /\ Picked(s).size \in Nat /\ Sized(s \ {Picked(s)})
         /\ Cardinality(s) \in Nat \ {0} /\ Cardinality(s \ {Picked(s)}) = Cardinality(s) - 1
<1>1. Picked(s) \in s
  BY Zenon DEF Picked
<1>2. IsFiniteSet(s \ {Picked(s)}) /\ Cardinality(s \ {Picked(s)}) = Cardinality(s) - 1
      /\ Cardinality(s) \in Nat
  BY <1>1, FS_RemoveElement, FS_CardinalityType DEF Sized
<1>3. Cardinality(s) # 0
  BY FS_EmptySet DEF Sized
<1> QED
  BY <1>1, <1>2, <1>3 DEF Sized

LEMMA SizedSubset ==
  ASSUME NEW S, Sized(S), NEW T \in SUBSET S
  PROVE  Sized(T) /\ Cardinality(T) \in Nat /\ Cardinality(T) <= Cardinality(S)
  BY FS_Subset, FS_CardinalityType DEF Sized

(* Two folds agree wherever both are defined. *)
LEMMA FoldsAgree ==
  ASSUME NEW S, NEW T, NEW g, NEW h, Unrolls(g, S), Unrolls(h, T),
         NEW s \in SUBSET S, s \in SUBSET T, Sized(s)
  PROVE  g[s] = h[s] /\ g[s] \in Nat
<1> DEFINE Wrong(r) == r \in SUBSET S /\ r \in SUBSET T /\ Sized(r) /\ ~ (g[r] = h[r] /\ g[r] \in Nat)
           Sizes == {n \in Nat : \E r \in SUBSET S : Wrong(r) /\ Cardinality(r) = n}
<1> SUFFICES ASSUME Wrong(s) PROVE FALSE
  OBVIOUS
<1>1. Cardinality(s) \in Nat
  BY FS_CardinalityType DEF Sized
<1>2. Cardinality(s) \in Sizes
  BY <1>1
<1>3. PICK n \in Sizes : \A k \in Sizes : n <= k
  BY <1>2, LeastNumber
<1>4. PICK r \in SUBSET S : Wrong(r) /\ Cardinality(r) = n
  BY <1>3
<1>5. g[r] = Unroll(g, r) /\ h[r] = Unroll(h, r)
  BY <1>4, Zenon DEF Unrolls
<1>6. r # {}
  BY <1>4, <1>5 DEF Unroll
<1> DEFINE rest == r \ {Picked(r)}
<1>7. /\ Picked(r).size \in Nat /\ Sized(rest) /\ n \in Nat
      /\ Cardinality(rest) = n - 1 /\ Cardinality(rest) \in Nat
  <2>1. Sized(r) /\ n \in Nat /\ Cardinality(r) = n
    BY <1>3, <1>4
  <2>2. /\ Picked(r).size \in Nat /\ Sized(rest) /\ n \in Nat \ {0}
        /\ Cardinality(rest) = n - 1
    BY <1>6, <2>1, PickedIn
  <2> HIDE DEF rest
  <2> QED
    BY <2>2
<1>8. ~ Wrong(rest)
  <2>1. ~ (n <= n - 1)
    BY <1>7
  <2>2. Cardinality(rest) \notin Sizes
    BY <1>3, <1>7, <2>1
  <2>3. rest \in SUBSET S
    BY <1>4
  <2> HIDE DEF rest
  <2> QED
    BY <1>7, <2>2, <2>3
<1>9. g[rest] = h[rest] /\ g[rest] \in Nat
  BY <1>4, <1>7, <1>8
<1> QED
  BY <1>4, <1>5, <1>6, <1>7, <1>9 DEF Unroll

(* There is a fold over every finite set of messages: larger and larger      *)
(* subsets are unrolled.                                                     *)
LEMMA FoldExists ==
  ASSUME NEW S, Sized(S)
  PROVE  \E g : Unrolls(g, S)
<1> DEFINE Part(g, k) == /\ g \in [SUBSET S -> Nat]
                         /\ \A s \in SUBSET S : Cardinality(s) <= k => g[s] = Unroll(g, s)
           Without == {k \in Nat : \A g \in [SUBSET S -> Nat] : ~ Part(g, k)}
<1>1. 0 \notin Without
  <2> DEFINE g == [s \in SUBSET S |-> 0]
  <2>1. \A s \in SUBSET S : Cardinality(s) <= 0 => s = {}
    BY SizedSubset, FS_EmptySet DEF Sized
  <2>2. Part(g, 0)
    BY <2>1 DEF Unroll
  <2> QED
    BY <2>2
<1>2. ASSUME NEW k \in Nat, k \notin Without PROVE k + 1 \notin Without
  <2>1. PICK g \in [SUBSET S -> Nat] : Part(g, k)
    BY <1>2
  <2> DEFINE h == [s \in SUBSET S |-> Unroll(g, s)]
  <2>2. ASSUME NEW s \in SUBSET S, s # {}
        PROVE  /\ Picked(s).size \in Nat /\ s \ {Picked(s)} \in SUBSET S
               /\ Cardinality(s) \in Nat /\ Cardinality(s \ {Picked(s)}) = Cardinality(s) - 1
    BY <2>2, SizedSubset, PickedIn
  <2>3. h \in [SUBSET S -> Nat]
    <3>1. ASSUME NEW s \in SUBSET S PROVE Unroll(g, s) \in Nat
      <4>1. s # {} => g[s \ {Picked(s)}] \in Nat /\ Picked(s).size \in Nat
        BY <2>1, <2>2
      <4> QED
        BY <4>1 DEF Unroll
    <3> QED
      BY <3>1
  <2>4. ASSUME NEW s \in SUBSET S, Cardinality(s) <= k + 1 PROVE h[s] = Unroll(h, s)
    <3>1. h[s] = Unroll(g, s)
      OBVIOUS
    <3>2. CASE s = {}
      BY <3>1, <3>2 DEF Unroll
    <3>3. CASE s # {}
      <4> DEFINE rest == s \ {Picked(s)}
      <4>1. rest \in SUBSET S /\ Cardinality(rest) <= k
        BY <2>2, <2>4, <3>3
      <4>2. g[rest] = Unroll(g, rest) /\ h[rest] = Unroll(g, rest)
        BY <2>1, <4>1
      <4> HIDE DEF h
      <4> QED
        BY <3>1, <3>3, <4>2 DEF Unroll
    <3> QED
      BY <3>2, <3>3
  <2> HIDE DEF h
  <2>5. Part(h, k + 1)
    BY <2>3, <2>4
  <2> QED
    BY <2>3, <2>5
<1>3. Without = {}
  <2> SUFFICES ASSUME Without # {} PROVE FALSE
    OBVIOUS
  <2>1. PICK n \in Without : \A k \in Without : n <= k
    BY LeastNumber
  <2> HIDE DEF Without
  <2>2. n \in Nat /\ n # 0
    BY <1>1, <2>1 DEF Without
  <2>3. n - 1 \in Nat /\ ~ (n <= n - 1) /\ n = (n - 1) + 1
    BY <2>2
  <2>4. n - 1 \notin Without
    BY <2>1, <2>3
  <2> QED
    BY <1>2, <2>1, <2>3, <2>4
<1>4. Cardinality(S) \in Nat /\ \A s \in SUBSET S : Cardinality(s) <= Cardinality(S)
  BY SizedSubset
<1>5. PICK g \in [SUBSET S -> Nat] : Part(g, Cardinality(S))
  BY <1>3, <1>4
<1>6. \A s \in SUBSET S : g[s] = Unroll(g, s)
  BY <1>4, <1>5
<1>7. g = [s \in SUBSET S |-> Unroll(g, s)]
  BY <1>6
<1> QED
  BY <1>7 DEF Unrolls

LEMMA TokensUnroll ==
  ASSUME NEW S, Sized(S)
  PROVE  /\ Tokens(S) \in Nat
         /\ S = {} => Tokens(S) = 0
         /\ S # {} => Tokens(S) = Picked(S).size + Tokens(S \ {Picked(S)})
<1> DEFINE g == CHOOSE x : Unrolls(x, S)
           T == S \ {Picked(S)}
           h == CHOOSE x : Unrolls(x, T)
<1>1. Unrolls(g, S) /\ Tokens(S) = g[S]
  BY FoldExists, TokensIs, Zenon
<1> HIDE DEF g
<1>2. g[S] = Unroll(g, S)
  BY <1>1, Zenon DEF Unrolls
<1>3. g[S] \in Nat
  BY <1>1, FoldsAgree
<1>4. ASSUME S # {} PROVE Tokens(S) = Picked(S).size + Tokens(T)
  <2>1. Sized(T) /\ T \in SUBSET S
    BY <1>4, PickedIn
  <2>2. Unrolls(h, T) /\ Tokens(T) = h[T]
    BY <2>1, FoldExists, TokensIs, Zenon
  <2> HIDE DEF h
  <2>3. g[T] = h[T]
    BY <1>1, <2>1, <2>2, FoldsAgree
  <2> QED
    BY <1>1, <1>2, <1>4, <2>2, <2>3 DEF Unroll
<1> QED
  BY <1>1, <1>2, <1>3, <1>4 DEF Unroll

(* Any message may be counted first. *)
LEMMA TokensRemove ==
  ASSUME NEW S, Sized(S), NEW y \in S
  PROVE  Tokens(S) = y.size + Tokens(S \ {y}) /\ y.size \in Nat /\ Tokens(S \ {y}) \in Nat
<1> DEFINE Wrong(T) == Sized(T) /\ \E x \in T : Tokens(T) # x.size + Tokens(T \ {x})
           Sizes == {n \in Nat : \E T \in SUBSET S : Wrong(T) /\ Cardinality(T) = n}
<1>0. y.size \in Nat /\ Tokens(S \ {y}) \in Nat
  <2>1. Sized(S \ {y})
    BY SizedSubset
  <2> QED
    BY <2>1, TokensUnroll DEF Sized
<1> SUFFICES ASSUME Wrong(S) PROVE FALSE
  BY <1>0
<1>1. Cardinality(S) \in Nat
  BY FS_CardinalityType DEF Sized
<1>2. Cardinality(S) \in Sizes
  BY <1>1
<1>3. PICK n \in Sizes : \A k \in Sizes : n <= k
  BY <1>2, LeastNumber
<1>4. PICK T \in SUBSET S : Wrong(T) /\ Cardinality(T) = n
  BY <1>3
<1>5. PICK z \in T : Tokens(T) # z.size + Tokens(T \ {z})
  BY <1>4
<1> DEFINE x == Picked(T)
<1>6. /\ x \in T /\ x.size \in Nat /\ Sized(T \ {x}) /\ n \in Nat /\ Cardinality(T \ {x}) = n - 1
      /\ Tokens(T) = x.size + Tokens(T \ {x})
  BY <1>4, PickedIn, TokensUnroll
<1>7. z # x
  BY <1>5, <1>6
<1>8. Sized(T \ {z}) /\ Cardinality(T \ {z}) = n - 1 /\ z.size \in Nat
  BY <1>4, FS_RemoveElement DEF Sized
<1>9. \A U \in SUBSET S : Sized(U) /\ Cardinality(U) = n - 1 => ~ Wrong(U)
  <2>1. \A k \in Sizes : k # n - 1
    BY <1>3, <1>6
  <2>2. ASSUME NEW U \in SUBSET S, Sized(U), Cardinality(U) = n - 1, Wrong(U) PROVE FALSE
    <3>1. Cardinality(U) \in Nat
      BY <2>2, SizedSubset
    <3>2. Cardinality(U) \in Sizes
      BY <2>2, <3>1
    <3> QED
      BY <2>1, <2>2, <3>2
  <2> QED
    BY <2>2
<1> HIDE DEF x
<1>10. T \ {x} \in SUBSET S /\ T \ {z} \in SUBSET S /\ z \in T \ {x} /\ x \in T \ {z}
  BY <1>4, <1>5, <1>6, <1>7
<1> DEFINE rest == (T \ {x}) \ {z}
<1>11. rest = (T \ {z}) \ {x}
  OBVIOUS
<1>12. Tokens(T \ {x}) = z.size + Tokens(rest)
  BY <1>6, <1>9, <1>10
<1>13. Tokens(T \ {z}) = x.size + Tokens(rest)
  <2>1. Tokens(T \ {z}) = x.size + Tokens((T \ {z}) \ {x})
    BY <1>8, <1>9, <1>10
  <2> QED
    BY <1>11, <2>1
<1>14. Tokens(rest) \in Nat
  <2>1. rest \in SUBSET (T \ {x})
    OBVIOUS
  <2>2. Sized(rest)
    BY <1>6, <2>1, SizedSubset
  <2> QED
    BY <2>2, TokensUnroll
<1> HIDE DEF rest
<1> QED
  BY <1>5, <1>6, <1>8, <1>12, <1>13, <1>14

(* Fewer messages have no more tokens. *)
LEMMA TokensMonotone ==
  ASSUME NEW S, Sized(S), NEW T \in SUBSET S
  PROVE  Tokens(T) \in Nat /\ Tokens(S) \in Nat /\ Tokens(T) <= Tokens(S)
<1> DEFINE Wrong(U) == T \in SUBSET U /\ ~ (Tokens(T) <= Tokens(U))
           Sizes == {n \in Nat : \E U \in SUBSET S : Wrong(U) /\ Cardinality(U) = n}
<1>0. \A U \in SUBSET S : Sized(U) /\ Tokens(U) \in Nat /\ Cardinality(U) \in Nat
  BY SizedSubset, TokensUnroll
<1> SUFFICES ASSUME Wrong(S) PROVE FALSE
  BY <1>0
<1>2. Cardinality(S) \in Sizes
  BY <1>0
<1>3. PICK n \in Sizes : \A k \in Sizes : n <= k
  BY <1>2, LeastNumber
<1>4. PICK U \in SUBSET S : Wrong(U) /\ Cardinality(U) = n
  BY <1>3
<1>5. U # T
  <2>1. Tokens(T) <= Tokens(T)
    BY <1>0
  <2> QED
    BY <1>4, <2>1
<1>6. PICK y \in U : y \notin T
  BY <1>4, <1>5
<1> DEFINE rest == U \ {y}
<1>7. Tokens(U) = y.size + Tokens(rest) /\ y.size \in Nat /\ Tokens(rest) \in Nat
  BY <1>0, <1>4, TokensRemove
<1>8. rest \in SUBSET S /\ T \in SUBSET rest
  BY <1>4, <1>6
<1>9. Cardinality(rest) = n - 1 /\ n \in Nat /\ Cardinality(rest) \in Nat
  <2>1. IsFiniteSet(U)
    BY <1>0 DEF Sized
  <2>2. Cardinality(rest) = Cardinality(U) - 1
    BY <2>1, FS_RemoveElement
  <2> HIDE DEF rest
  <2> QED
    BY <1>0, <1>4, <1>8, <2>2
<1> HIDE DEF rest
<1>10. ~ Wrong(rest)
  <2>1. \A k \in Sizes : k # n - 1
    BY <1>3, <1>9
  <2> QED
    BY <1>8, <1>9, <2>1
<1>11. Tokens(T) <= Tokens(rest)
  BY <1>8, <1>10
<1> QED
  BY <1>0, <1>4, <1>7, <1>11

(* The newest messages that fit. *)
LEMMA NewestFits ==
  ASSUME NEW S \in SUBSET RowType, IsFiniteSet(S), NEW budget \in Nat
  PROVE  /\ Tokens(Newest(S, budget)) \in Nat /\ Tokens(Newest(S, budget)) <= budget
         /\ \A r \in Newest(S, budget) : \A q \in S : q.seq >= r.seq => q \in Newest(S, budget)
<1> DEFINE From(r) == {q \in S : q.seq >= r.seq}
           new == Newest(S, budget)
<1>1. Sized(S) /\ \A r \in S : r.seq \in Nat
  BY DEF Sized, RowType
<1>2. new = {r \in S : Tokens(From(r)) <= budget}
  BY DEF Newest
<1>3. \A r \in S : From(r) \in SUBSET S /\ Sized(From(r)) /\ Tokens(From(r)) \in Nat
  BY <1>1, SizedSubset, TokensUnroll
<1>4. ASSUME NEW r \in new, NEW q \in S, q.seq >= r.seq PROVE q \in new
  <2>1. r \in S /\ From(q) \in SUBSET From(r)
    BY <1>1, <1>2, <1>4
  <2>2. Tokens(From(q)) <= Tokens(From(r)) /\ Tokens(From(r)) <= budget
    BY <1>2, <1>3, <2>1, TokensMonotone
  <2>3. Tokens(From(q)) <= budget
    <3>1. Tokens(From(q)) \in Nat /\ Tokens(From(r)) \in Nat
      BY <1>3, <2>1
    <3> HIDE DEF From
    <3> QED
      BY <2>2, <3>1
  <2> QED
    BY <1>2, <1>4, <2>3
<1>5. Sized(new) /\ Tokens(new) \in Nat
  BY <1>1, <1>2, SizedSubset, TokensUnroll
<1>6. CASE new = {}
  <2>1. Tokens(new) = 0
    BY <1>5, <1>6, TokensUnroll
  <2> QED
    BY <1>6, <2>1
<1>7. CASE new # {}
  <2> DEFINE T == {r.seq : r \in new}
  <2>1. T \in SUBSET Nat /\ T # {}
    BY <1>1, <1>2, <1>7
  <2>2. PICK m \in T : \A k \in T : m <= k
    BY <2>1, LeastNumber
  <2>3. PICK r \in new : r.seq = m
    BY <2>2
  <2>4. r \in S /\ Tokens(From(r)) <= budget /\ Tokens(From(r)) \in Nat /\ Sized(From(r))
    BY <1>2, <1>3, <2>3
  <2>5. new \in SUBSET From(r)
    BY <1>1, <1>2, <2>2, <2>3
  <2>6. Tokens(new) <= Tokens(From(r))
    BY <2>4, <2>5, TokensMonotone
  <2> HIDE DEF From, new
  <2>7. Tokens(new) <= budget
    BY <1>5, <2>4, <2>6
  <2> QED
    BY <1>4, <1>5, <2>7 DEF new
<1> QED
  BY <1>6, <1>7

(* Shares of a budget. *)
LEMMA PercentFits ==
  ASSUME NEW n \in Nat, NEW of \in 0..100
  PROVE  Percent(of, n) \in Nat /\ Percent(of, n) <= n
<1>1. CASE n = 0
  BY <1>1 DEF Percent
<1> DEFINE m == of * n
<1>2. m \in Nat /\ m <= 100 * n
  <2>1. of * n <= 100 * n
    OBVIOUS
  <2> QED
    BY <2>1
<1> HIDE DEF m
<1>3. m \div 100 \in Nat /\ m \div 100 <= n
  BY <1>2
<1> QED
  BY <1>3 DEF Percent, m

(* A turn loads finitely many messages. *)
LoadsFinite == \A t \in Turns : pc[t] \in Loaded => IsFiniteSet(context[t].recent)

LEMMA LoadsStayFinite == TypeInv /\ LoadsFinite /\ [Next]_vars => LoadsFinite'
<1> SUFFICES ASSUME TypeInv, LoadsFinite, [Next]_vars, NEW u \in Turns, pc'[u] \in Loaded
             PROVE  IsFiniteSet(context'[u].recent)
  BY DEF LoadsFinite
<1>1. ASSUME pc'[u] = pc[u], context'[u] = context[u] PROVE IsFiniteSet(context'[u].recent)
  BY <1>1 DEF LoadsFinite
<1>2. ASSUME NEW t \in Turns, TurnStep(t) PROVE IsFiniteSet(context'[u].recent)
  <2>1. CASE u # t
    BY <1>1, <1>2, <2>1, TurnIsOwn DEF OthersKept
  <2>2. CASE u = t
    <3>1. CASE AppendInserts(t)
      <4>1. pc'[t] \in {"title", "register"}
        BY <3>1 DEF AppendInserts, Goto, TypeInv, TurnsTyped
      <4> QED
        BY <2>2, <4>1 DEF Loaded
    <3>2. CASE LoadSummary(t)
      <4>1. context'[t].recent = {}
        BY <3>2 DEF LoadSummary, TypeInv, ContextsTyped
      <4> QED
        BY <2>2, <4>1, FS_EmptySet
    <3>3. CASE ContextLoads(t)
      <4>1. context'[t].recent = RecentOf(t, context[t].summary)
        BY <3>3 DEF ContextLoads, TypeInv, ContextsTyped
      <4>2. RecentOf(t, context[t].summary) \in SUBSET rows /\ IsFiniteSet(rows)
        BY DEF RecentOf, TypeInv, RowsTyped
      <4> QED
        BY <2>2, <4>1, <4>2, FS_Subset
    <3>4. CASE SummaryInserts(t)
      <4>1. context'[t].recent = context[t].recent /\ pc[t] \in Loaded
        BY <3>4 DEF SummaryInserts, TypeInv, ContextsTyped, Loaded
      <4> QED
        BY <2>2, <4>1 DEF LoadsFinite
    <3>5. CASE Stays(t)
      BY <2>2, <3>5 DEF Stays, LoadsFinite
    <3>6. pc'[t] \in AfterAsk
      BY <2>2, PlacesOfContext
    <3> QED
      BY <1>2, <3>1, <3>2, <3>3, <3>4, <3>5, <3>6, ContextMoves
  <2> QED
    BY <2>1, <2>2
<1>3. CASE RequestStep
  <2>1. ASSUME NEW t \in Turns, NEW new \in BOOLEAN, Request(t, new)
        PROVE  IsFiniteSet(context'[u].recent)
    <3>1. pc' = [pc EXCEPT ![t] = "open"] /\ context' = context
      BY <2>1 DEF Request, Goto
    <3>2. u # t
      BY <3>1 DEF TypeInv, TurnsTyped, Loaded
    <3> QED
      BY <1>1, <3>1, <3>2 DEF TypeInv, TurnsTyped
  <2>2. CASE Restart
    <3>1. pc'[u] = IF pc[u] \in Running THEN "gone" ELSE pc[u]
      BY <2>2 DEF Restart
    <3> QED
      BY <3>1 DEF Loaded, Running, Generating
  <2>3. ASSUME pc' = pc, context' = context PROVE IsFiniteSet(context'[u].recent)
    BY <1>1, <2>3
  <2> QED
    BY <1>3, <2>1, <2>2, <2>3
    DEF RequestStep, Cancel, ClientLeaves, Revert, DeleteSession, turnVars
<1>4. CASE UNCHANGED vars
  BY <1>1, <1>4 DEF vars
<1> QED
  BY <1>2, <1>3, <1>4 DEF Next

LEMMA FiniteAlways == Spec => [](TypeInv /\ LoadsFinite)
<1>1. Init => LoadsFinite
  BY DEF Init, LoadsFinite, Loaded
<1> QED
  BY <1>1, LoadsStayFinite, TypesAreKept, PTL DEF Spec

LEMMA Leasts ==
  ASSUME NEW m \in Nat, NEW n \in Nat
  PROVE  /\ Least(m, n) \in Nat /\ Least(m, n) <= m /\ Least(m, n) <= n
         /\ Monus(m, n) \in Nat /\ Monus(m, n) <= m /\ (n <= m => m = Monus(m, n) + n)
  BY DEF Least, Monus

(* What a prompt is put together from. *)
LEMMA PromptParts ==
  ASSUME TypeInv, LoadsFinite, NEW t \in Turns, pc[t] \in Loaded
  PROVE  \E hard, rag, soft, most, used, summary \in Nat :
           LET S == {r \in context[t].recent : r.kind # "summary"}
           IN  /\ Prompt(t).recent = Newest(S, most) /\ IsFiniteSet(S) /\ S \in SUBSET RowType
               /\ Prompt(t).hard = hard + rag /\ Prompt(t).total = hard + rag + used + summary
               /\ used <= soft /\ summary <= Monus(soft, used)
               /\ soft = Monus(Monus(MaxInput, hard), rag)
<1> DEFINE hard == SystemSize + UserSize[t]
           rag == IF t \in RagTurns THEN Least(RagSize, Percent(30, MaxInput)) ELSE 0
           soft == Monus(Monus(MaxInput, hard), rag)
           most == IF rag > 0 THEN Least(soft, Percent(30, MaxInput)) ELSE Percent(75, soft)
           S == {r \in context[t].recent : r.kind # "summary"}
           recent == Newest(S, most)
           used == Tokens(recent)
           left == Monus(soft, used)
           summary == IF context[t].summary = None THEN 0 ELSE Least(context[t].summary.size, left)
<1>1. MaxInput \in Nat /\ hard \in Nat /\ RagSize \in Nat
  <2>1. MaxInput \in Nat /\ RagSize \in Nat
    BY ChatSessionAssumption
  <2>2. SystemSize \in Nat /\ UserSize[t] \in Nat
    BY ChatSessionAssumption
  <2>3. hard \in Nat
    BY <2>2
  <2> QED
    BY <2>1, <2>3
<1>2. Percent(30, MaxInput) \in Nat
  <2>1. MaxInput \in Nat /\ 30 \in 0..100
    BY <1>1
  <2> QED
    BY <2>1, PercentFits, Zenon
<1>3. rag \in Nat
  BY <1>1, <1>2, Leasts
<1> HIDE DEF hard, rag
<1>4. soft \in Nat
  BY <1>1, <1>3, Leasts
<1> HIDE DEF soft
<1>5. most \in Nat /\ most <= soft
  <2>1. /\ Least(soft, Percent(30, MaxInput)) \in Nat
        /\ Least(soft, Percent(30, MaxInput)) <= soft
    BY <1>2, <1>4, Leasts
  <2>2. Percent(75, soft) \in Nat /\ Percent(75, soft) <= soft
    BY <1>4, PercentFits
  <2> QED
    BY <2>1, <2>2
<1>6. IsFiniteSet(S) /\ S \in SUBSET RowType
  <2>1. IsFiniteSet(context[t].recent) /\ context[t].recent \in SUBSET RowType
    BY DEF LoadsFinite, TypeInv, ContextsTyped
  <2> QED
    BY <2>1, FS_Subset
<1> HIDE DEF most, S
<1>7. used \in Nat /\ used <= most
  BY <1>5, <1>6, NewestFits
<1> HIDE DEF used
<1>8. left \in Nat
  BY <1>4, <1>7, Leasts
<1>9. summary \in Nat /\ summary <= left
  <2>1. context[t].summary # None => context[t].summary.size \in Nat
    BY DEF TypeInv, ContextsTyped, RowType
  <2> HIDE DEF left
  <2>2. 0 <= left
    BY <1>8
  <2> QED
    BY <1>8, <2>1, <2>2, Leasts
<1>10. /\ Prompt(t).recent = recent /\ Prompt(t).hard = hard + rag
       /\ Prompt(t).total = hard + rag + used + summary
  BY DEF Prompt, hard, rag, soft, most, S, used
<1>11. used <= soft
  BY <1>4, <1>5, <1>7
<1>12. soft = Monus(Monus(MaxInput, hard), rag)
  BY DEF soft
<1> HIDE DEF summary, left
<1> QED
  BY <1>1, <1>3, <1>4, <1>5, <1>6, <1>7, <1>9, <1>10, <1>11, <1>12 DEF S, left

(* The prompt stays within the model's input, for any sizes and any budget,  *)
(* whenever what cannot be cut does, and it leaves out older messages only:  *)
(* the loops of build_chat_context take the newest that fit their share.     *)
THEOREM PromptsFit == Spec => []PromptFits
<1>1. TypeInv /\ LoadsFinite => PromptFits
  <2> SUFFICES ASSUME TypeInv, LoadsFinite, NEW t \in Turns, pc[t] = "stream"
               PROVE  /\ Prompt(t).hard <= MaxInput => Prompt(t).total <= MaxInput
                      /\ \A q \in context[t].recent, r \in Prompt(t).recent :
                           q.kind # "summary" /\ q.seq > r.seq => q \in Prompt(t).recent
    BY DEF PromptFits
  <2> DEFINE S == {r \in context[t].recent : r.kind # "summary"}
  <2>1. pc[t] \in Loaded
    BY DEF Loaded
  <2>2. PICK hard, rag, soft, most, used, summary \in Nat :
          /\ Prompt(t).recent = Newest(S, most) /\ IsFiniteSet(S) /\ S \in SUBSET RowType
          /\ Prompt(t).hard = hard + rag /\ Prompt(t).total = hard + rag + used + summary
          /\ used <= soft /\ summary <= Monus(soft, used)
          /\ soft = Monus(Monus(MaxInput, hard), rag)
    BY <2>1, PromptParts
  <2>3. ASSUME hard + rag <= MaxInput PROVE hard + rag + used + summary <= MaxInput
    <3>1. MaxInput \in Nat
      BY ChatSessionAssumption
    <3>2. MaxInput = soft + rag + hard
      BY <2>2, <2>3, <3>1 DEF Monus
    <3>3. soft = Monus(soft, used) + used /\ Monus(soft, used) \in Nat
      BY <2>2, Leasts
    <3> QED
      BY <2>2, <3>2, <3>3
  <2>4. ASSUME NEW q \in context[t].recent, NEW r \in Prompt(t).recent, q.kind # "summary", q.seq > r.seq
        PROVE  q \in Prompt(t).recent
    <3>1. q \in S /\ r \in S /\ q \in RowType /\ r \in RowType
      BY <2>2, <2>4 DEF Newest
    <3>2. q.seq >= r.seq
      BY <2>4, <3>1 DEF RowType
    <3> HIDE DEF S
    <3> QED
      BY <2>2, <2>4, <3>1, <3>2, NewestFits
  <2> QED
    BY <2>2, <2>3, <2>4
<1> QED
  BY <1>1, FiniteAlways, PTL
=============================================================================
