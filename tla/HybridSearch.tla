----------------------------- MODULE HybridSearch -----------------------------
(***************************************************************************)
(* One retrieval for a chat turn: services/search/hybrid_search.py and     *)
(* retrieval.py with crud/rag_search.py, against an index that indexing,   *)
(* crawling and deletion change between its steps.                         *)
(*                                                                         *)
(* A content is an item and the index of a chunk in it, which is what its  *)
(* vector id is made of; a row is a content under its SQLite row id, which *)
(* is what full-text search finds.  What a query finds relevant is a given *)
(* order of contents per retriever.                                        *)
(***************************************************************************)
EXTENDS Naturals, SequencesExt

CONSTANTS
  Items,
  SourceList,        \* the sources, in the order the database returns them
  SourceOf,          \* source of each item
  Length,            \* chunks of each item
  Order,             \* contents by falling relevance, for each retriever and "rerank"
  Relevant,          \* contents whose rerank score reaches min_rerank_score
  TopK, RerankK, FtsK, VectorK, RrfK,
  MinCandidates, MinCommonOverlap,
  Unit,              \* scale of scores: a multiple of each denominator
  MaxChanges         \* bound: changes of the index and of what is visible

Contents   == {<<i, n>> : i \in Items, n \in 1..Max({Length[i] : i \in Items})}
Fts        == {"fts_raw", "fts_keywords"}
RawLists   == <<"fts_raw", "vector_raw">>
FullLists  == <<"fts_raw", "vector_raw", "fts_keywords", "vector_hyde", "vector_alternative">>
Retrievers == ToSet(FullLists)
Modes      == {"fast", "adaptive", "full"}

ASSUME HybridSearchAssumption ==
  /\ SourceOf \in [Items -> ToSet(SourceList)] /\ Length \in [Items -> Nat]
  /\ SourceList \in Seq(ToSet(SourceList)) /\ IsInjective(SourceList)
  /\ Order \in [Retrievers \cup {"rerank"} -> Seq(Contents)]
  /\ \A r \in DOMAIN Order : IsInjective(Order[r])
  /\ Relevant \subseteq ToSet(Order["rerank"])
  /\ {TopK, RerankK, FtsK, VectorK, RrfK, MinCandidates, MinCommonOverlap, Unit, MaxChanges}
       \subseteq Nat

VARIABLES
  rows,       \* document_chunks, and with them the full-text index
  vectors,    \* the contents whose vectors are stored
  stage,      \* of each item: "completed", the steps of its re-indexing and deletion
  visible,    \* sources linked to the project and public
  owners,     \* ghost: which items have held which row id
  changes,    \* counted against MaxChanges
  phase,      \* of the retrieval: "none", "rewrite", "raw", "rawlists", "expand", "full",
              \* "fulllists", "found", "failed"
  options,    \* HybridSearchOptions: [mode, rerank, standalone]
  scope,      \* the items of SearchSourceRef.source_item_ids
  answers,    \* results of the queries of a round
  awaited,    \* those of its queries that have not answered
  lists,      \* RankedList.items of each retriever; 0 stands for chunk id -1
  fetched,    \* ranked_hits of the last fetch
  results     \* the search results

indexVars  == <<rows, vectors, stage, visible, owners, changes>>
searchVars == <<phase, options, scope, answers, awaited, lists, fetched, results>>

Content(row) == <<row.item, row.index>>
ItemContents(i) == {<<i, n>> : n \in 1..Length[i]}
RowsOf(i) == {row \in rows : row.item = i}

(* Rows of an item, at row ids after the greatest one in use.                *)
RowsFrom(last, i) == {[id |-> last + n, item |-> i, index |-> n] : n \in 1..Length[i]}

(* SourceItem.status is COMPLETED; deletion removes vectors first.           *)
Completed(i) == stage[i] \in {"completed", "deleting"}

(* Row ids are unique, and so are the chunks.                                *)
IsTable(S) ==
  /\ IsFiniteSet(S) /\ S \subseteq [id : Nat \ {0}, item : Items, index : Nat]
  /\ \A q, r \in S : q.id = r.id \/ Content(q) = Content(r) => q = r

IndexInit(table, stages, changed) ==
  /\ rows = table
  /\ stage = stages
  /\ vectors = UNION {ItemContents(i) : i \in {j \in Items : stage[j] \notin {"dropped", "deleting"}}}
  /\ owners = {<<row.id, row.item>> : row \in rows}
  /\ changes = changed

NoOptions == [mode |-> "fast", rerank |-> FALSE, standalone |-> FALSE]

SearchInit ==
  /\ phase = "none" /\ scope = {} /\ fetched = <<>> /\ results = <<>> /\ options = NoOptions
  /\ answers = <<>> /\ awaited = {} /\ lists = [r \in Retrievers |-> <<>>]

------------------------------------------------------------------------------
(* The index changes.                                                        *)

Change(i, from, to) ==
  /\ changes < MaxChanges /\ stage[i] = from
  /\ changes' = changes + 1
  /\ stage' = [stage EXCEPT ![i] = to]
  /\ UNCHANGED <<visible, searchVars>>

(* A crawled page has new text.                                              *)
TextChanges(i) == Change(i, "completed", "pending") /\ UNCHANGED <<rows, vectors, owners>>
Claimed(i)     == Change(i, "pending", "claimed") /\ UNCHANGED <<rows, vectors, owners>>

OldVectorsGo(i) ==
  /\ Change(i, "claimed", "dropped")
  /\ vectors' = vectors \ ItemContents(i)
  /\ UNCHANGED <<rows, owners>>

(* The new vectors are stored before the rows are committed.                 *)
NewVectorsStored(i) ==
  /\ Change(i, "dropped", "added")
  /\ vectors' = vectors \cup ItemContents(i)
  /\ UNCHANGED <<rows, owners>>

(* Old rows go and new ones come in one transaction.                         *)
RowsReplaced(i) ==
  LET others == rows \ RowsOf(i)
      new    == RowsFrom(Max({0} \cup {row.id : row \in others}), i)
  IN  /\ Change(i, "added", "stored")
      /\ rows' = others \cup new
      /\ owners' = owners \cup {<<row.id, i>> : row \in new}
      /\ UNCHANGED vectors

IndexingCompletes(i) == Change(i, "stored", "completed") /\ UNCHANGED <<rows, vectors, owners>>

DeletedVectors(i) ==
  /\ Change(i, "completed", "deleting")
  /\ vectors' = vectors \ ItemContents(i)
  /\ UNCHANGED <<rows, owners>>

DeletedRow(i) ==
  /\ Change(i, "deleting", "gone")
  /\ rows' = rows \ RowsOf(i)
  /\ UNCHANGED <<vectors, owners>>

(* A source is unlinked from the project or made private.                    *)
Hide(s) ==
  /\ s \in visible /\ changes < MaxChanges
  /\ visible' = visible \ {s}
  /\ changes' = changes + 1
  /\ UNCHANGED <<rows, vectors, stage, owners, searchVars>>

IndexStep ==
  \/ \E i \in Items : \/ TextChanges(i) \/ Claimed(i) \/ OldVectorsGo(i) \/ NewVectorsStored(i)
                      \/ RowsReplaced(i) \/ IndexingCompletes(i)
                      \/ DeletedVectors(i) \/ DeletedRow(i)
  \/ \E s \in ToSet(SourceList) : Hide(s)

------------------------------------------------------------------------------
(* Queries.                                                                  *)

(* resolve_visitor_search_sources: completed items of visible sources.       *)
VisitorScope == {i \in Items : SourceOf[i] \in visible /\ Completed(i)}

(* A finite set in an order of its elements; some elements of a sequence, in *)
(* its order; no more than the first n.                                      *)
InOrder(S, before) ==
  [n \in 1..Cardinality(S) |-> CHOOSE x \in S : Cardinality({y \in S : <<y, x>> \in before}) = n - 1]
Only(s, S) ==
  LET at   == {n \in DOMAIN s : s[n] \in S}
      kept == InOrder(at, {p \in at \X at : p[1] < p[2]})
  IN  [n \in DOMAIN kept |-> s[kept[n]]]
First(s, n) == SubSeq(s, 1, IF n < Len(s) THEN n ELSE Len(s))
RowOf(c) == CHOOSE row \in rows : Content(row) = c
Has(c) == \E row \in rows : Content(row) = c

(* Mutant: the search is not restricted to the items of the scope. *)
FtsOfAll(retriever) ==
  LET matches == Only(Order[retriever], {Content(row) : row \in rows})
  IN  First([n \in DOMAIN matches |-> RowOf(matches[n]).id], FtsK)

(* _fts_search: rows of the scope's items, by bm25.                          *)
FtsResult(retriever) ==
  LET matches == Only(Order[retriever], {Content(row) : row \in {q \in rows : q.item \in scope}})
  IN  First([n \in DOMAIN matches |-> RowOf(matches[n]).id], FtsK)

(* query_collection: one source's nearest vectors.                           *)
VectorResult(retriever, s) ==
  First(Only(Order[retriever], {c \in vectors : c[1] \in scope /\ SourceOf[c[1]] = s}), VectorK)

(* Queries of a round: full-text ones, and vector ones per source.           *)
Queries(retrievers) ==
  UNION {IF r \in Fts THEN {<<r, "all">>}
         ELSE {<<r, s>> : s \in {SourceOf[i] : i \in scope}} : r \in retrievers}

Asked(retrievers) ==
  /\ awaited' = Queries(retrievers)
  /\ answers' = [q \in Queries(retrievers) |-> <<>>]

(* RAGChatPlugin keeps the ids it was given as SearchSourceRefs.             *)
ScopeResolved(opts) ==
  /\ scope' = VisitorScope
  /\ options' = opts
  /\ UNCHANGED <<phase, answers, awaited, lists, fetched, results>>

RawSearch == phase' = "raw" /\ Asked(ToSet(RawLists))

(* retrieve_for_chat: first the question is rewritten to stand alone, if     *)
(* that is enabled.                                                          *)
RetrievalStarts ==
  /\ \/ options.standalone /\ phase' = "rewrite" /\ UNCHANGED <<answers, awaited>>
     \/ ~options.standalone /\ RawSearch
  /\ UNCHANGED <<options, scope, lists, fetched, results>>

(* StandaloneQueryRewriter.rewrite, by the model.                            *)
Rewritten ==
  /\ phase = "rewrite" /\ RawSearch
  /\ UNCHANGED <<options, scope, lists, fetched, results>>

(* QueryExpander.expand_query, from its cache or by the model.               *)
Expanded ==
  /\ phase = "expand" /\ phase' = "full"
  /\ Asked(Retrievers \ ToSet(RawLists))
  /\ UNCHANGED <<options, scope, lists, fetched, results>>

(* The turn is over: nothing refers to the search any more.                  *)
SearchForgotten ==
  /\ phase' = "none" /\ scope' = {} /\ fetched' = <<>> /\ results' = <<>>
  /\ options' = NoOptions
  /\ answers' = <<>> /\ awaited' = {} /\ lists' = [r \in Retrievers |-> <<>>]

(* The queries of a round run concurrently; a failing vector query is left   *)
(* out of the results (return_exceptions), a failing full-text query fails   *)
(* the search.                                                               *)
QueryAnswered(q) ==
  /\ awaited' = awaited \ {q}
  /\ \E ok \in (IF q[1] \in Fts THEN {TRUE} ELSE BOOLEAN) :
       answers' = [answers EXCEPT ![q] = IF q[1] \in Fts THEN FtsResult(q[1])
                                         ELSE IF ok THEN VectorResult(q[1], q[2]) ELSE <<>>]
  /\ UNCHANGED <<phase, options, scope, lists, fetched, results>>

(* Vector results are flattened in the order of the sources.                 *)
Earlier(e, f) == e[1] < f[1] \/ (e[1] = f[1] /\ e[2] < f[2])

Flattened(r) ==
  LET of(n)   == <<r, SourceList[n]>>
      places  == UNION {{n} \X DOMAIN answers[of(n)] :
                         n \in {m \in DOMAIN SourceList : of(m) \in DOMAIN answers}}
      ordered == InOrder(places, {p \in places \X places : Earlier(p[1], p[2])})
  IN  [k \in DOMAIN ordered |-> answers[of(ordered[k][1])][ordered[k][2]]]

(* get_chunk_ids_by_vector_ids, read when all queries are answered.          *)
ChunkIds(s) == [n \in DOMAIN s |-> IF Has(s[n]) THEN RowOf(s[n]).id ELSE 0]

MapVectors ==
  /\ phase \in {"raw", "full"} /\ awaited = {}
  /\ LET asked == {q[1] : q \in DOMAIN answers}
     IN  lists' = [r \in Retrievers |->
                     IF r \notin asked THEN lists[r]
                     ELSE IF r \in Fts THEN answers[<<r, "all">>]
                     ELSE ChunkIds(Flattened(r))]
  /\ phase' = IF phase = "raw" THEN "rawlists" ELSE "fulllists"
  /\ answers' = <<>>
  /\ UNCHANGED <<options, scope, awaited, fetched, results>>

SearchFails ==
  /\ phase \in {"rewrite", "raw", "rawlists", "expand", "full", "fulllists"}
  /\ phase' = "failed" /\ answers' = <<>> /\ awaited' = {}
  /\ UNCHANGED <<options, scope, lists, fetched, results>>

------------------------------------------------------------------------------
(* Reciprocal rank fusion.                                                   *)

Weight(r) ==
  CASE r \in {"fts_raw", "vector_raw"} -> 10 [] r = "fts_keywords" -> 9
    [] r = "vector_hyde" -> 8 [] r = "vector_alternative" -> 7

Ranks(r, id) == {n \in DOMAIN lists[r] : lists[r][n] = id}

Share(r, id) ==
  SumFunctionOnSet([n \in DOMAIN lists[r] |-> Weight(r) * (Unit \div (RrfK + n))], Ranks(r, id))
Score(used, id) ==
  SumFunctionOnSet([r \in Retrievers |-> Share(r, id)], ToSet(used))

(* Where a chunk enters the dictionary of scores: equal scores keep this     *)
(* order (the sort is stable).                                               *)
Entry(used, id) ==
  LET n == Min({m \in DOMAIN used : Ranks(used[m], id) # {}})
  IN  <<n, Min(Ranks(used[n], id))>>

(* The order of the sort.                                                    *)
Candidates(used) == (UNION {ToSet(lists[r]) : r \in ToSet(used)}) \ {0}
Preferred(used) ==
  {p \in Candidates(used) \X Candidates(used) :
     \/ Score(used, p[1]) > Score(used, p[2])
     \/ Score(used, p[1]) = Score(used, p[2]) /\ Earlier(Entry(used, p[1]), Entry(used, p[2]))}

(* Mutant: the lowest scores come first. *)
FusedUpwards(used) ==
  First(InOrder(Candidates(used), {<<p[2], p[1]>> : p \in Preferred(used)}), Max({RerankK, TopK}))

(* _rrf_merge, cut to the candidates.                                        *)
Fused(used) == First(InOrder(Candidates(used), Preferred(used)), Max({RerankK, TopK}))

(* get_ranked_results_by_chunk_ids: the rows found now, in the given order.  *)
RowsWith(ids) ==
  LET found == Only(ids, {row.id : row \in rows})
  IN  [n \in DOMAIN found |-> CHOOSE row \in rows : row.id = found[n]]

(* Rerank, filter by score, sort; without rerank the fused order stays.      *)
Reranked(hits) ==
  LET kept == Only(Order["rerank"], Relevant \cap {Content(hit) : hit \in ToSet(hits)})
  IN  [n \in DOMAIN kept |-> CHOOSE hit \in ToSet(hits) : Content(hit) = kept[n]]

Hits(used) ==
  LET hits == RowsWith(Fused(used))
  IN  First(IF options.rerank THEN Reranked(hits) ELSE hits, TopK)

(* _estimate_confidence and _is_confident_enough (min_rerank_overlap is 0).  *)
Confident(hits) ==
  /\ Len(hits) >= MinCandidates
  /\ Cardinality(ToSet(lists["fts_raw"]) \cap (ToSet(lists["vector_raw"]) \ {0}))
       >= MinCommonOverlap

(* _rrf_fetch_and_rerank; after the raw round a search in adaptive mode goes *)
(* on when it is not confident, and in full mode always.                     *)
FetchHits ==
  /\ phase \in {"rawlists", "fulllists"}
  /\ LET used == IF phase = "rawlists" THEN RawLists ELSE FullLists
         hits == Hits(used)
         goOn == /\ phase = "rawlists"
                 /\ options.mode = "full" \/ (options.mode = "adaptive" /\ ~Confident(hits))
     IN  /\ fetched' = RowsWith(Fused(used))
         /\ results' = IF goOn THEN <<>> ELSE hits
         /\ phase' = IF goOn THEN "expand" ELSE "found"
  /\ UNCHANGED <<options, scope, answers, awaited, lists>>

SearchStep ==
  /\ \/ \E q \in awaited : QueryAnswered(q)
     \/ Rewritten \/ Expanded \/ MapVectors \/ FetchHits \/ SearchFails
  /\ UNCHANGED indexVars

------------------------------------------------------------------------------
(* Properties.                                                               *)

(* Whatever is re-indexed, deleted or hidden while a search runs, what it    *)
(* returns belongs to the items that were completed and visible when its     *)
(* scope was resolved, each chunk once.  (Row ids that SQLite gave to        *)
(* another item in between are the exception: the rows of the hits are read  *)
(* by id alone.)                                                             *)
Reassigned(id) == Cardinality({o \in owners : o[1] = id}) > 1
HitsFromScope ==
  /\ \A m, n \in DOMAIN results : results[m].id = results[n].id => m = n
  /\ \A n \in DOMAIN results : results[n].item \in scope \/ Reassigned(results[n].id)

(* A chunk that every list which knows the other ranks before it.            *)
Outranks(a, b) ==
  /\ \E r \in Retrievers : Ranks(r, b.id) # {}
  /\ \A r \in Retrievers : \A m \in Ranks(r, b.id) : \E n \in Ranks(r, a.id) : n < m

(* No result is preferred to a fetched chunk that all rankings put before    *)
(* it, or, with reranking, to a chunk the reranker scores higher.            *)
Position(c) == CHOOSE n \in DOMAIN Order["rerank"] : Order["rerank"][n] = c
Better(a, b) ==
  IF options.rerank THEN Content(a) \in Relevant /\ Position(Content(a)) < Position(Content(b))
  ELSE Outranks(a, b)
BestFirst ==
  phase = "found" =>
    \A n \in DOMAIN results : \A a \in ToSet(fetched) :
      Better(a, results[n]) => \E m \in 1..(n - 1) : results[m] = a
=============================================================================
