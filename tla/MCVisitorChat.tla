---------------------------- MODULE MCVisitorChat ----------------------------
(* Two visitors, two projects: r1 and r2 share an ip, r2, r3 and the widget *)
(* (w1, w2) a project.  Only r1 retrieves, over three items of two sources; *)
(* i3 may be being re-indexed, i2 deleted, when the search starts.          *)
EXTENDS WidgetChat

MCIpOf      == [r1 |-> "a", r2 |-> "a", r3 |-> "b", w1 |-> "b", w2 |-> "b"]
MCProjectOf == [r1 |-> "p", r2 |-> "q", r3 |-> "q", w1 |-> "q", w2 |-> "q"]
MCSourceList == <<"s1", "s2">>
MCSourceOf  == [i1 |-> "s1", i2 |-> "s2", i3 |-> "s2"]
MCLength    == [i1 |-> 2, i2 |-> 1, i3 |-> 1]
MCTable     == {[id |-> 1, item |-> "i1", index |-> 1], [id |-> 2, item |-> "i1", index |-> 2],
                [id |-> 3, item |-> "i2", index |-> 1], [id |-> 4, item |-> "i3", index |-> 1]}
MCStages    == {[i1 |-> "completed", i2 |-> "completed", i3 |-> "completed"],
                [i1 |-> "completed", i2 |-> "completed", i3 |-> "claimed"],
                [i1 |-> "completed", i2 |-> "deleting",  i3 |-> "added"]}

(* Many visitors and a still index; r1's search alone and an index that     *)
(* changes; the widget alone.                                               *)
Start(n, over, spent, changed, sources, stages) ==
  [now |-> n, ended |-> over, others |-> spent, changes |-> changed, visible |-> sources,
   stages |-> stages]
MCStarts ==
  {Start(0, WidgetRequests, 0, MaxChanges, {}, [i \in Items |-> "completed"]),
   Start(MaxTime, Requests \ WidgetRequests, MaxOthers, MaxChanges, {},
         [i \in Items |-> "completed"])}
  \cup {Start(MaxTime, Requests \ {"r1"}, MaxOthers, 0, {"s1", "s2"}, stages) : stages \in MCStages}

MCSettings ==
  {[mode |-> "fast", rerank |-> FALSE, standalone |-> FALSE],
   [mode |-> "adaptive", rerank |-> TRUE, standalone |-> TRUE],
   [mode |-> "full", rerank |-> FALSE, standalone |-> FALSE],
   [mode |-> "full", rerank |-> TRUE, standalone |-> FALSE]}

A == <<"i1", 1>>
B == <<"i1", 2>>
C == <<"i2", 1>>
D == <<"i3", 1>>
MCOrder == [fts_raw            |-> <<C, A, D>>,
            vector_raw         |-> <<D, C, B>>,
            fts_keywords       |-> <<A, B>>,
            vector_hyde        |-> <<B, C>>,
            vector_alternative |-> <<C, A, D>>,
            rerank             |-> <<B, A, C, D>>]
MCRelevant == {A, B, C}
=============================================================================
