--------------------------- MODULE MCSourceRuntime ---------------------------
EXTENDS SourceRuntime, TLC

CONSTANTS files, site, f1, f2, w1, j1, j2, k1, k2, l1, l2
MCSourceOf == [i \in Items |-> IF i = w1 THEN site ELSE files]
Symmetry == Permutations(Jobs) \cup Permutations(Copies) \cup Permutations(Loads)
MCBeginnings ==
  {[i \in Items |-> CASE i = f1 -> "pending" [] i = f2 -> status [] i = w1 -> "absent"]
     : status \in {"paused", "absent"}}

(* A request and no visit, or visits and no more requests. *)
Used(requests, visits) ==
  [n \in {"requests", "visits", "failures"} |->
     CASE n = "requests" -> requests [] n = "visits" -> visits [] n = "failures" -> 0]
MCSpent == {Used(0, MaxVisits), Used(MaxRequests, 0)}
=============================================================================
