---------------------------- MODULE ItemLifecycle ----------------------------
(***************************************************************************)
(* The state machine of a source item that the documentation gives         *)
(* (backend/docs/tutorial/source-source-item-flow.md, section 3), without  *)
(* jobs, workers, checkpoints, sessions or locks.  Of the index of an item *)
(* only the parts that both retrievers can find are seen.                  *)
(***************************************************************************)
EXTENDS FiniteSets

CONSTANTS Items, Parts

VARIABLES
  st,       \* the status of an item
  index,    \* the parts of its document that are searchable
  leaving   \* the items a delete request has accepted

vars == <<st, index, leaving>>

Busy == {"PROCESSING", "PAUSE_REQUESTED"}

Init ==
  /\ st = [i \in Items |-> "PENDING"]
  /\ index = [i \in Items |-> {}]
  /\ leaving = {}

Move(i, from, to) ==
  /\ st[i] \in from
  /\ st' = [st EXCEPT ![i] = to]

(* An ingest run claims what is pending, paused or failed, and nothing else. *)
Claim(i) == Move(i, {"PENDING", "PAUSED", "FAILED"}, "PROCESSING") /\ UNCHANGED <<index, leaving>>

(* One request may name several items. *)
RequestPause(items) ==
  /\ \A i \in items : st[i] = "PROCESSING"
  /\ st' = [i \in Items |-> IF i \in items THEN "PAUSE_REQUESTED" ELSE st[i]]
  /\ UNCHANGED <<index, leaving>>

(* No item is paused unless it was asked to. *)
Pause(i) == Move(i, {"PAUSE_REQUESTED"}, "PAUSED") /\ UNCHANGED <<index, leaving>>

(* The index changes in the hands of a run only: that of a pending, paused,  *)
(* completed or failed item is left alone.                                   *)
Work(i) ==
  /\ st[i] \in Busy
  /\ \E parts \in SUBSET Parts : index' = [index EXCEPT ![i] = parts]
  /\ UNCHANGED <<st, leaving>>

(* Completed means that all of the document is there to be found. *)
Complete(i) ==
  /\ Move(i, Busy, "COMPLETED")
  /\ i \notin leaving => index[i] = Parts
  /\ UNCHANGED <<index, leaving>>

Fail(i) == Move(i, Busy, "FAILED") /\ UNCHANGED <<index, leaving>>

AcceptDelete(i) ==
  /\ st[i] \notin Busy \cup {"absent"}
  /\ leaving' = leaving \cup {i}
  /\ UNCHANGED <<st, index>>

Unindex(i) ==
  /\ i \in leaving
  /\ \E parts \in SUBSET index[i] : index' = [index EXCEPT ![i] = parts]
  /\ UNCHANGED <<st, leaving>>

Remove(i) ==
  /\ i \in leaving
  /\ st' = [st EXCEPT ![i] = "absent"]
  /\ index' = [index EXCEPT ![i] = {}]
  /\ leaving' = leaving \ {i}

GiveUpDelete(gone) ==
  /\ leaving' = leaving \ gone
  /\ UNCHANGED <<st, index>>

Next ==
  \/ \E i \in Items : \/ Claim(i) \/ Pause(i) \/ Work(i) \/ Complete(i) \/ Fail(i)
                      \/ AcceptDelete(i) \/ Unindex(i) \/ Remove(i)
  \/ \E items \in SUBSET Items : RequestPause(items)
  \/ \E gone \in SUBSET leaving : GiveUpDelete(gone)

Spec == Init /\ [][Next]_vars
=============================================================================
