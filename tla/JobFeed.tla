------------------------------- MODULE JobFeed -------------------------------
(***************************************************************************)
(* What the observation interface of a background job promises its readers *)
(* (backend/docs/tutorial/sse-contract.md, section 3.2), without queues,   *)
(* caches or connections: each job is a log that grows until it is closed, *)
(* a reader moves through the log forwards only, and a reader that is told *)
(* the log has ended has been given its last entry.  A reader may be made  *)
(* to skip entries: the log is a bounded cache and no durable record.      *)
(***************************************************************************)
EXTENDS Naturals

CONSTANTS Jobs, Readers, Nobody

VARIABLES
  length,    \* entries published in the log of each job
  closed,    \* will the log grow no more?
  reading,   \* the job a reader is connected to, or Nobody
  seen,      \* the last entry of each log a reader has been given
  complete   \* the logs a reader has been told the end of

vars == <<length, closed, reading, seen, complete>>

Init ==
  /\ length = [j \in Jobs |-> 0]
  /\ closed = [j \in Jobs |-> FALSE]
  /\ reading = [r \in Readers |-> Nobody]
  /\ seen = [r \in Readers |-> [j \in Jobs |-> 0]]
  /\ complete = [r \in Readers |-> {}]

Publish(j) ==
  /\ ~ closed[j]
  /\ length' = [length EXCEPT ![j] = @ + 1]
  /\ UNCHANGED <<closed, reading, seen, complete>>

(* Closing may publish one last entry, the one that says why. *)
Close(j) ==
  /\ ~ closed[j]
  /\ closed' = [closed EXCEPT ![j] = TRUE]
  /\ \/ length' = length
     \/ length' = [length EXCEPT ![j] = @ + 1]
  /\ UNCHANGED <<reading, seen, complete>>

Connect(r, j) ==
  /\ reading[r] = Nobody
  /\ reading' = [reading EXCEPT ![r] = j]
  /\ UNCHANGED <<length, closed, seen, complete>>

(* Forwards only, and never past the end of the log. *)
Receive(r) ==
  /\ reading[r] \in Jobs
  /\ \E n \in (seen[r][reading[r]] + 1) .. length[reading[r]] :
        seen' = [seen EXCEPT ![r][reading[r]] = n]
  /\ UNCHANGED <<length, closed, reading, complete>>

(* The reader is told the end only of a closed log it has read to the end. *)
ToldEnd(r) ==
  /\ reading[r] \in Jobs
  /\ closed[reading[r]]
  /\ seen[r][reading[r]] = length[reading[r]]
  /\ reading' = [reading EXCEPT ![r] = Nobody]
  /\ complete' = [complete EXCEPT ![r] = @ \cup {reading[r]}]
  /\ UNCHANGED <<length, closed, seen>>

Leave(r) ==
  /\ reading[r] \in Jobs
  /\ reading' = [reading EXCEPT ![r] = Nobody]
  /\ UNCHANGED <<length, closed, seen, complete>>

Forget(r) ==
  /\ reading[r] = Nobody
  /\ seen' = [seen EXCEPT ![r] = [j \in Jobs |-> 0]]
  /\ complete' = [complete EXCEPT ![r] = {}]
  /\ UNCHANGED <<length, closed, reading>>

Next ==
  \/ \E j \in Jobs : Publish(j) \/ Close(j)
  \/ \E r \in Readers, j \in Jobs : Connect(r, j)
  \/ \E r \in Readers : Receive(r) \/ ToldEnd(r) \/ Leave(r) \/ Forget(r)

Spec == Init /\ [][Next]_vars
=============================================================================
