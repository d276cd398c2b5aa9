-------------------------- MODULE ItemIndexingProofs --------------------------
(***************************************************************************)
(* Proofs about the indexing of ItemIndexing, for any finite set of items, *)
(* any number of batches and any concurrency, with lock timeouts and       *)
(* crashes.                                                                *)
(***************************************************************************)
EXTENDS ItemIndexing, FiniteSetTheorems, TLAPS

-----------------------------------------------------------------------------
(* Places and batches. *)

Checkpoints == {"claimed", "loaded", "parsed", "split", "batch", "indexed"}
Behind == {"loading", "parsing", "splitting", "preparing", "embedding", "finishing"}

LEMMA CheckpointPositions ==
  /\ DOMAIN AfterCheckpoint = Checkpoints
  /\ \A p \in Checkpoints : AfterCheckpoint[p] \in Behind
  /\ \A p \in Checkpoints : AfterCheckpoint[p] = "embedding" <=> p = "batch"
  /\ \A p \in Checkpoints : AfterCheckpoint[p] = "finishing" <=> p = "indexed"
  BY DEF AfterCheckpoint, Checkpoints, Behind

LEMMA AllPositions ==
  Positions = Checkpoints \cup Behind \cup {"idle", "queued", "clearing", "adding", "failing", "done"}
<1>1. \A p \in Behind : \E q \in Checkpoints : p = AfterCheckpoint[q]
  BY DEF AfterCheckpoint, Checkpoints, Behind
<1> QED
  BY <1>1, CheckpointPositions DEF Positions

LEMMA PrefixCardinality ==
  ASSUME NEW k \in Nat
  PROVE  Cardinality(1 .. k) = k
  BY FS_Interval

LEMMA NextOfPrefix ==
  ASSUME NumBatches \in Nat, NEW k \in 0 .. NumBatches, 1 .. k # Batches
  PROVE  k + 1 \in Batches /\ 1 .. k \cup {k + 1} = 1 .. (k + 1)
  BY DEF Batches

-----------------------------------------------------------------------------
(* The parts of the type invariant that say of which kind the values are. *)
Types ==
  /\ status \in [Items -> Status]
  /\ content \in [Items -> BOOLEAN]
  /\ rows \in [Items -> SUBSET Batches]
  /\ vectors \in [Items -> SUBSET Batches]
  /\ lock \in Items \cup {NoOne}
  /\ draft \in [Items -> SUBSET Batches]
  /\ job \in SUBSET Items
  /\ allowed \in SUBSET Claimable
  /\ pc \in [Items -> Positions]
  /\ report \in [Items -> {"none", "skipped", "completed", "paused", "failed"}]
  /\ pausing \in SUBSET Items
  /\ deleting \in [Items -> {"no", "checked", "purged"}]
  /\ crashes \in 0 .. MaxCrashes

(* A session has written a prefix of the batches: what NextBatch counts on. *)
DraftsInOrder ==
  \A i \in Items :
    \E k \in 0 .. NumBatches :
      /\ draft[i] = 1 .. k
      /\ pc[i] = "embedding" => k < NumBatches
      /\ pc[i] = "adding" => k > 0

(* The items of the job have a worker each, no other item has one. *)
WorkersOfJob == \A i \in Items : pc[i] = "idle" <=> i \notin job

TypeInv ==
  /\ Types
  /\ LockHeldByWriter
  /\ SlotsRespected
  /\ DraftsInOrder
  /\ WorkersOfJob

(* What a step outside the workers can be. *)
RequestStep ==
  \/ \E items \in SUBSET Items : PauseRead(items)
  \/ PauseWrite \/ PauseFails
  \/ \E i \in Items : DeleteStep(i)

JobStep ==
  \/ \E items \in SUBSET Items : StartIndexing(items) \/ StartResume(items)
  \/ JobEnds

(* The number a batch gets when it is stored. *)
LEMMA StoredBatch ==
  ASSUME DraftsInOrder, NEW i \in Items, pc[i] = "embedding"
  PROVE  \E k \in 0 .. NumBatches :
           /\ k < NumBatches
           /\ draft[i] = 1 .. k
           /\ NextBatch(i) = k + 1
           /\ draft[i] \cup {NextBatch(i)} = 1 .. (k + 1)
<1>1. NumBatches \in Nat
  BY ItemIndexingAssumption
<1>2. PICK k \in 0 .. NumBatches : draft[i] = 1 .. k /\ k < NumBatches
  BY DEF DraftsInOrder
<1>3. Cardinality(draft[i]) = k
  BY <1>1, <1>2, PrefixCardinality
<1>4. 1 .. k \cup {k + 1} = 1 .. (k + 1)
  BY <1>1
<1> QED
  BY <1>2, <1>3, <1>4 DEF NextBatch

LEMMA AddedBatch ==
  ASSUME DraftsInOrder, NEW i \in Items, pc[i] = "adding"
  PROVE  \E k \in 1 .. NumBatches : draft[i] = 1 .. k /\ Cardinality(draft[i]) = k
<1>1. NumBatches \in Nat
  BY ItemIndexingAssumption
<1>2. PICK k \in 0 .. NumBatches : draft[i] = 1 .. k /\ k > 0
  BY DEF DraftsInOrder
<1>3. Cardinality(draft[i]) = k
  BY <1>1, <1>2, PrefixCardinality
<1> QED
  BY <1>1, <1>2, <1>3

-----------------------------------------------------------------------------
(* What every step of a worker has in common: it moves its own place only,  *)
(* and enters the semaphore when there is a slot.                            *)
LEMMA WorkerMoves ==
  ASSUME Types, NEW i \in Items, WorkerStep(i)
  PROVE  /\ \E p \in Positions \ {"idle", "queued"} : pc' = [pc EXCEPT ![i] = p]
         /\ pc[i] \notin {"idle", "done"}
         /\ pc[i] = "queued" => HasSlot
<1> DEFINE Moves ==
      /\ \E p \in Positions \ {"idle", "queued"} : pc' = [pc EXCEPT ![i] = p]
      /\ pc[i] \notin {"idle", "done"}
      /\ pc[i] = "queued" => HasSlot
<1>1. CASE Claim(i) \/ Skip(i) \/ ClaimsNothing(i)
  <2>1. pc[i] = "queued" /\ HasSlot
    BY <1>1 DEF Claim, Skip, ClaimsNothing
  <2>2. pc' = [pc EXCEPT ![i] = "claimed"] \/ pc' = [pc EXCEPT ![i] = "done"]
          \/ pc' = [pc EXCEPT ![i] = "failing"]
    BY <1>1 DEF Claim, Skip, ClaimsNothing, Raise, Goto, Leave
  <2> QED
    BY <2>1, <2>2, AllPositions DEF Checkpoints
<1>2. CASE CheckpointPasses(i)
  <2>1. pc[i] \in Checkpoints /\ pc' = [pc EXCEPT ![i] = AfterCheckpoint[pc[i]]]
    BY <1>2, CheckpointPositions DEF CheckpointPasses, AtCheckpoint, Goto
  <2>2. AfterCheckpoint[pc[i]] \in Behind
    BY <2>1, CheckpointPositions
  <2> QED
    BY <2>1, <2>2, AllPositions DEF Checkpoints, Behind
<1>3. CASE CheckpointPauses(i) \/ CheckpointRaises(i)
  <2>1. pc[i] \in Checkpoints
    BY <1>3, CheckpointPositions DEF CheckpointPauses, CheckpointRaises, AtCheckpoint
  <2>2. pc' = [pc EXCEPT ![i] = "done"] \/ pc' = [pc EXCEPT ![i] = "failing"]
    BY <1>3 DEF CheckpointPauses, CheckpointRaises, Raise, Goto, Leave
  <2> QED
    BY <2>1, <2>2, AllPositions DEF Checkpoints
<1>4. CASE UseContent(i) \/ LoadFile(i) \/ Parse(i) \/ Split(i)
  <2>1. pc[i] \in Behind
    BY <1>4 DEF UseContent, LoadFile, Parse, Split, Behind
  <2>2. \E p \in Checkpoints : pc' = [pc EXCEPT ![i] = p]
    BY <1>4 DEF UseContent, LoadFile, Parse, Split, Goto, Checkpoints
  <2> QED
    BY <2>1, <2>2, AllPositions DEF Checkpoints, Behind
<1>5. CASE DropOldVectors(i) \/ ClearOldRows(i) \/ StoreRows(i) \/ AddVectors(i)
             \/ CommitIndex(i) \/ Complete(i)
  <2>1. pc[i] \in {"preparing", "clearing", "embedding", "adding", "batch", "finishing"}
    BY <1>5 DEF DropOldVectors, ClearOldRows, StoreRows, AddVectors, CommitIndex, Complete
  <2>2. \E p \in {"clearing", "batch", "adding", "indexed", "done"} : pc' = [pc EXCEPT ![i] = p]
    BY <1>5 DEF DropOldVectors, ClearOldRows, StoreRows, AddVectors, CommitIndex, Complete,
                Goto, Leave
  <2> QED
    BY <2>1, <2>2, AllPositions DEF Checkpoints
<1>6. CASE WritesMissingItem(i) \/ WorkFails(i) \/ LockTimesOut(i)
  <2>1. pc[i] \notin {"idle", "done"} /\ (pc[i] = "queued" => HasSlot)
    BY <1>6, CheckpointPositions
    DEF WritesMissingItem, WorkFails, LockTimesOut, AtCheckpoint, Checkpoints
  <2>2. pc' = [pc EXCEPT ![i] = "failing"]
    BY <1>6 DEF WritesMissingItem, WorkFails, LockTimesOut, Raise, Goto
  <2> QED
    BY <2>1, <2>2, AllPositions
<1>7. CASE MarkFailed(i) \/ WorkerDies(i)
  <2>1. pc[i] = "failing" /\ pc' = [pc EXCEPT ![i] = "done"]
    BY <1>7 DEF MarkFailed, WorkerDies, Goto, Leave
  <2> QED
    BY <2>1, AllPositions
<1> QED
  BY <1>1, <1>2, <1>3, <1>4, <1>5, <1>6, <1>7 DEF WorkerStep

-----------------------------------------------------------------------------
(* Type correctness. *)

LEMMA WorkerKeepsTypes ==
  ASSUME Types, DraftsInOrder, NEW i \in Items, WorkerStep(i)
  PROVE  Types'
<1> USE DEF Types, jobVars, requestVars
<1>1. pc' \in [Items -> Positions]
  BY WorkerMoves
<1>2. CASE Claim(i) \/ Skip(i)
  BY <1>1, <1>2 DEF Claim, Skip, Leave, Status
<1>3. CASE \E j \in {i} : Raise(j)
  BY <1>1, <1>3 DEF Raise
<1>4. CASE CheckpointPasses(i) \/ CheckpointPauses(i)
  BY <1>1, <1>4 DEF CheckpointPasses, CheckpointPauses, Leave, Status
<1>5. CASE UseContent(i) \/ LoadFile(i) \/ Parse(i) \/ Split(i)
  BY <1>1, <1>5 DEF UseContent, LoadFile, Parse, Split
<1>6. CASE DropOldVectors(i) \/ ClearOldRows(i)
  BY <1>1, <1>6 DEF DropOldVectors, ClearOldRows
<1>7. CASE StoreRows(i)
  <2>1. NextBatch(i) \in Batches
    <3>1. PICK k \in 0 .. NumBatches : k < NumBatches /\ NextBatch(i) = k + 1
      BY <1>7, StoredBatch DEF StoreRows
    <3> QED
      BY <3>1, ItemIndexingAssumption DEF Batches
  <2>2. draft' = [draft EXCEPT ![i] = @ \cup {NextBatch(i)}]
    BY <1>7 DEF StoreRows
  <2>3. draft' \in [Items -> SUBSET Batches]
    BY <2>1, <2>2
  <2> QED
    BY <1>1, <1>7, <2>3 DEF StoreRows
<1>8. CASE AddVectors(i)
  <2>1. Cardinality(draft[i]) \in Batches
    <3>1. PICK k \in 1 .. NumBatches : Cardinality(draft[i]) = k
      BY <1>8, AddedBatch DEF AddVectors
    <3> QED
      BY <3>1 DEF Batches
  <2>2. vectors' = [vectors EXCEPT ![i] = @ \cup {Cardinality(draft[i])}]
    BY <1>8 DEF AddVectors
  <2>3. vectors' \in [Items -> SUBSET Batches]
    BY <2>1, <2>2
  <2> QED
    BY <1>1, <1>8, <2>3 DEF AddVectors
<1>9. CASE CommitIndex(i) \/ Complete(i)
  BY <1>1, <1>9 DEF CommitIndex, Complete, Leave, Status
<1>10. CASE MarkFailed(i) \/ WorkerDies(i)
  BY <1>1, <1>10 DEF MarkFailed, WorkerDies, Leave, Status
<1> QED
  BY <1>2, <1>3, <1>4, <1>5, <1>6, <1>7, <1>8, <1>9, <1>10
  DEF WorkerStep, ClaimsNothing, CheckpointRaises, WritesMissingItem, WorkFails, LockTimesOut

LEMMA RequestsKeepTypes ==
  ASSUME Types, RequestStep
  PROVE  Types' /\ UNCHANGED <<lock, draft, job, allowed, pc, report, crashes>>
<1> USE DEF Types, jobVars, requestVars
<1>1. CASE \E items \in SUBSET Items : PauseRead(items)
  BY <1>1 DEF PauseRead
<1>2. CASE PauseWrite \/ PauseFails
  BY <1>2 DEF PauseWrite, PauseFails, Status
<1>3. ASSUME NEW i \in Items, DeleteCheck(i) \/ DeleteFails(i)
      PROVE  Types' /\ UNCHANGED <<lock, draft, job, allowed, pc, report, crashes>>
  BY <1>3 DEF DeleteCheck, DeleteFails
<1>4. ASSUME NEW i \in Items, DeleteVectors(i)
      PROVE  Types' /\ UNCHANGED <<lock, draft, job, allowed, pc, report, crashes>>
  BY <1>4 DEF DeleteVectors
<1>5. ASSUME NEW i \in Items, DeleteRow(i)
      PROVE  Types' /\ UNCHANGED <<lock, draft, job, allowed, pc, report, crashes>>
  BY <1>5 DEF DeleteRow, Status
<1> QED
  BY <1>1, <1>2, <1>3, <1>4, <1>5 DEF RequestStep, DeleteStep

LEMMA JobsKeepTypes ==
  ASSUME Types, JobStep
  PROVE  /\ Types'
         /\ UNCHANGED <<status, content, rows, vectors, lock, draft, pausing, deleting, crashes>>
<1> USE DEF Types, jobVars, requestVars
<1>1. ASSUME NEW items \in SUBSET Items, NEW statuses \in SUBSET Claimable,
             StartJob(items, statuses)
      PROVE  /\ Types'
             /\ UNCHANGED <<status, content, rows, vectors, lock, draft, pausing, deleting, crashes>>
  BY <1>1, AllPositions DEF StartJob
<1>2. CASE \E items \in SUBSET Items : StartIndexing(items) \/ StartResume(items)
  BY <1>1, <1>2 DEF StartIndexing, StartResume, Claimable
<1>3. CASE JobEnds
  BY <1>3, AllPositions DEF JobEnds
<1> QED
  BY <1>2, <1>3 DEF JobStep

LEMMA CrashKeepsTypes ==
  ASSUME Types, Crash
  PROVE  Types'
  BY AllPositions, ItemIndexingAssumption DEF Crash, Types

-----------------------------------------------------------------------------
(* The semaphore. *)

LEMMA SlotsKeep ==
  ASSUME SlotsRespected, InSlots' \subseteq InSlots
  PROVE  SlotsRespected'
<1>1. IsFiniteSet(InSlots)
  BY FS_Subset, ItemIndexingAssumption DEF InSlots
<1>2. Cardinality(InSlots') <= Cardinality(InSlots)
  BY <1>1, FS_Subset
<1>3. Cardinality(InSlots) \in Nat /\ Cardinality(InSlots') \in Nat
  BY <1>1, FS_Subset, FS_CardinalityType
<1> QED
  BY <1>2, <1>3, ItemIndexingAssumption DEF SlotsRespected

LEMMA SlotsEnter ==
  ASSUME HasSlot, NEW i, InSlots' \subseteq InSlots \cup {i}
  PROVE  SlotsRespected'
<1>1. IsFiniteSet(InSlots)
  BY FS_Subset, ItemIndexingAssumption DEF InSlots
<1>2. /\ IsFiniteSet(InSlots \cup {i})
      /\ Cardinality(InSlots \cup {i}) <= Cardinality(InSlots) + 1
  <2>1. Cardinality(InSlots) \in Nat
    BY <1>1, FS_CardinalityType
  <2>2. /\ IsFiniteSet(InSlots \cup {i})
        /\ Cardinality(InSlots \cup {i})
             = IF i \in InSlots THEN Cardinality(InSlots) ELSE Cardinality(InSlots) + 1
    BY <1>1, FS_AddElement
  <2> QED
    BY <2>1, <2>2
<1>3. Cardinality(InSlots') <= Cardinality(InSlots \cup {i})
  BY <1>2, FS_Subset
<1>4. /\ Cardinality(InSlots) \in Nat
      /\ Cardinality(InSlots') \in Nat
      /\ Cardinality(InSlots \cup {i}) \in Nat
  BY <1>1, <1>2, FS_Subset, FS_CardinalityType
<1> QED
  BY <1>2, <1>3, <1>4, ItemIndexingAssumption DEF SlotsRespected, HasSlot

LEMMA WorkerKeepsSlots ==
  ASSUME Types, SlotsRespected, NEW i \in Items, WorkerStep(i)
  PROVE  SlotsRespected'
<1>1. PICK p \in Positions : pc' = [pc EXCEPT ![i] = p]
  BY WorkerMoves
<1>2. InSlots' \subseteq InSlots \cup {i}
  BY <1>1 DEF InSlots, Types
<1>3. CASE pc[i] = "queued"
  BY <1>2, <1>3, WorkerMoves, SlotsEnter
<1>4. CASE pc[i] # "queued"
  <2>1. i \in InSlots
    BY <1>4, WorkerMoves DEF InSlots
  <2> QED
    BY <1>2, <2>1, SlotsKeep
<1> QED
  BY <1>3, <1>4

-----------------------------------------------------------------------------
(* The write lock. *)

LEMMA WorkerKeepsLock ==
  ASSUME Types, LockHeldByWriter, NEW i \in Items, WorkerStep(i)
  PROVE  LockHeldByWriter'
<1> USE DEF Types, LockHeldByWriter, WritingPositions, Goto, Leave
<1>1. CASE Claim(i) \/ Skip(i)
  BY <1>1 DEF Claim, Skip
<1>2. CASE \E j \in {i} : Raise(j)
  BY <1>2, ItemIndexingAssumption DEF Raise
<1>3. CASE CheckpointPasses(i)
  <2>1. pc[i] \in Checkpoints /\ pc' = [pc EXCEPT ![i] = AfterCheckpoint[pc[i]]]
           /\ UNCHANGED lock
    BY <1>3, CheckpointPositions DEF CheckpointPasses, AtCheckpoint
  <2>2. AfterCheckpoint[pc[i]] \in Behind /\ (AfterCheckpoint[pc[i]] = "embedding" <=> pc[i] = "batch")
    BY <2>1, CheckpointPositions
  <2> QED
    BY <2>1, <2>2 DEF Checkpoints, Behind
<1>4. CASE CheckpointPauses(i)
  BY <1>4, ItemIndexingAssumption DEF CheckpointPauses
<1>5. CASE UseContent(i) \/ LoadFile(i) \/ Parse(i) \/ Split(i) \/ DropOldVectors(i)
  BY <1>5 DEF UseContent, LoadFile, Parse, Split, DropOldVectors
<1>6. CASE ClearOldRows(i)
  BY <1>6, ItemIndexingAssumption DEF ClearOldRows
<1>7. CASE StoreRows(i) \/ AddVectors(i)
  BY <1>7 DEF StoreRows, AddVectors
<1>8. CASE CommitIndex(i)
  BY <1>8, ItemIndexingAssumption DEF CommitIndex
<1>9. CASE Complete(i) \/ MarkFailed(i) \/ WorkerDies(i)
  BY <1>9 DEF Complete, MarkFailed, WorkerDies
<1> QED
  BY <1>1, <1>2, <1>3, <1>4, <1>5, <1>6, <1>7, <1>8, <1>9
  DEF WorkerStep, ClaimsNothing, CheckpointRaises, WritesMissingItem, WorkFails, LockTimesOut

-----------------------------------------------------------------------------
(* The batches of a session. *)

LEMMA WorkerKeepsDrafts ==
  ASSUME Types, DraftsInOrder, NEW i \in Items, WorkerStep(i)
  PROVE  DraftsInOrder'
<1> USE DEF Types, Goto, Leave
<1>n. NumBatches \in Nat /\ 0 \in 0 .. NumBatches /\ {} = 1 .. 0
  BY ItemIndexingAssumption
<1>m. PICK p \in Positions : pc' = [pc EXCEPT ![i] = p]
  BY WorkerMoves
<1>a. ASSUME UNCHANGED draft, pc'[i] \notin {"embedding", "adding"}
      PROVE  DraftsInOrder'
  BY <1>a, <1>m DEF DraftsInOrder
<1>b. ASSUME draft' = [draft EXCEPT ![i] = {}], pc'[i] \notin {"embedding", "adding"}
      PROVE  DraftsInOrder'
  BY <1>b, <1>m, <1>n DEF DraftsInOrder
<1>1. CASE Claim(i) \/ Skip(i)
  BY <1>1, <1>a DEF Claim, Skip
<1>2. CASE \E j \in {i} : Raise(j)
  BY <1>2, <1>b DEF Raise
<1>3. CASE CheckpointPasses(i)
  <2>1. /\ pc[i] \in Checkpoints /\ pc' = [pc EXCEPT ![i] = AfterCheckpoint[pc[i]]]
        /\ UNCHANGED draft
        /\ pc[i] = "batch" => draft[i] # Batches
    BY <1>3, CheckpointPositions DEF CheckpointPasses, AtCheckpoint
  <2>2. AfterCheckpoint[pc[i]] \in Behind /\ (AfterCheckpoint[pc[i]] = "embedding" <=> pc[i] = "batch")
    BY <2>1, CheckpointPositions
  <2>3. CASE pc[i] # "batch"
    BY <2>1, <2>2, <2>3, <1>a DEF Behind
  <2>4. CASE pc[i] = "batch"
    <3>1. \E k \in 0 .. NumBatches : draft'[i] = 1 .. k /\ k < NumBatches
      BY <2>1, <2>4, <1>n DEF DraftsInOrder, Batches
    <3>2. pc' = [pc EXCEPT ![i] = "embedding"]
      BY <2>1, <2>2, <2>4
    <3> QED
      BY <2>1, <3>1, <3>2 DEF DraftsInOrder
  <2> QED
    BY <2>3, <2>4
<1>4. CASE CheckpointPauses(i)
  BY <1>4, <1>a DEF CheckpointPauses
<1>5. CASE UseContent(i) \/ LoadFile(i) \/ Parse(i) \/ Split(i) \/ DropOldVectors(i)
  BY <1>5, <1>a DEF UseContent, LoadFile, Parse, Split, DropOldVectors
<1>6. CASE ClearOldRows(i)
  BY <1>6, <1>b DEF ClearOldRows
<1>7. CASE StoreRows(i)
  <2>1. PICK k \in 0 .. NumBatches : k < NumBatches /\ draft[i] \cup {NextBatch(i)} = 1 .. (k + 1)
    BY <1>7, StoredBatch DEF StoreRows
  <2>2. k + 1 \in 0 .. NumBatches /\ k + 1 > 0
    BY <2>1, <1>n
  <2>3. draft' = [draft EXCEPT ![i] = 1 .. (k + 1)] /\ pc' = [pc EXCEPT ![i] = "adding"]
    BY <1>7, <2>1 DEF StoreRows
  <2> QED
    BY <2>2, <2>3 DEF DraftsInOrder
<1>8. CASE AddVectors(i)
  BY <1>8, <1>a DEF AddVectors
<1>9. CASE CommitIndex(i)
  BY <1>9, <1>b DEF CommitIndex
<1>10. CASE Complete(i) \/ MarkFailed(i) \/ WorkerDies(i)
  BY <1>10, <1>a DEF Complete, MarkFailed, WorkerDies
<1> QED
  BY <1>1, <1>2, <1>3, <1>4, <1>5, <1>6, <1>7, <1>8, <1>9, <1>10
  DEF WorkerStep, ClaimsNothing, CheckpointRaises, WritesMissingItem, WorkFails, LockTimesOut

LEMMA WorkerKeepsTypeInv ==
  ASSUME TypeInv, NEW i \in Items, WorkerStep(i)
  PROVE  TypeInv'
<1> USE DEF TypeInv
<1>1. UNCHANGED job
  BY DEF WorkerStep, Claim, Skip, ClaimsNothing, CheckpointPasses, CheckpointPauses,
         CheckpointRaises, UseContent, LoadFile, Parse, Split, DropOldVectors, ClearOldRows,
         StoreRows, AddVectors, CommitIndex, Complete, WritesMissingItem, WorkFails,
         LockTimesOut, MarkFailed, WorkerDies, Raise, Leave, jobVars
<1>2. WorkersOfJob'
  BY <1>1, WorkerMoves DEF WorkersOfJob, Types
<1> QED
  BY <1>2, WorkerKeepsTypes, WorkerKeepsLock, WorkerKeepsSlots, WorkerKeepsDrafts

LEMMA RequestsKeepTypeInv ==
  ASSUME TypeInv, RequestStep
  PROVE  TypeInv'
<1>1. Types' /\ UNCHANGED <<lock, draft, job, allowed, pc, report, crashes>>
  BY RequestsKeepTypes DEF TypeInv
<1>2. SlotsRespected'
  BY <1>1 DEF TypeInv, SlotsRespected, InSlots
<1>3. LockHeldByWriter' /\ DraftsInOrder' /\ WorkersOfJob'
  BY <1>1 DEF TypeInv, LockHeldByWriter, DraftsInOrder, WorkersOfJob
<1> QED
  BY <1>1, <1>2, <1>3 DEF TypeInv

LEMMA JobsKeepTypeInv ==
  ASSUME TypeInv, JobStep
  PROVE  TypeInv'
<1>1. Types' /\ UNCHANGED <<lock, draft>>
  BY JobsKeepTypes DEF TypeInv
(* No worker is at work before a job and after it. *)
<1>2. \A i \in Items : pc[i] \in {"idle", "done"} /\ pc'[i] \in {"idle", "queued"}
  <2>1. CASE \E items \in SUBSET Items : StartIndexing(items) \/ StartResume(items)
    BY <2>1 DEF TypeInv, WorkersOfJob, StartIndexing, StartResume, StartJob
  <2>2. CASE JobEnds
    BY <2>2 DEF TypeInv, WorkersOfJob, JobEnds
  <2> QED
    BY <2>1, <2>2 DEF JobStep
<1>3. WorkersOfJob'
  <2>1. CASE \E items \in SUBSET Items : StartIndexing(items) \/ StartResume(items)
    BY <2>1 DEF TypeInv, WorkersOfJob, StartIndexing, StartResume, StartJob
  <2>2. CASE JobEnds
    BY <2>2 DEF TypeInv, WorkersOfJob, JobEnds
  <2> QED
    BY <2>1, <2>2 DEF JobStep
<1>4. SlotsRespected'
  <2>1. InSlots' \subseteq InSlots
    BY <1>2 DEF InSlots
  <2> QED
    BY <2>1, SlotsKeep DEF TypeInv
<1>5. LockHeldByWriter'
  BY <1>1, <1>2 DEF TypeInv, LockHeldByWriter, WritingPositions
<1>6. DraftsInOrder'
  BY <1>1, <1>2 DEF TypeInv, DraftsInOrder
<1> QED
  BY <1>1, <1>3, <1>4, <1>5, <1>6 DEF TypeInv

LEMMA CrashKeepsTypeInv ==
  ASSUME TypeInv, Crash
  PROVE  TypeInv'
<1>1. Types'
  BY CrashKeepsTypes DEF TypeInv
<1>2. \A i \in Items : pc'[i] = "idle" /\ draft'[i] = {}
  BY DEF Crash
<1>3. lock' = NoOne /\ job' = {}
  BY DEF Crash
<1>4. SlotsRespected'
  <2>1. InSlots' \subseteq InSlots
    BY <1>2 DEF InSlots
  <2> QED
    BY <2>1, SlotsKeep DEF TypeInv
<1>5. LockHeldByWriter' /\ WorkersOfJob'
  BY <1>2, <1>3, ItemIndexingAssumption DEF LockHeldByWriter, WritingPositions, WorkersOfJob
<1>6. DraftsInOrder'
  <2>1. 0 \in 0 .. NumBatches /\ {} = 1 .. 0
    BY ItemIndexingAssumption
  <2> QED
    BY <1>2, <2>1 DEF DraftsInOrder
<1> QED
  BY <1>1, <1>4, <1>5, <1>6 DEF TypeInv

LEMMA TypeInvHolds == Spec => []TypeInv
<1>1. Init => TypeInv
  <2> SUFFICES ASSUME Init PROVE TypeInv
    OBVIOUS
  <2>1. Types
    BY AllPositions, ItemIndexingAssumption DEF Init, Types, Status
  <2>2. InSlots = {}
    BY DEF Init, InSlots
  <2>3. SlotsRespected
    BY <2>2, FS_EmptySet, ItemIndexingAssumption DEF SlotsRespected
  <2>4. LockHeldByWriter /\ WorkersOfJob
    BY ItemIndexingAssumption DEF Init, LockHeldByWriter, WritingPositions, WorkersOfJob
  <2>5. DraftsInOrder
    <3>1. 0 \in 0 .. NumBatches /\ {} = 1 .. 0
      BY ItemIndexingAssumption
    <3> QED
      BY <3>1 DEF Init, DraftsInOrder
  <2> QED
    BY <2>1, <2>3, <2>4, <2>5 DEF TypeInv
<1>2. TypeInv /\ [Next]_vars => TypeInv'
  <2> SUFFICES ASSUME TypeInv, [Next]_vars PROVE TypeInv'
    OBVIOUS
  <2>1. CASE \E i \in Items : WorkerStep(i)
    BY <2>1, WorkerKeepsTypeInv
  <2>2. CASE RequestStep
    BY <2>2, RequestsKeepTypeInv
  <2>3. CASE JobStep
    BY <2>3, JobsKeepTypeInv
  <2>4. CASE Crash
    BY <2>4, CrashKeepsTypeInv
  <2>5. CASE UNCHANGED vars
    <3>1. SlotsRespected'
      BY <2>5 DEF TypeInv, SlotsRespected, InSlots, vars
    <3>2. LockHeldByWriter' /\ DraftsInOrder' /\ WorkersOfJob'
      BY <2>5 DEF TypeInv, LockHeldByWriter, DraftsInOrder, WorkersOfJob, vars
    <3>3. Types'
      BY <2>5 DEF TypeInv, Types, vars, jobVars, requestVars
    <3> QED
      BY <3>1, <3>2, <3>3 DEF TypeInv
  <2> QED
    BY <2>1, <2>2, <2>3, <2>4, <2>5 DEF Next, RequestStep, JobStep
<1> QED
  BY <1>1, <1>2, PTL DEF Spec

(* The stores, the lock and the semaphore keep their kinds: at any time at   *)
(* most Concurrency workers are past the semaphore, and the session that     *)
(* holds the write lock is that of the one worker between its DELETE and its *)
(* commit.                                                                   *)
THEOREM IndexingTypeCorrect == Spec => []TypeOK
<1>1. TypeInv => TypeOK
  BY DEF TypeInv, Types, TypeOK
<1> QED
  BY <1>1, TypeInvHolds, PTL

-----------------------------------------------------------------------------
(***************************************************************************)
(* What the stores hold of an item, proved of ItemIndexing: the reports of *)
(* the workers against the statuses, and the chunk rows against the        *)
(* vectors.                                                                *)
(***************************************************************************)

-----------------------------------------------------------------------------
(* The invariant. *)

AtWork == Checkpoints \cup Behind \cup {"clearing", "adding"}

(* A worker that works on an item has claimed it, and nothing but a delete   *)
(* request lets it lose the claim.                                           *)
ClaimKept ==
  \A i \in Items : pc[i] \in AtWork => status[i] \in DeleteBlocked \cup {"absent"}

(* A worker reports last of all. *)
ReportsAreLast == \A i \in Items : report[i] # "none" => pc[i] \in {"idle", "done"}

(* Nothing comes between the two halves of a deletion: the vectors, then the *)
(* row.                                                                      *)
DeletionsAreWhole == Deletable = {} \/ (MaxCrashes = 0 /\ ~ LockTimeouts)

NoDeleteWithoutRequest == Deletable = {} => \A i \in Items : deleting[i] = "no"

(* An item that no deletion has touched: the vectors keep up with the rows   *)
(* of the session, and what is committed as indexed is whole.                *)
Untouched(i) == deleting[i] # "purged" /\ status[i] # "absent"

Whole(i) == rows[i] = Batches /\ vectors[i] = Batches

VectorsKeepUp(i) ==
  /\ pc[i] \in {"batch", "embedding"} => draft[i] \subseteq vectors[i]
  /\ pc[i] = "adding" => draft[i] \subseteq vectors[i] \cup {Cardinality(draft[i])}
  /\ pc[i] \in {"indexed", "finishing"} \/ status[i] = "COMPLETED" => Whole(i)

IndexedIsWhole ==
  DeletionsAreWhole => \A i \in Items : Untouched(i) => VectorsKeepUp(i)

(* Without a crash: every vector has its row, committed or in the session. *)
VectorsHaveRows(i) ==
  /\ pc[i] \notin {"clearing"} \cup WritingPositions => vectors[i] \subseteq rows[i]
  /\ pc[i] = "clearing" => vectors[i] = {}
  /\ pc[i] \in WritingPositions => vectors[i] \subseteq draft[i]

RowsUnderVectors ==
  crashes = 0 => \A i \in Items : status[i] # "absent" => VectorsHaveRows(i)

StoreInv ==
  /\ ClaimKept
  /\ ReportsAreLast
  /\ ReportTruth
  /\ NoDeleteWithoutRequest
  /\ IndexedIsWhole
  /\ RowsUnderVectors

-----------------------------------------------------------------------------
(* A worker touches what is its item's own. *)

OwnUnchanged(j) ==
  /\ status'[j] = status[j]
  /\ rows'[j] = rows[j]
  /\ vectors'[j] = vectors[j]
  /\ draft'[j] = draft[j]
  /\ pc'[j] = pc[j]
  /\ report'[j] = report[j]

LEMMA WorkerTouchesOwn ==
  ASSUME Types, NEW i \in Items, WorkerStep(i)
  PROVE  /\ \A j \in Items \ {i} : OwnUnchanged(j)
         /\ UNCHANGED <<deleting, crashes>>
<1> USE DEF Types, Goto, Leave, OwnUnchanged, jobVars, requestVars
<1>1. CASE Claim(i) \/ Skip(i)
  BY <1>1 DEF Claim, Skip
<1>2. CASE \E j \in {i} : Raise(j)
  BY <1>2 DEF Raise
<1>3. CASE CheckpointPasses(i) \/ CheckpointPauses(i)
  BY <1>3 DEF CheckpointPasses, CheckpointPauses
<1>4. CASE UseContent(i) \/ LoadFile(i) \/ Parse(i) \/ Split(i)
  BY <1>4 DEF UseContent, LoadFile, Parse, Split
<1>5. CASE DropOldVectors(i) \/ ClearOldRows(i)
  BY <1>5 DEF DropOldVectors, ClearOldRows
<1>6. CASE StoreRows(i) \/ AddVectors(i) \/ CommitIndex(i)
  BY <1>6 DEF StoreRows, AddVectors, CommitIndex
<1>7. CASE Complete(i) \/ MarkFailed(i) \/ WorkerDies(i)
  BY <1>7 DEF Complete, MarkFailed, WorkerDies
<1> QED
  BY <1>1, <1>2, <1>3, <1>4, <1>5, <1>6, <1>7
  DEF WorkerStep, ClaimsNothing, CheckpointRaises, WritesMissingItem, WorkFails, LockTimesOut

(* What requests can do to an item. *)
LEMMA RequestsTouch ==
  ASSUME Types, RequestStep, NEW j \in Items
  PROVE  /\ UNCHANGED <<draft, lock, pc, report, crashes>>
         /\ \/ status'[j] = status[j]
            \/ status[j] = "PROCESSING" /\ status'[j] = "PAUSE_REQUESTED"
            \/ status'[j] = "absent"
         /\ status[j] = "absent" => status'[j] = "absent"
         /\ rows'[j] = rows[j] \/ status'[j] = "absent"
         /\ vectors'[j] \subseteq vectors[j]
         /\ vectors'[j] = vectors[j] \/ deleting'[j] = "purged"
         /\ Untouched(j)' /\ (LockTimeouts => deleting[j] # "purged") => Untouched(j)
         /\ deleting[j] = "no" /\ deleting'[j] # "no" => j \in Deletable
<1> USE DEF Types, jobVars, requestVars, Untouched
<1>1. CASE \E items \in SUBSET Items : PauseRead(items)
  BY <1>1 DEF PauseRead
<1>2. CASE PauseWrite \/ PauseFails
  BY <1>2 DEF PauseWrite, PauseFails
<1>3. CASE \E i \in Items : DeleteCheck(i) \/ DeleteFails(i)
  BY <1>3 DEF DeleteCheck, DeleteFails
<1>4. CASE \E i \in Items : DeleteVectors(i)
  BY <1>4 DEF DeleteVectors
<1>5. CASE \E i \in Items : DeleteRow(i)
  BY <1>5 DEF DeleteRow
<1> QED
  BY <1>1, <1>2, <1>3, <1>4, <1>5 DEF RequestStep, DeleteStep

(* Before a job and after it no worker is at work. *)
LEMMA JobsRest ==
  ASSUME TypeInv, JobStep, NEW j \in Items
  PROVE  /\ pc[j] \in {"idle", "done"} /\ pc'[j] \in {"idle", "queued"}
         /\ report'[j] = "none" \/ (report'[j] = report[j] /\ pc'[j] = "idle")
         /\ UNCHANGED <<status, rows, vectors, lock, draft, deleting, crashes>>
<1> USE DEF TypeInv, Types, WorkersOfJob, jobVars, requestVars
<1>1. CASE \E items \in SUBSET Items : StartIndexing(items) \/ StartResume(items)
  BY <1>1 DEF StartIndexing, StartResume, StartJob
<1>2. CASE JobEnds
  BY <1>2 DEF JobEnds
<1> QED
  BY <1>1, <1>2 DEF JobStep

-----------------------------------------------------------------------------
(* Claims and reports. *)

LEMMA WorkerKeepsClaim ==
  ASSUME TypeInv, ClaimKept, NEW i \in Items, WorkerStep(i)
  PROVE  ClaimKept'
<1>1. \A j \in Items \ {i} : OwnUnchanged(j)
  BY WorkerTouchesOwn DEF TypeInv
<1>2. pc'[i] \in AtWork => status'[i] \in DeleteBlocked \cup {"absent"}
  <2> USE DEF TypeInv, Types, Goto, Leave
  <2>a. AtWork = {"claimed", "loaded", "parsed", "split", "batch", "indexed", "loading", "parsing",
                  "splitting", "preparing", "embedding", "finishing", "clearing", "adding"}
    BY DEF AtWork, Checkpoints, Behind
  <2>1. CASE Claim(i)
    BY <2>1 DEF Claim, DeleteBlocked
  <2>2. CASE pc'[i] \in {"failing", "done"}
    BY <2>2, <2>a
  <2>3. CASE CheckpointPasses(i)
    <3>1. pc[i] \in AtWork /\ UNCHANGED status
      BY <2>3, CheckpointPositions DEF CheckpointPasses, AtCheckpoint, AtWork
    <3> QED
      BY <3>1 DEF ClaimKept
  <2>4. CASE \/ UseContent(i) \/ LoadFile(i) \/ Parse(i) \/ Split(i) \/ DropOldVectors(i)
             \/ ClearOldRows(i) \/ StoreRows(i) \/ AddVectors(i) \/ CommitIndex(i)
    <3>1. pc[i] \in AtWork /\ UNCHANGED status
      BY <2>4, <2>a DEF UseContent, LoadFile, Parse, Split, DropOldVectors, ClearOldRows,
                        StoreRows, AddVectors, CommitIndex
    <3> QED
      BY <3>1 DEF ClaimKept
  <2>5. ASSUME \/ Skip(i) \/ ClaimsNothing(i) \/ CheckpointPauses(i) \/ CheckpointRaises(i)
               \/ Complete(i) \/ WritesMissingItem(i) \/ WorkFails(i) \/ LockTimesOut(i)
               \/ MarkFailed(i) \/ WorkerDies(i)
        PROVE  pc'[i] \in {"failing", "done"}
    BY <2>5 DEF Skip, ClaimsNothing, CheckpointPauses, CheckpointRaises, Complete,
                WritesMissingItem, WorkFails, LockTimesOut, MarkFailed, WorkerDies, Raise
  <2> QED
    BY <2>1, <2>2, <2>3, <2>4, <2>5 DEF WorkerStep
<1> QED
  BY <1>1, <1>2 DEF ClaimKept, OwnUnchanged

LEMMA WorkerReportsTruth ==
  ASSUME TypeInv, ReportsAreLast, ReportTruth, NEW i \in Items, WorkerStep(i)
  PROVE  ReportsAreLast' /\ ReportTruth'
<1>1. \A j \in Items \ {i} : OwnUnchanged(j)
  BY WorkerTouchesOwn DEF TypeInv
<1>2. report[i] = "none"
  BY WorkerMoves DEF ReportsAreLast, TypeInv
<1>3. /\ report'[i] # "none" => pc'[i] = "done"
      /\ report'[i] = "completed" => status'[i] = "COMPLETED"
      /\ report'[i] = "paused"    => status'[i] = "PAUSED"
      /\ report'[i] = "failed"    => status'[i] \in {"FAILED", "absent"}
  <2> USE <1>2 DEF TypeInv, Types, Goto, Leave
  <2>1. CASE UNCHANGED report
    BY <2>1
  <2>2. CASE Skip(i) \/ WorkerDies(i)
    BY <2>2 DEF Skip, WorkerDies
  <2>3. CASE CheckpointPauses(i)
    BY <2>3 DEF CheckpointPauses
  <2>4. CASE Complete(i)
    BY <2>4 DEF Complete
  <2>5. CASE MarkFailed(i)
    BY <2>5 DEF MarkFailed
  <2> QED
    BY <2>1, <2>2, <2>3, <2>4, <2>5
    DEF WorkerStep, Claim, ClaimsNothing, CheckpointPasses, CheckpointRaises, UseContent,
        LoadFile, Parse, Split, DropOldVectors, ClearOldRows, StoreRows, AddVectors, CommitIndex,
        WritesMissingItem, WorkFails, LockTimesOut, Raise
<1> QED
  BY <1>1, <1>3 DEF ReportsAreLast, ReportTruth, OwnUnchanged

-----------------------------------------------------------------------------
(* The rows and the vectors of the item a worker is at. *)

(* A step that only moves the worker, to no place that asks for more. *)
PlainMove(i) ==
  /\ UNCHANGED <<rows, vectors, draft>>
  /\ pc'[i] \notin {"clearing", "adding", "indexed", "finishing"} \cup WritingPositions
  /\ status'[i] = status[i] \/ status'[i] # "COMPLETED"

(* The end of a session, at an error: its rows are committed. *)
CommitsAtError(i) ==
  /\ pc'[i] = "failing"
  /\ rows' = IF lock = i THEN [rows EXCEPT ![i] = draft[i]] ELSE rows
  /\ UNCHANGED <<vectors, status>>

(* What a step of a worker does to rows, vectors and session. *)
LEMMA WorkerOnStores ==
  ASSUME TypeInv, NEW i \in Items, WorkerStep(i)
  PROVE  \/ PlainMove(i) /\ pc[i] \notin {"clearing", "adding"} \cup WritingPositions
         \/ CheckpointPasses(i) \/ CheckpointPauses(i)
         \/ CommitsAtError(i)
         \/ DropOldVectors(i) \/ ClearOldRows(i) \/ StoreRows(i) \/ AddVectors(i)
         \/ CommitIndex(i) \/ Complete(i)
<1> USE DEF TypeInv, Types, Goto, Leave
<1>1. CASE Claim(i) \/ Skip(i)
  BY <1>1 DEF Claim, Skip, PlainMove, WritingPositions
<1>2. CASE \E j \in {i} : Raise(j)
  BY <1>2 DEF Raise, CommitsAtError
<1>3. CASE UseContent(i) \/ LoadFile(i) \/ Parse(i) \/ Split(i)
  BY <1>3 DEF UseContent, LoadFile, Parse, Split, PlainMove, WritingPositions
<1>4. CASE MarkFailed(i) \/ WorkerDies(i)
  BY <1>4 DEF MarkFailed, WorkerDies, PlainMove, WritingPositions
<1> QED
  BY <1>1, <1>2, <1>3, <1>4
  DEF WorkerStep, ClaimsNothing, CheckpointRaises, WritesMissingItem, WorkFails, LockTimesOut

LEMMA WorkerKeepsWhole ==
  ASSUME TypeInv, ClaimKept, NEW i \in Items, VectorsKeepUp(i), WorkerStep(i)
  PROVE  VectorsKeepUp(i)'
<1> USE DEF TypeInv, Types, Goto, Leave
<1>a. pc[i] \in AtWork => status[i] # "COMPLETED"
  BY DEF ClaimKept, DeleteBlocked
<1>1. CASE PlainMove(i)
  BY <1>1 DEF PlainMove, VectorsKeepUp, Whole, WritingPositions
<1>2. CASE CheckpointPasses(i)
  <2>1. /\ pc[i] \in Checkpoints
        /\ pc'[i] = AfterCheckpoint[pc[i]]
        /\ UNCHANGED <<rows, vectors, draft, status>>
    BY <1>2, CheckpointPositions DEF CheckpointPasses, AtCheckpoint
  <2>2. /\ pc'[i] \in Behind
        /\ pc'[i] = "embedding" <=> pc[i] = "batch"
        /\ pc'[i] = "finishing" <=> pc[i] = "indexed"
    BY <2>1, CheckpointPositions
  <2> QED
    BY <2>1, <2>2 DEF VectorsKeepUp, Whole, Behind
<1>3. CASE CheckpointPauses(i)
  BY <1>3 DEF CheckpointPauses, VectorsKeepUp, Whole
<1>4. CASE CommitsAtError(i)
  <2>1. lock = i => pc[i] \in AtWork
    BY DEF LockHeldByWriter, WritingPositions, AtWork, Checkpoints, Behind
  <2>2. status[i] = "COMPLETED" => UNCHANGED rows
    BY <1>4, <1>a, <2>1 DEF CommitsAtError
  <2> QED
    BY <1>4, <2>2 DEF CommitsAtError, VectorsKeepUp, Whole
<1>5. CASE DropOldVectors(i)
  <2>1. pc[i] \in AtWork
    BY <1>5 DEF DropOldVectors, AtWork, Behind
  <2> QED
    BY <1>5, <1>a, <2>1 DEF DropOldVectors, VectorsKeepUp
<1>6. CASE ClearOldRows(i)
  BY <1>6 DEF ClearOldRows, VectorsKeepUp, Whole
<1>7. CASE StoreRows(i)
  <2>1. PICK k \in 0 .. NumBatches : draft[i] = 1 .. k /\ NextBatch(i) = k + 1
                                     /\ draft[i] \cup {NextBatch(i)} = 1 .. (k + 1)
    BY <1>7, StoredBatch DEF StoreRows
  <2>2. draft'[i] = 1 .. (k + 1) /\ pc'[i] = "adding" /\ UNCHANGED <<rows, vectors, status>>
    BY <1>7, <2>1 DEF StoreRows
  <2>3. Cardinality(draft'[i]) = k + 1
    BY <2>2, PrefixCardinality, ItemIndexingAssumption
  <2>4. draft[i] \subseteq vectors[i]
    BY <1>7 DEF StoreRows, VectorsKeepUp
  <2>5. draft'[i] \subseteq vectors'[i] \cup {Cardinality(draft'[i])}
    BY <2>1, <2>2, <2>3, <2>4
  <2> QED
    BY <2>2, <2>5 DEF VectorsKeepUp, Whole
<1>8. CASE AddVectors(i)
  <2>1. pc[i] = "adding" /\ pc'[i] = "batch" /\ status' = status /\ draft' = draft
    BY <1>8 DEF AddVectors
  <2>2. vectors'[i] = vectors[i] \cup {Cardinality(draft[i])}
    BY <1>8 DEF AddVectors
  <2>3. status'[i] # "COMPLETED"
    BY <1>a, <2>1 DEF AtWork
  <2> QED
    BY <2>1, <2>2, <2>3 DEF VectorsKeepUp
<1>9. CASE CommitIndex(i)
  BY <1>9 DEF CommitIndex, VectorsKeepUp, Whole
<1>10. CASE Complete(i)
  BY <1>10 DEF Complete, VectorsKeepUp, Whole
<1> QED
  BY <1>1, <1>2, <1>3, <1>4, <1>5, <1>6, <1>7, <1>8, <1>9, <1>10, WorkerOnStores

LEMMA WorkerKeepsRows ==
  ASSUME TypeInv, NEW i \in Items, VectorsHaveRows(i), WorkerStep(i)
  PROVE  VectorsHaveRows(i)'
<1> USE DEF TypeInv, Types, Goto, Leave, VectorsHaveRows, WritingPositions
<1>1. CASE PlainMove(i) /\ pc[i] \notin {"clearing", "adding"} \cup WritingPositions
  BY <1>1 DEF PlainMove
<1>2. CASE CheckpointPasses(i)
  <2>1. /\ pc[i] \in Checkpoints
        /\ pc'[i] = AfterCheckpoint[pc[i]]
        /\ UNCHANGED <<rows, vectors, draft>>
    BY <1>2, CheckpointPositions DEF CheckpointPasses, AtCheckpoint
  <2>2. pc'[i] \in Behind /\ (pc'[i] = "embedding" <=> pc[i] = "batch")
    BY <2>1, CheckpointPositions
  <2> QED
    BY <2>1, <2>2 DEF Behind, Checkpoints
<1>3. CASE CheckpointPauses(i)
  <2>1. pc[i] \in Checkpoints \ {"batch"}
    BY <1>3, CheckpointPositions, ItemIndexingAssumption
    DEF CheckpointPauses, AtCheckpoint, LockHeldByWriter
  <2> QED
    BY <1>3, <2>1 DEF CheckpointPauses, Checkpoints
<1>4. CASE CommitsAtError(i)
  <2>1. lock = i <=> pc[i] \in WritingPositions
    BY DEF LockHeldByWriter
  <2> QED
    BY <1>4, <2>1 DEF CommitsAtError
<1>5. CASE DropOldVectors(i)
  BY <1>5 DEF DropOldVectors
<1>6. CASE ClearOldRows(i)
  BY <1>6 DEF ClearOldRows
<1>7. CASE StoreRows(i)
  BY <1>7 DEF StoreRows
<1>8. CASE AddVectors(i)
  <2>1. Cardinality(draft[i]) \in draft[i]
    <3>1. PICK k \in 1 .. NumBatches : draft[i] = 1 .. k /\ Cardinality(draft[i]) = k
      BY <1>8, AddedBatch DEF AddVectors
    <3> QED
      BY <3>1
  <2> QED
    BY <1>8, <2>1 DEF AddVectors
<1>9. CASE CommitIndex(i)
  BY <1>9 DEF CommitIndex
<1>10. CASE Complete(i)
  BY <1>10 DEF Complete
<1> QED
  BY <1>1, <1>2, <1>3, <1>4, <1>5, <1>6, <1>7, <1>8, <1>9, <1>10, WorkerOnStores

-----------------------------------------------------------------------------
(* The invariant is kept. *)

LEMMA AbsentStaysAbsent ==
  ASSUME Types, NEW i \in Items, WorkerStep(i), NEW j \in Items
  PROVE  status'[j] = "absent" <=> status[j] = "absent"
<1>1. CASE j = i
  BY <1>1 DEF WorkerStep, Claim, Skip, ClaimsNothing, CheckpointPasses, CheckpointPauses,
       CheckpointRaises, UseContent, LoadFile, Parse, Split, DropOldVectors, ClearOldRows,
       StoreRows, AddVectors, CommitIndex, Complete, WritesMissingItem, WorkFails,
       LockTimesOut, MarkFailed, WorkerDies, Raise, Leave, Types, Claimable
<1>2. CASE j # i
  BY <1>2, WorkerTouchesOwn DEF OwnUnchanged
<1> QED
  BY <1>1, <1>2

LEMMA WorkerKeepsStores ==
  ASSUME TypeInv, StoreInv, NEW i \in Items, WorkerStep(i)
  PROVE  StoreInv'
<1>1. (\A j \in Items \ {i} : OwnUnchanged(j)) /\ UNCHANGED <<deleting, crashes>>
  BY WorkerTouchesOwn DEF TypeInv
<1>2. ClaimKept' /\ ReportsAreLast' /\ ReportTruth'
  BY WorkerKeepsClaim, WorkerReportsTruth DEF StoreInv
<1>3. NoDeleteWithoutRequest' /\ IndexedIsWhole'
  <2> SUFFICES ASSUME DeletionsAreWhole, NEW j \in Items, Untouched(j)'
               PROVE  VectorsKeepUp(j)'
    BY <1>1 DEF StoreInv, NoDeleteWithoutRequest, IndexedIsWhole, DeletionsAreWhole
  <2>1. Untouched(j)
    BY <1>1, AbsentStaysAbsent DEF Untouched, TypeInv
  <2>2. VectorsKeepUp(j)
    BY <2>1 DEF StoreInv, IndexedIsWhole
  <2>3. CASE j = i
    BY <2>1, <2>2, <2>3, WorkerKeepsWhole DEF StoreInv, Untouched
  <2>4. CASE j # i
    BY <1>1, <2>2, <2>4 DEF OwnUnchanged, VectorsKeepUp, Whole
  <2> QED
    BY <2>3, <2>4
<1>4. RowsUnderVectors'
  <2> SUFFICES ASSUME crashes' = 0, NEW j \in Items, status'[j] # "absent"
               PROVE  VectorsHaveRows(j)'
    BY DEF RowsUnderVectors
  <2>1. status[j] # "absent"
    BY AbsentStaysAbsent DEF TypeInv
  <2>2. VectorsHaveRows(j)
    BY <1>1, <2>1 DEF StoreInv, RowsUnderVectors
  <2>3. CASE j = i
    BY <2>2, <2>3, WorkerKeepsRows
  <2>4. CASE j # i
    BY <1>1, <2>2, <2>4 DEF OwnUnchanged, VectorsHaveRows
  <2> QED
    BY <2>3, <2>4
<1> QED
  BY <1>2, <1>3, <1>4 DEF StoreInv

LEMMA RequestsKeepStores ==
  ASSUME TypeInv, StoreInv, RequestStep
  PROVE  StoreInv'
<1> USE DEF StoreInv
<1>1. Types
  BY DEF TypeInv
<1>2. ClaimKept'
  BY <1>1, RequestsTouch DEF ClaimKept, DeleteBlocked
<1>3. ReportsAreLast' /\ ReportTruth'
  BY <1>1, RequestsTouch DEF ReportsAreLast, ReportTruth
<1>4. NoDeleteWithoutRequest' /\ IndexedIsWhole'
  <2>1. NoDeleteWithoutRequest'
    BY <1>1, RequestsTouch DEF NoDeleteWithoutRequest
  <2>2. ASSUME DeletionsAreWhole, NEW j \in Items, Untouched(j)'
        PROVE  VectorsKeepUp(j)'
    <3>1. LockTimeouts => deleting[j] # "purged"
      BY <2>2 DEF DeletionsAreWhole, NoDeleteWithoutRequest
    <3>2. Untouched(j) /\ VectorsKeepUp(j)
      BY <1>1, <2>2, <3>1, RequestsTouch DEF IndexedIsWhole
    <3>3. /\ UNCHANGED <<draft, pc>>
          /\ rows'[j] = rows[j] /\ vectors'[j] = vectors[j]
          /\ status'[j] = "COMPLETED" => status[j] = "COMPLETED"
      BY <1>1, <2>2, RequestsTouch DEF Untouched
    <3> QED
      BY <3>2, <3>3 DEF VectorsKeepUp, Whole
  <2> QED
    BY <2>1, <2>2 DEF IndexedIsWhole, DeletionsAreWhole
<1>5. RowsUnderVectors'
  <2> SUFFICES ASSUME crashes' = 0, NEW j \in Items, status'[j] # "absent"
               PROVE  VectorsHaveRows(j)'
    BY DEF RowsUnderVectors
  <2>1. /\ UNCHANGED <<draft, pc, crashes>>
        /\ status[j] # "absent"
        /\ rows'[j] = rows[j]
        /\ vectors'[j] \subseteq vectors[j]
    BY <1>1, RequestsTouch
  <2>2. VectorsHaveRows(j)
    BY <2>1 DEF RowsUnderVectors
  <2> QED
    BY <2>1, <2>2 DEF VectorsHaveRows
<1> QED
  BY <1>2, <1>3, <1>4, <1>5

LEMMA JobsKeepStores ==
  ASSUME TypeInv, StoreInv, JobStep
  PROVE  StoreInv'
<1> USE DEF StoreInv
<1>1. ClaimKept'
  BY JobsRest DEF ClaimKept, AtWork, Checkpoints, Behind
<1>2. ReportsAreLast' /\ ReportTruth'
  BY JobsRest DEF ReportsAreLast, ReportTruth
<1>3. NoDeleteWithoutRequest' /\ IndexedIsWhole'
  BY JobsRest
  DEF NoDeleteWithoutRequest, IndexedIsWhole, DeletionsAreWhole, Untouched, VectorsKeepUp, Whole
<1>4. RowsUnderVectors'
  BY JobsRest DEF RowsUnderVectors, VectorsHaveRows, WritingPositions
<1> QED
  BY <1>1, <1>2, <1>3, <1>4

LEMMA CrashKeepsStores ==
  ASSUME TypeInv, StoreInv, Crash
  PROVE  StoreInv'
<1> USE DEF StoreInv, Crash
<1>1. \A i \in Items : pc'[i] = "idle" /\ report'[i] = "none" /\ deleting'[i] = "no"
  OBVIOUS
<1>2. ClaimKept'
  BY <1>1 DEF ClaimKept, AtWork, Checkpoints, Behind
<1>3. ReportsAreLast' /\ ReportTruth'
  BY <1>1 DEF ReportsAreLast, ReportTruth
<1>4. NoDeleteWithoutRequest' /\ IndexedIsWhole'
  <2>1. MaxCrashes # 0
    BY DEF TypeInv, Types
  <2> QED
    BY <1>1, <2>1
    DEF NoDeleteWithoutRequest, IndexedIsWhole, DeletionsAreWhole, Untouched, VectorsKeepUp, Whole
<1>5. RowsUnderVectors'
  <2>1. crashes' # 0
    BY DEF TypeInv, Types
  <2> QED
    BY <2>1 DEF RowsUnderVectors
<1> QED
  BY <1>2, <1>3, <1>4, <1>5

LEMMA StoreInvHolds == Spec => []StoreInv
<1>1. Init => StoreInv
  <2> SUFFICES ASSUME Init PROVE StoreInv
    OBVIOUS
  <2> USE DEF Init
  <2>1. ClaimKept /\ ReportsAreLast /\ ReportTruth
    BY DEF ClaimKept, AtWork, Checkpoints, Behind, ReportsAreLast, ReportTruth
  <2>2. NoDeleteWithoutRequest /\ IndexedIsWhole /\ RowsUnderVectors
    BY DEF NoDeleteWithoutRequest, IndexedIsWhole, VectorsKeepUp, RowsUnderVectors, VectorsHaveRows
  <2> QED
    BY <2>1, <2>2 DEF StoreInv
<1>2. TypeInv /\ StoreInv /\ [Next]_vars => StoreInv'
  <2> SUFFICES ASSUME TypeInv, StoreInv, [Next]_vars PROVE StoreInv'
    OBVIOUS
  <2>1. CASE \E i \in Items : WorkerStep(i)
    BY <2>1, WorkerKeepsStores
  <2>2. CASE RequestStep
    BY <2>2, RequestsKeepStores
  <2>3. CASE JobStep
    BY <2>3, JobsKeepStores
  <2>4. CASE Crash
    BY <2>4, CrashKeepsStores
  <2>5. CASE UNCHANGED vars
    BY <2>5 DEF vars, jobVars, requestVars, StoreInv, ClaimKept, ReportsAreLast, ReportTruth,
                NoDeleteWithoutRequest, IndexedIsWhole, DeletionsAreWhole, Untouched,
                VectorsKeepUp, Whole, RowsUnderVectors, VectorsHaveRows
  <2> QED
    BY <2>1, <2>2, <2>3, <2>4, <2>5 DEF Next, RequestStep, JobStep
<1> QED
  BY <1>1, <1>2, TypeInvHolds, PTL DEF Spec

-----------------------------------------------------------------------------
(* The terminal event a worker reports for its item agrees with the status   *)
(* the database keeps, whatever requests, lock timeouts and crashes come.    *)
THEOREM ReportsAreTrue == Spec => []ReportTruth
<1>1. StoreInv => ReportTruth
  BY DEF StoreInv
<1> QED
  BY <1>1, StoreInvHolds, PTL

(* An item that no worker has in its hands has no vector without its chunk   *)
(* row, as long as the process has not died; delete requests included.       *)
THEOREM NoVectorIsOrphaned == Spec => []NoOrphanVectors
<1>1. TypeInv /\ StoreInv => NoOrphanVectors
  <2> SUFFICES ASSUME TypeInv, StoreInv, crashes = 0, NEW i \in Items,
                      status[i] \notin DeleteBlocked \cup {"absent"}
               PROVE  vectors[i] \subseteq rows[i]
    BY DEF NoOrphanVectors
  <2>1. pc[i] \notin {"clearing"} \cup WritingPositions
    BY DEF StoreInv, ClaimKept, AtWork, Checkpoints, Behind, WritingPositions
  <2>2. VectorsHaveRows(i)
    BY DEF StoreInv, RowsUnderVectors
  <2> QED
    BY <2>1, <2>2 DEF VectorsHaveRows
<1> QED
  BY <1>1, StoreInvHolds, TypeInvHolds, PTL

(* A completed item is stored whole: failures, pauses and retries leave no   *)
(* part behind; nor do lock timeouts and crashes while nobody deletes items, *)
(* nor deletions that neither of the two can stop half-way.                  *)
THEOREM CompletedItemsAreWhole ==
  ASSUME DeletionsAreWhole
  PROVE  Spec => []CompletedIsWhole
<1>1. StoreInv => CompletedIsWhole
  BY DEF StoreInv, IndexedIsWhole, Untouched, VectorsKeepUp, Whole, CompletedIsWhole
<1> QED
  BY <1>1, StoreInvHolds, PTL

-----------------------------------------------------------------------------
(***************************************************************************)
(* ItemIndexing implements ItemLifecycle as long as the process lives and  *)
(* no wait for the write lock is too long.                                 *)
(***************************************************************************)

Undisturbed == MaxCrashes = 0 /\ ~ LockTimeouts

-----------------------------------------------------------------------------
(* What the implementation needs besides StoreInv. *)

(* A worker fails with the claim in its hands, or without its item. *)
FailsWithClaim ==
  \A i \in Items : pc[i] = "failing" => status[i] \in DeleteBlocked \cup {"absent"}

(* The uncommitted rows are those of the session that holds the lock. *)
DraftIsOfWriter == \A i \in Items : pc[i] \notin WritingPositions => draft[i] = {}

(* A deleted item has no rows, and no worker gives it any. *)
AbsentIsEmpty ==
  \A i \in Items :
    status[i] = "absent" =>
      rows[i] = {} /\ draft[i] = {} /\ pc[i] \notin {"embedding", "adding"}

LifeInv == FailsWithClaim /\ DraftIsOfWriter /\ AbsentIsEmpty

(* What the abstract specification sees of the stores. *)
Searchable == [i \in Items |-> rows[i] \cap vectors[i]]
Leaving == {i \in Items : deleting[i] # "no"}

-----------------------------------------------------------------------------
(* The invariant is kept. *)

LEMMA WorkerKeepsLife ==
  ASSUME Undisturbed, TypeInv, ClaimKept, LifeInv, NEW i \in Items, WorkerStep(i)
  PROVE  LifeInv'
<1> USE DEF TypeInv, Types, Goto, Leave, LifeInv
<1>1. \A j \in Items \ {i} : OwnUnchanged(j)
  BY WorkerTouchesOwn
<1>2. PICK p \in Positions : pc' = [pc EXCEPT ![i] = p]
  BY WorkerMoves
<1>3. pc'[i] = "failing" => status'[i] \in DeleteBlocked \cup {"absent"}
  <2>1. CASE ClaimsNothing(i)
    BY <2>1 DEF ClaimsNothing, Raise
  <2>2. CASE CheckpointRaises(i)
    BY <2>2 DEF CheckpointRaises, Raise, DeleteBlocked
  <2>3. CASE WritesMissingItem(i)
    BY <2>3 DEF WritesMissingItem, Raise
  <2>4. CASE WorkFails(i)
    <3>1. pc[i] \in AtWork /\ UNCHANGED status
      BY <2>4 DEF WorkFails, Raise, AtWork, Checkpoints, Behind
    <3> QED
      BY <3>1 DEF ClaimKept
  <2>5. CASE LockTimesOut(i)
    BY <2>5 DEF LockTimesOut, LockTakesTooLong, Undisturbed
  <2>6. CASE CheckpointPasses(i)
    <3>1. pc'[i] \in Behind
      BY <2>6, CheckpointPositions DEF CheckpointPasses, AtCheckpoint
    <3> QED
      BY <3>1 DEF Behind
  <2> QED
    BY <2>1, <2>2, <2>3, <2>4, <2>5, <2>6
    DEF WorkerStep, Claim, Skip, CheckpointPauses, UseContent, LoadFile, Parse, Split,
        DropOldVectors, ClearOldRows, StoreRows, AddVectors, CommitIndex, Complete,
        MarkFailed, WorkerDies
<1>4. pc'[i] \notin WritingPositions => draft'[i] = {}
  <2> USE DEF WritingPositions, DraftIsOfWriter
  <2>1. CASE Claim(i) \/ Skip(i)
    BY <2>1 DEF Claim, Skip
  <2>2. CASE \E j \in {i} : Raise(j)
    BY <2>2 DEF Raise
  <2>3. CASE CheckpointPasses(i)
    <3>1. UNCHANGED draft /\ pc[i] \in Checkpoints /\ pc'[i] = AfterCheckpoint[pc[i]]
      BY <2>3, CheckpointPositions DEF CheckpointPasses, AtCheckpoint
    <3>2. pc[i] = "batch" => pc'[i] = "embedding"
      BY <3>1, CheckpointPositions
    <3> QED
      BY <3>1, <3>2 DEF Checkpoints
  <2>4. CASE CheckpointPauses(i)
    BY <2>4, ItemIndexingAssumption DEF CheckpointPauses, LockHeldByWriter
  <2>5. CASE UseContent(i) \/ LoadFile(i) \/ Parse(i) \/ Split(i) \/ DropOldVectors(i)
    BY <2>5 DEF UseContent, LoadFile, Parse, Split, DropOldVectors
  <2>6. CASE ClearOldRows(i) \/ StoreRows(i) \/ AddVectors(i) \/ CommitIndex(i)
    BY <2>6 DEF ClearOldRows, StoreRows, AddVectors, CommitIndex
  <2>7. CASE Complete(i) \/ MarkFailed(i) \/ WorkerDies(i)
    BY <2>7 DEF Complete, MarkFailed, WorkerDies
  <2> QED
    BY <2>1, <2>2, <2>3, <2>4, <2>5, <2>6, <2>7
    DEF WorkerStep, ClaimsNothing, CheckpointRaises, WritesMissingItem, WorkFails, LockTimesOut
<1>5. status'[i] = "absent" =>
        rows'[i] = {} /\ draft'[i] = {} /\ pc'[i] \notin {"embedding", "adding"}
  <2> SUFFICES ASSUME status'[i] = "absent"
               PROVE  rows'[i] = {} /\ draft'[i] = {} /\ pc'[i] \notin {"embedding", "adding"}
    OBVIOUS
  <2>a. /\ status[i] = "absent"
        /\ rows[i] = {} /\ draft[i] = {} /\ pc[i] \notin {"embedding", "adding"}
    BY AbsentStaysAbsent DEF AbsentIsEmpty
  <2>1. CASE Skip(i) \/ Split(i) \/ UseContent(i) \/ LoadFile(i) \/ DropOldVectors(i)
    BY <2>1, <2>a DEF Skip, Split, UseContent, LoadFile, DropOldVectors
  <2>2. CASE \E j \in {i} : Raise(j)
    BY <2>2, <2>a DEF Raise
  <2>3. CASE ClearOldRows(i) \/ CommitIndex(i)
    BY <2>3, <2>a DEF ClearOldRows, CommitIndex
  <2>4. CASE MarkFailed(i) \/ WorkerDies(i)
    BY <2>4, <2>a DEF MarkFailed, WorkerDies
  <2> QED
    BY <2>1, <2>2, <2>3, <2>4, <2>a
    DEF WorkerStep, ClaimsNothing, CheckpointRaises, WritesMissingItem, WorkFails, LockTimesOut,
        Claim, Claimable, CheckpointPasses, CheckpointPauses, Parse, StoreRows, AddVectors, Complete
<1> QED
  BY <1>1, <1>3, <1>4, <1>5
  DEF FailsWithClaim, DraftIsOfWriter, AbsentIsEmpty, OwnUnchanged

LEMMA RequestsKeepLife ==
  ASSUME TypeInv, LifeInv, RequestStep
  PROVE  LifeInv'
<1>1. Types
  BY DEF TypeInv
<1>2. FailsWithClaim'
  BY <1>1, RequestsTouch DEF LifeInv, FailsWithClaim, DeleteBlocked
<1>3. DraftIsOfWriter'
  <2>1. UNCHANGED <<draft, pc>> \/ Items = {}
    BY <1>1, RequestsTouch
  <2> QED
    BY <2>1 DEF LifeInv, DraftIsOfWriter
<1>4. ASSUME NEW j \in Items, status'[j] = "absent"
      PROVE  rows'[j] = {} /\ draft'[j] = {} /\ pc'[j] \notin {"embedding", "adding"}
  <2>1. UNCHANGED <<draft, pc>>
    BY <1>1, RequestsTouch
  <2>2. CASE status[j] = "absent"
    <3>1. rows'[j] \subseteq rows[j]
      BY <1>1 DEF RequestStep, PauseRead, PauseWrite, PauseFails, DeleteStep, DeleteCheck,
                  DeleteVectors, DeleteRow, DeleteFails, Types
    <3> QED
      BY <2>1, <2>2, <3>1 DEF LifeInv, AbsentIsEmpty
  <2>3. CASE status[j] # "absent"
    <3>1. lock = NoOne /\ rows'[j] = {}
      BY <1>1, <1>4, <2>3 DEF RequestStep, PauseRead, PauseWrite, PauseFails, DeleteStep,
         DeleteCheck, DeleteVectors, DeleteRow, DeleteFails, Types
    <3>2. pc[j] \notin WritingPositions
      BY <3>1, ItemIndexingAssumption DEF TypeInv, LockHeldByWriter
    <3> QED
      BY <2>1, <3>1, <3>2 DEF LifeInv, DraftIsOfWriter, WritingPositions
  <2> QED
    BY <2>2, <2>3
<1> QED
  BY <1>2, <1>3, <1>4 DEF LifeInv, AbsentIsEmpty

LEMMA JobsKeepLife ==
  ASSUME TypeInv, LifeInv, JobStep
  PROVE  LifeInv'
  BY JobsRest DEF LifeInv, FailsWithClaim, DraftIsOfWriter, AbsentIsEmpty, WritingPositions

LEMMA LifeInvHolds ==
  ASSUME Undisturbed
  PROVE  Spec => []LifeInv
<1>1. Init => LifeInv
  BY DEF Init, LifeInv, FailsWithClaim, DraftIsOfWriter, AbsentIsEmpty
<1>2. TypeInv /\ StoreInv /\ LifeInv /\ [Next]_vars => LifeInv'
  <2> SUFFICES ASSUME TypeInv, StoreInv, LifeInv, [Next]_vars PROVE LifeInv'
    OBVIOUS
  <2>1. CASE \E i \in Items : WorkerStep(i)
    BY <2>1, WorkerKeepsLife DEF StoreInv
  <2>2. CASE RequestStep
    BY <2>2, RequestsKeepLife
  <2>3. CASE JobStep
    BY <2>3, JobsKeepLife
  <2>4. CASE Crash
    BY <2>4 DEF Crash, Undisturbed, TypeInv, Types
  <2>5. CASE UNCHANGED vars
    BY <2>5 DEF vars, LifeInv, FailsWithClaim, DraftIsOfWriter, AbsentIsEmpty
  <2> QED
    BY <2>1, <2>2, <2>3, <2>4, <2>5 DEF Next, RequestStep, JobStep
<1> QED
  BY <1>1, <1>2, TypeInvHolds, StoreInvHolds, PTL DEF Spec

-----------------------------------------------------------------------------
(* Every step is one of the abstract specification, or a stutter. *)

LEMMA WorkerLeavesIndexOfOthers ==
  ASSUME Types, NEW i \in Items, WorkerStep(i)
  PROVE  /\ Searchable' = [Searchable EXCEPT ![i] = rows'[i] \cap vectors'[i]]
         /\ Leaving' = Leaving
<1>1. (\A j \in Items \ {i} : OwnUnchanged(j)) /\ UNCHANGED deleting
  BY WorkerTouchesOwn
<1> QED
  BY <1>1 DEF Searchable, Leaving, OwnUnchanged

(* A step that leaves the statuses alone is work on a claimed item, or       *)
(* changes nothing that can be found.                                        *)
LEMMA WorkOrStutter ==
  ASSUME TypeInv, NEW i \in Items, WorkerStep(i), UNCHANGED status,
         status[i] \in DeleteBlocked \/ rows'[i] \cap vectors'[i] = rows[i] \cap vectors[i]
  PROVE  Lifecycle!Next \/ UNCHANGED Lifecycle!vars
<1>1. Types
  BY DEF TypeInv
<1>2. /\ Searchable' = [Searchable EXCEPT ![i] = rows'[i] \cap vectors'[i]]
      /\ Leaving' = Leaving
  BY <1>1, WorkerLeavesIndexOfOthers
<1>3. CASE status[i] \in DeleteBlocked
  <2>1. rows'[i] \cap vectors'[i] \in SUBSET Batches
    BY <1>1, WorkerKeepsTypeInv DEF TypeInv, Types
  <2>2. Lifecycle!Work(i)
    BY <1>2, <1>3, <2>1 DEF Lifecycle!Work, Lifecycle!Busy, DeleteBlocked, Searchable, Leaving
  <2> QED
    BY <2>2 DEF Lifecycle!Next
<1>4. CASE rows'[i] \cap vectors'[i] = rows[i] \cap vectors[i]
  <2>1. Searchable' = Searchable
    BY <1>2, <1>4 DEF Searchable
  <2> QED
    BY <1>2, <2>1 DEF Lifecycle!vars, Searchable, Leaving
<1> QED
  BY <1>3, <1>4

LEMMA WorkerImplements ==
  ASSUME Undisturbed, TypeInv, StoreInv, LifeInv, NEW i \in Items, WorkerStep(i)
  PROVE  Lifecycle!Next \/ UNCHANGED Lifecycle!vars
<1> USE DEF TypeInv, Types, Goto, Leave
<1>a. /\ Searchable' = [Searchable EXCEPT ![i] = rows'[i] \cap vectors'[i]]
      /\ Leaving' = Leaving
  BY WorkerLeavesIndexOfOthers
<1>b. rows'[i] = rows[i] /\ vectors'[i] = vectors[i] => Searchable' = Searchable
  BY <1>a DEF Searchable
<1>c. pc[i] \in AtWork => status[i] \in DeleteBlocked \cup {"absent"}
  BY DEF StoreInv, ClaimKept
<1>d. status[i] = "absent" => rows[i] = {} /\ draft[i] = {} /\ pc[i] \notin {"embedding", "adding"}
  BY DEF LifeInv, AbsentIsEmpty
(* A claim. *)
<1>1. CASE Claim(i)
  <2>1. Lifecycle!Claim(i)
    <3>1. UNCHANGED <<rows, vectors>> /\ status[i] \in Claimable
          /\ status' = [status EXCEPT ![i] = "PROCESSING"]
      BY <1>1 DEF Claim
    <3> QED
      BY <3>1, <1>a, <1>b DEF Lifecycle!Claim, Lifecycle!Move, Claimable, Searchable, Leaving
  <2> QED
    BY <2>1 DEF Lifecycle!Next
(* The places where nothing is stored. *)
<1>2. CASE Skip(i) \/ CheckpointPasses(i) \/ UseContent(i) \/ LoadFile(i) \/ Parse(i) \/ Split(i)
             \/ ClearOldRows(i) \/ StoreRows(i) \/ WorkerDies(i)
  <2>1. UNCHANGED <<status, rows, vectors>>
    BY <1>2 DEF Skip, CheckpointPasses, UseContent, LoadFile, Parse, Split, ClearOldRows,
                StoreRows, WorkerDies
  <2> QED
    BY <2>1, WorkOrStutter
<1>3. CASE CheckpointPauses(i)
  <2>1. UNCHANGED <<rows, vectors>> /\ status[i] = "PAUSE_REQUESTED"
        /\ status' = [status EXCEPT ![i] = "PAUSED"]
    BY <1>3 DEF CheckpointPauses
  <2>2. Lifecycle!Pause(i)
    BY <2>1, <1>a, <1>b DEF Lifecycle!Pause, Lifecycle!Move, Searchable, Leaving
  <2> QED
    BY <2>2 DEF Lifecycle!Next
(* An error commits the rows of the session. *)
<1>4. CASE \E j \in {i} : Raise(j)
  <2>1. /\ UNCHANGED <<status, vectors>>
        /\ rows' = IF lock = i THEN [rows EXCEPT ![i] = draft[i]] ELSE rows
    BY <1>4 DEF Raise
  <2>2. lock = i => pc[i] \in AtWork
    BY DEF LockHeldByWriter, WritingPositions, AtWork, Checkpoints, Behind
  <2>3. status[i] \in DeleteBlocked \/ rows'[i] \cap vectors'[i] = rows[i] \cap vectors[i]
    BY <1>c, <1>d, <2>1, <2>2
  <2> QED
    BY <2>1, <2>3, WorkOrStutter
<1>5. CASE DropOldVectors(i) \/ AddVectors(i) \/ CommitIndex(i)
  <2>1. pc[i] \in AtWork /\ UNCHANGED status
    BY <1>5 DEF DropOldVectors, AddVectors, CommitIndex, AtWork, Checkpoints, Behind
  <2>2. status[i] = "absent" => rows'[i] = {}
    BY <1>5, <1>d DEF DropOldVectors, AddVectors, CommitIndex
  <2>3. status[i] \in DeleteBlocked \/ rows'[i] \cap vectors'[i] = rows[i] \cap vectors[i]
    BY <1>c, <1>d, <2>1, <2>2
  <2> QED
    BY <2>1, <2>3, WorkOrStutter
<1>6. CASE Complete(i)
  <2>1. /\ UNCHANGED <<rows, vectors>>
        /\ pc[i] = "finishing"
        /\ status[i] # "absent"
        /\ status' = [status EXCEPT ![i] = "COMPLETED"]
    BY <1>6 DEF Complete
  <2>2. status[i] \in DeleteBlocked
    BY <1>c, <2>1 DEF AtWork, Behind
  <2>3. i \notin Leaving => Searchable[i] = Batches
    <3>1. DeletionsAreWhole
      BY DEF DeletionsAreWhole, Undisturbed
    <3>2. i \notin Leaving => VectorsKeepUp(i)
      BY <2>1, <3>1 DEF StoreInv, IndexedIsWhole, Untouched, Leaving
    <3> QED
      BY <2>1, <3>2 DEF VectorsKeepUp, Whole, Searchable
  <2>4. Lifecycle!Complete(i)
    BY <1>a, <1>b, <2>1, <2>2, <2>3
    DEF Lifecycle!Complete, Lifecycle!Move, Lifecycle!Busy, DeleteBlocked, Searchable, Leaving
  <2> QED
    BY <2>4 DEF Lifecycle!Next
<1>7. CASE MarkFailed(i)
  <2>1. /\ UNCHANGED <<rows, vectors>>
        /\ pc[i] = "failing"
        /\ status' = [status EXCEPT ![i] = IF @ = "absent" THEN @ ELSE "FAILED"]
    BY <1>7 DEF MarkFailed
  <2>2. CASE status[i] = "absent"
    <3>1. UNCHANGED status
      BY <2>1, <2>2
    <3> QED
      BY <2>1, <3>1, WorkOrStutter
  <2>3. CASE status[i] # "absent"
    <3>1. status[i] \in DeleteBlocked /\ status' = [status EXCEPT ![i] = "FAILED"]
      BY <2>1, <2>3 DEF LifeInv, FailsWithClaim
    <3>2. Lifecycle!Fail(i)
      BY <1>a, <1>b, <2>1, <3>1
      DEF Lifecycle!Fail, Lifecycle!Move, Lifecycle!Busy, DeleteBlocked, Searchable, Leaving
    <3> QED
      BY <3>2 DEF Lifecycle!Next
  <2> QED
    BY <2>2, <2>3
<1> QED
  BY <1>1, <1>2, <1>3, <1>4, <1>5, <1>6, <1>7
  DEF WorkerStep, ClaimsNothing, CheckpointRaises, WritesMissingItem, WorkFails, LockTimesOut

LEMMA RequestsImplement ==
  ASSUME Undisturbed, TypeInv, RequestStep
  PROVE  Lifecycle!Next \/ UNCHANGED Lifecycle!vars
<1> USE DEF TypeInv, Types
<1>1. CASE (\E items \in SUBSET Items : PauseRead(items)) \/ PauseFails
  BY <1>1 DEF PauseRead, PauseFails, Lifecycle!vars
<1>2. CASE PauseWrite
  <2> DEFINE asked == {i \in pausing : status[i] = "PROCESSING"}
  <2>1. Lifecycle!RequestPause(asked)
    BY <1>2 DEF PauseWrite, Lifecycle!RequestPause
  <2> QED
    BY <2>1 DEF Lifecycle!Next
<1>3. ASSUME NEW i \in Items, DeleteCheck(i)
      PROVE  Lifecycle!Next
  <2>1. Leaving' = Leaving \cup {i}
    BY <1>3 DEF DeleteCheck, Leaving
  <2>2. Lifecycle!AcceptDelete(i)
    BY <1>3, <2>1 DEF DeleteCheck, Lifecycle!AcceptDelete, Lifecycle!Busy, DeleteBlocked, Leaving
  <2> QED
    BY <2>2 DEF Lifecycle!Next
<1>4. ASSUME NEW i \in Items, DeleteVectors(i)
      PROVE  Lifecycle!Next
  <2>1. i \in Leaving /\ Leaving' = Leaving
    BY <1>4 DEF DeleteVectors, Leaving
  <2>2. Searchable' = [Searchable EXCEPT ![i] = {}]
    BY <1>4 DEF DeleteVectors, Searchable
  <2>3. Lifecycle!Unindex(i)
    BY <1>4, <2>1, <2>2 DEF DeleteVectors, Lifecycle!Unindex, Searchable, Leaving
  <2> QED
    BY <2>3 DEF Lifecycle!Next
<1>5. ASSUME NEW i \in Items, DeleteRow(i)
      PROVE  Lifecycle!Next
  <2>1. i \in Leaving /\ Leaving' = Leaving \ {i}
    BY <1>5 DEF DeleteRow, Leaving
  <2>2. Searchable' = [Searchable EXCEPT ![i] = {}]
    BY <1>5 DEF DeleteRow, Searchable
  <2>3. Lifecycle!Remove(i)
    BY <1>5, <2>1, <2>2 DEF DeleteRow, Lifecycle!Remove, Searchable, Leaving
  <2> QED
    BY <2>3 DEF Lifecycle!Next
<1>6. ASSUME NEW i \in Items, DeleteFails(i)
      PROVE  Lifecycle!Next
  <2>1. i \in Leaving /\ Leaving' = Leaving \ {i}
    BY <1>6 DEF DeleteFails, Leaving
  <2>2. Lifecycle!GiveUpDelete({i})
    BY <1>6, <2>1 DEF DeleteFails, Lifecycle!GiveUpDelete, Leaving
  <2>3. {i} \in SUBSET Leaving
    BY <2>1
  <2> QED
    BY <2>2, <2>3 DEF Lifecycle!Next, Leaving
<1> QED
  BY <1>1, <1>2, <1>3, <1>4, <1>5, <1>6 DEF RequestStep, DeleteStep

(* The statuses and the searchable index of the items move as the documented *)
(* state machine lets them: only claimed items are indexed, only requested   *)
(* pauses pause, a completed item is all there, and deleting goes around the *)
(* items in work; for a process that is not killed and waits for the write   *)
(* lock that are short enough.                                               *)
THEOREM LifecycleIsKept ==
  ASSUME Undisturbed
  PROVE  Spec => KeepsLifecycle
<1>1. Init => Lifecycle!Init
  <2>1. Init => Searchable = [i \in Items |-> {}] /\ Leaving = {}
    BY DEF Init, Searchable, Leaving
  <2> QED
    BY <2>1 DEF Init, Lifecycle!Init, Searchable, Leaving
<1>2. TypeInv /\ StoreInv /\ LifeInv /\ [Next]_vars => [Lifecycle!Next]_(Lifecycle!vars)
  <2> SUFFICES ASSUME TypeInv, StoreInv, LifeInv, [Next]_vars
               PROVE  Lifecycle!Next \/ UNCHANGED Lifecycle!vars
    OBVIOUS
  <2>1. CASE \E i \in Items : WorkerStep(i)
    BY <2>1, WorkerImplements
  <2>2. CASE RequestStep
    BY <2>2, RequestsImplement
  <2>3. CASE JobStep
    BY <2>3 DEF JobStep, StartIndexing, StartResume, StartJob, JobEnds, requestVars, Lifecycle!vars
  <2>4. CASE Crash
    BY <2>4 DEF Crash, Undisturbed, TypeInv, Types
  <2>5. CASE UNCHANGED vars
    BY <2>5 DEF vars, requestVars, Lifecycle!vars
  <2> QED
    BY <2>1, <2>2, <2>3, <2>4, <2>5 DEF Next, RequestStep, JobStep
<1> QED
  BY <1>1, <1>2, TypeInvHolds, StoreInvHolds, LifeInvHolds, PTL DEF Spec, KeepsLifecycle, Lifecycle!Spec
=============================================================================
