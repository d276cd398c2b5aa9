-------------------------- MODULE VisitorChatProofs --------------------------
(***************************************************************************)
(* VisitorChat, proved for any number of visitors, projects and limits, any *)
(* index and any relevance.  The limiter: the stream counters are the      *)
(* numbers of the streams that are open, and no window of a rule holds     *)
(* more charged requests of a key than its limit.  The search: what it     *)
(* returns comes from the items its scope was resolved to, and no result   *)
(* stands before a chunk that every ranking puts before it.                *)
(***************************************************************************)
EXTENDS VisitorChat, FiniteSetTheorems, SequenceTheorems, WellFoundedInduction, TLAPS

-----------------------------------------------------------------------------
(* The invariant is inductive as it stands, once the counters are numbers.   *)

Steps == {"idle", "lease", "project", "widget", "plugin", "turn", "search", "answer", "ended"}

LeaseInv ==
  /\ pc \in [Requests -> Steps]
  /\ activeIp \in [Ips -> Nat] /\ activeProject \in [Projects -> Nat]
  /\ LeasesExact

-----------------------------------------------------------------------------
(* What a step does to the leases. *)

HoldersUnchanged(requests) == \A q \in requests : Holds(q)' <=> Holds(q)

NoLeaseMoves == UNCHANGED streamCounts /\ HoldersUnchanged(Requests)

LeaseTaken(r) ==
  /\ ~ Holds(r) /\ Holds(r)' /\ HoldersUnchanged(Requests \ {r})
  /\ AcquireStream(IpOf[r], ProjectOf[r])

LeaseGiven(r) ==
  /\ Holds(r) /\ ~ Holds(r)' /\ HoldersUnchanged(Requests \ {r})
  /\ ReleaseStream(IpOf[r], ProjectOf[r])

(* Every step of a request moves its own lease or none.                      *)
LEMMA RequestMovesOwnLease ==
  ASSUME LeaseInv, NEW r \in Requests, RequestStep(r)
  PROVE  /\ pc' \in [Requests -> Steps]
         /\ NoLeaseMoves \/ LeaseTaken(r) \/ LeaseGiven(r)
<1> USE DEF LeaseInv, Steps, Goto, Holds, HoldersUnchanged, NoLeaseMoves, streamCounts, windowVars
<1>1. pc \in [Requests -> Steps]
  OBVIOUS
<1>2. ASSUME Release(r), Holds(r) PROVE pc' \in [Requests -> Steps] /\ LeaseGiven(r)
  BY <1>1, <1>2 DEF Release, LeaseGiven
<1>3. ASSUME NEW step \in Steps, Passed(r, step), Holds(r),
             step \notin {"idle", "lease", "ended"}
      PROVE  pc' \in [Requests -> Steps] /\ NoLeaseMoves
  BY <1>1, <1>3 DEF Passed, limiterVars
<1>4. CASE Arrive(r)
  BY <1>1, <1>4 DEF Arrive, CheckRequest
<1>5. CASE TakeLease(r)
  <2>1. CASE AcquireStream(IpOf[r], ProjectOf[r]) /\ Goto(r, "project")
    BY <1>1, <1>5, <2>1 DEF TakeLease, LeaseTaken
  <2>2. CASE Goto(r, "ended") /\ UNCHANGED limiterVars
    BY <1>1, <1>5, <2>2 DEF TakeLease, limiterVars
  <2> QED
    BY <1>5, <2>1, <2>2 DEF TakeLease
<1>6. CASE LoadProject(r) \/ CheckWidget(r) \/ PreparePlugin(r)
  BY <1>2, <1>3, <1>6 DEF LoadProject, CheckWidget, PreparePlugin, Reject
<1>7. CASE TurnStarts(r) \/ SearchEnds(r)
  BY <1>2, <1>3, <1>7 DEF TurnStarts, SearchEnds
<1>8. CASE AnswerEnds(r) \/ Leave(r)
  BY <1>2, <1>8 DEF AnswerEnds, Leave
<1>9. CASE CancelRequest(r)
  BY <1>1, <1>9 DEF CancelRequest, CheckRequest
<1> QED
  BY <1>4, <1>5, <1>6, <1>7, <1>8, <1>9 DEF RequestStep

(* The clock, the administrator, the index and the search move none.         *)
LEMMA SurroundingsMoveNoLease ==
  ASSUME LeaseInv, Surroundings \/ UNCHANGED visitorVars
  PROVE  pc' = pc /\ NoLeaseMoves
BY DEF Surroundings, TimePasses, Tick, Disable, visitorVars, chatVars, limiterVars, streamCounts,
       NoLeaseMoves, HoldersUnchanged, Holds

-----------------------------------------------------------------------------
(* Counting. *)

(* Streams that are open can be counted.                                     *)
LEMMA CountedOpen ==
  ASSUME NEW requests \in SUBSET Requests
  PROVE  /\ Open(requests) \in Nat
         /\ IsFiniteSet({q \in requests : Holds(q)})
<1>1. IsFiniteSet(requests)
  BY VisitorAssumption, FS_Subset
<1>2. IsFiniteSet({q \in requests : Holds(q)})
  BY <1>1, FS_Subset
<1> QED
  BY <1>2, FS_CardinalityType DEF Open

(* A lease that is taken is counted once where it belongs, and nowhere else. *)
LEMMA OpenAfterTaking ==
  ASSUME NEW requests \in SUBSET Requests, NEW r \in Requests, LeaseTaken(r)
  PROVE  Open(requests)' = IF r \in requests THEN Open(requests) + 1 ELSE Open(requests)
<1> DEFINE before == {q \in requests : Holds(q)}
           after  == {q \in requests : Holds(q)'}
<1>1. IsFiniteSet(before)
  BY CountedOpen
<1>2. CASE r \in requests
  <2>1. after = before \cup {r} /\ r \notin before
    BY <1>2 DEF LeaseTaken, HoldersUnchanged
  <2>2. Cardinality(after) = Cardinality(before) + 1
    BY <1>1, <2>1, FS_AddElement
  <2> QED
    BY <1>2, <2>2 DEF Open
<1>3. CASE r \notin requests
  <2>1. after = before
    BY <1>3 DEF LeaseTaken, HoldersUnchanged
  <2> QED
    BY <1>3, <2>1 DEF Open
<1> QED
  BY <1>2, <1>3

(* A lease given back was counted before, and is no more.                    *)
LEMMA OpenAfterGiving ==
  ASSUME NEW requests \in SUBSET Requests, NEW r \in Requests, LeaseGiven(r)
  PROVE  /\ Open(requests)' = IF r \in requests THEN Open(requests) - 1 ELSE Open(requests)
         /\ r \in requests => Open(requests) \in Nat \ {0}
<1> DEFINE before == {q \in requests : Holds(q)}
           after  == {q \in requests : Holds(q)'}
<1>1. IsFiniteSet(before) /\ Open(requests) \in Nat
  BY CountedOpen
<1>2. CASE r \in requests
  <2>1. after = before \ {r} /\ r \in before
    BY <1>2 DEF LeaseGiven, HoldersUnchanged
  <2>2. Cardinality(after) = Cardinality(before) - 1
    BY <1>1, <2>1, FS_RemoveElement
  <2>3. Cardinality(before) # 0
    BY <1>1, <2>1, FS_EmptySet
  <2> QED
    BY <1>1, <1>2, <2>2, <2>3 DEF Open
<1>3. CASE r \notin requests
  <2>1. after = before
    BY <1>3 DEF LeaseGiven, HoldersUnchanged
  <2> QED
    BY <1>3, <2>1 DEF Open
<1> QED
  BY <1>2, <1>3

(* Who moves no lease changes no count.                                      *)
LEMMA OpenAfterNeither ==
  ASSUME NEW requests \in SUBSET Requests, NoLeaseMoves
  PROVE  Open(requests)' = Open(requests)
<1>1. {q \in requests : Holds(q)'} = {q \in requests : Holds(q)}
  BY DEF NoLeaseMoves, HoldersUnchanged
<1> QED
  BY <1>1 DEF Open

-----------------------------------------------------------------------------
(* Every move keeps the counters exact. *)

OfIp(ip) == {q \in Requests : IpOf[q] = ip}
OfProject(p) == {q \in Requests : ProjectOf[q] = p}

(* Each kind of move keeps the invariant.                                    *)
LEMMA MovesKeepLeases ==
  ASSUME LeaseInv, pc' \in [Requests -> Steps],
         NoLeaseMoves \/ \E r \in Requests : LeaseTaken(r) \/ LeaseGiven(r)
  PROVE  LeaseInv'
<1>1. /\ activeIp \in [Ips -> Nat] /\ activeProject \in [Projects -> Nat]
      /\ \A ip \in Ips : activeIp[ip] = Open(OfIp(ip)) /\ activeIp[ip] <= StreamPerIp
      /\ \A p \in Projects :
           activeProject[p] = Open(OfProject(p)) /\ activeProject[p] <= StreamPerProject
  BY DEF LeaseInv, LeasesExact, OfIp, OfProject
<1>2. SUFFICES /\ activeIp' \in [Ips -> Nat] /\ activeProject' \in [Projects -> Nat]
               /\ \A ip \in Ips : activeIp'[ip] = Open(OfIp(ip))' /\ activeIp'[ip] <= StreamPerIp
               /\ \A p \in Projects :
                    activeProject'[p] = Open(OfProject(p))' /\ activeProject'[p] <= StreamPerProject
  BY DEF LeaseInv, LeasesExact, OfIp, OfProject, Open, Holds
<1>3. StreamPerIp \in Nat /\ StreamPerProject \in Nat
  BY RateLimitAssumption
<1>4. CASE NoLeaseMoves
  <2>1. \A ip \in Ips : Open(OfIp(ip))' = Open(OfIp(ip))
    BY <1>4, OpenAfterNeither DEF OfIp
  <2>2. \A p \in Projects : Open(OfProject(p))' = Open(OfProject(p))
    BY <1>4, OpenAfterNeither DEF OfProject
  <2> QED
    BY <1>1, <1>4, <2>1, <2>2 DEF NoLeaseMoves, streamCounts
<1>5. ASSUME NEW r \in Requests, LeaseTaken(r) PROVE <1>2!1
  <2>1. \A ip \in Ips : Open(OfIp(ip))' = IF IpOf[r] = ip THEN Open(OfIp(ip)) + 1 ELSE Open(OfIp(ip))
    BY <1>5, OpenAfterTaking DEF OfIp
  <2>2. \A p \in Projects : Open(OfProject(p))' =
          IF ProjectOf[r] = p THEN Open(OfProject(p)) + 1 ELSE Open(OfProject(p))
    BY <1>5, OpenAfterTaking DEF OfProject
  <2>3. /\ activeIp' = [activeIp EXCEPT ![IpOf[r]] = @ + 1]
        /\ activeProject' = [activeProject EXCEPT ![ProjectOf[r]] = @ + 1]
        /\ activeIp[IpOf[r]] < StreamPerIp /\ activeProject[ProjectOf[r]] < StreamPerProject
    BY <1>5 DEF LeaseTaken, AcquireStream, Room
  <2>4. IpOf[r] \in Ips /\ ProjectOf[r] \in Projects
    BY VisitorAssumption
  <2> QED
    BY <1>1, <1>3, <2>1, <2>2, <2>3, <2>4
<1>6. ASSUME NEW r \in Requests, LeaseGiven(r) PROVE <1>2!1
  <2>1. \A ip \in Ips :
          /\ Open(OfIp(ip))' = IF IpOf[r] = ip THEN Open(OfIp(ip)) - 1 ELSE Open(OfIp(ip))
          /\ IpOf[r] = ip => Open(OfIp(ip)) \in Nat \ {0}
    BY <1>6, OpenAfterGiving DEF OfIp
  <2>2. \A p \in Projects :
          /\ Open(OfProject(p))' =
               IF ProjectOf[r] = p THEN Open(OfProject(p)) - 1 ELSE Open(OfProject(p))
          /\ ProjectOf[r] = p => Open(OfProject(p)) \in Nat \ {0}
    BY <1>6, OpenAfterGiving DEF OfProject
  <2>3. /\ activeIp' = [activeIp EXCEPT ![IpOf[r]] = Decrement(@)]
        /\ activeProject' = [activeProject EXCEPT ![ProjectOf[r]] = Decrement(@)]
    BY <1>6 DEF LeaseGiven, ReleaseStream
  <2>4. IpOf[r] \in Ips /\ ProjectOf[r] \in Projects
    BY VisitorAssumption
  <2>5. \A n \in Nat \ {0} : Decrement(n) = n - 1
    BY DEF Decrement
  <2> QED
    BY <1>1, <1>3, <2>1, <2>2, <2>3, <2>4, <2>5
<1> QED
  BY <1>4, <1>5, <1>6

(* No lease is held before the first request.                                *)
LEMMA LeasesInitially == Init => LeaseInv
<1> SUFFICES ASSUME Init PROVE LeaseInv
  OBVIOUS
<1>1. pc \in [Requests -> Steps] /\ \A q \in Requests : ~ Holds(q)
  BY DEF Init, Steps, Holds
<1>2. /\ activeIp = [ip \in Ips |-> 0] /\ activeProject = [p \in Projects |-> 0]
  BY DEF Init, LimiterInit
<1>3. ASSUME NEW requests \in SUBSET Requests PROVE Open(requests) = 0
  <2>1. {q \in requests : Holds(q)} = {}
    BY <1>1
  <2> QED
    BY <2>1, FS_EmptySet DEF Open
<1>4. StreamPerIp \in Nat /\ StreamPerProject \in Nat
  BY RateLimitAssumption
<1> QED
  BY <1>1, <1>2, <1>3, <1>4 DEF LeaseInv, LeasesExact

(* Every step of the endpoint keeps it.                                      *)
LEMMA LeasesKept ==
  ASSUME LeaseInv, [Next]_visitorVars
  PROVE  LeaseInv'
<1>1. pc \in [Requests -> Steps]
  BY DEF LeaseInv
<1>2. CASE Surroundings \/ UNCHANGED visitorVars
  BY <1>1, <1>2, SurroundingsMoveNoLease, MovesKeepLeases
<1>3. CASE \E r \in Requests : RequestStep(r)
  BY <1>3, RequestMovesOwnLease, MovesKeepLeases
<1> QED
  BY <1>2, <1>3 DEF Next

-----------------------------------------------------------------------------
(* However requests end, by refusal, failure, cancellation or their client   *)
(* going away, every stream that is open is counted once for its ip and once *)
(* for its project, no slot leaks, none is released twice, and neither limit *)
(* is passed (visitor_stream_lease, acquire_stream, release_stream).         *)
THEOREM LeasesAreExact == Spec => []LeasesExact
<1>1. LeaseInv => LeasesExact
  BY DEF LeaseInv
<1> QED
  BY <1>1, LeasesInitially, LeasesKept, PTL DEF Spec

-----------------------------------------------------------------------------
(* The request windows.  What a queue has forgotten has left its window for   *)
(* good, so a queue shorter than the limit leaves room for one more request.  *)

Covers(kept, times, window, time) ==
  /\ Len(kept) <= Len(times)
  /\ \A i \in 1 .. Len(kept) : kept[i] = times[Len(times) - Len(kept) + i]
  /\ \A i \in 1 .. Len(times) - Len(kept) : times[i] + window < time

(* A window holds limit times at most.                                       *)
Spaced(times, limit, window) ==
  \A i \in 1 .. Len(times) : i > limit => times[i] > times[i - limit] + window

WindowInv ==
  /\ now \in Nat
  /\ hits \in [Keys -> Seq(Nat)] /\ charged \in [Keys -> Seq(Nat)]
  /\ \A k \in Keys : Covers(hits[k], charged[k], Window(k[1]), now)
  /\ \A k \in Keys : Limit(k[1]) > 0 => Spaced(charged[k], Limit(k[1]), Window(k[1]))

(* The least number of a set.                                                *)
LEMMA LeastNumber ==
  ASSUME NEW T \in SUBSET Nat, T # {}
  PROVE  \E m \in T : \A k \in T : m <= k
<1> DEFINE R == {pair \in Nat \X Nat : pair[1] < pair[2]}
<1>1. IsWellFoundedOn(R, Nat)
  BY NatLessThanWellFounded DEF OpToRel
<1>2. \A k, m \in Nat : <<k, m>> \in R <=> k < m
  OBVIOUS
<1> HIDE DEF R
<1>3. PICK m \in T : \A k \in T : ~ (<<k, m>> \in R)
  BY <1>1, WFMin
<1>4. \A k, x \in Nat : ~ (k < x) => x <= k
  OBVIOUS
<1>5. \A k \in T : k \in Nat
  OBVIOUS
<1> QED
  BY <1>2, <1>3, <1>4, <1>5, Zenon

(* The limits and windows of a key are those of its rule, none longer than  *)
(* the hour after which the cleanup takes an empty queue away.               *)
LEMMA LimitsOfKeys ==
  ASSUME NEW k \in Keys
  PROVE  Limit(k[1]) \in Nat /\ Window(k[1]) \in Nat /\ Window(k[1]) <= Hour /\ Hour \in Nat
<1>1. k[1] \in {"ip_project:1m", "ip_project:1h", "ip:1m", "project:1m"}
  BY DEF Keys
<1> QED
  BY <1>1, RateLimitAssumption DEF Limit, Window

(* popleft takes an expired prefix and nothing else, and stops at the first  *)
(* time that has not left the window.                                        *)
LEMMA RecentIsRest ==
  ASSUME NEW times \in Seq(Nat), NEW window \in Nat, now \in Nat
  PROVE  /\ Recent(times, window) \in Seq(Nat)
         /\ \E d \in 0 .. Len(times) :
              /\ Len(Recent(times, window)) = Len(times) - d
              /\ \A i \in 1 .. Len(times) - d : Recent(times, window)[i] = times[d + i]
              /\ \A i \in 1 .. d : times[i] + window < now
<1> DEFINE n == Len(times)
           Stops(i) == /\ i <= n => times[i] + window >= now
                       /\ \A j \in 1 .. i - 1 : times[j] + window < now
           T == {i \in 1 .. n + 1 : i <= n => times[i] + window >= now}
<1>1. n \in Nat /\ \A i \in 1 .. n : times[i] \in Nat
  OBVIOUS
<1> HIDE DEF n
<1>2. T \in SUBSET Nat /\ n + 1 \in T
  BY <1>1
<1>3. PICK m \in T : \A k \in T : m <= k
  BY <1>2, LeastNumber
<1>4. m \in 1 .. n + 1 /\ Stops(m)
  <2>1. m \in 1 .. n + 1 /\ (m <= n => times[m] + window >= now)
    BY <1>3
  <2>2. ASSUME NEW j \in 1 .. m - 1 PROVE times[j] + window < now
    <3>1. j \in 1 .. n /\ j < m /\ j \in 1 .. n + 1
      BY <1>1, <2>1
    <3>2. j \notin T
      BY <1>3, <2>1, <3>1
    <3>3. ~ (times[j] + window >= now)
      BY <3>1, <3>2
    <3> QED
      BY <1>1, <3>1, <3>3
  <2> QED
    BY <2>1, <2>2
<1> DEFINE first == CHOOSE i \in 1 .. n + 1 : Stops(i)
<1>5. first \in 1 .. n + 1 /\ Stops(first)
  BY <1>4
<1>6. Recent(times, window) = SubSeq(times, first, n)
  BY DEF Recent, n
<1> HIDE DEF first
<1>7. PICK d \in 0 .. n : first = d + 1
  <2>1. first - 1 \in 0 .. n /\ first = (first - 1) + 1
    BY <1>1, <1>5
  <2> QED
    BY <2>1
<1>8. /\ SubSeq(times, d + 1, n) \in Seq(Nat)
      /\ Len(SubSeq(times, d + 1, n)) = n - d
      /\ \A i \in 1 .. n - d : SubSeq(times, d + 1, n)[i] = times[d + i]
  BY <1>1 DEF n
<1>9. \A i \in 1 .. d : times[i] + window < now
  BY <1>1, <1>5, <1>7
<1> QED
  BY <1>6, <1>7, <1>8, <1>9 DEF n

(* What popleft drops had left the window. *)
LEMMA RecentCovers ==
  ASSUME NEW kept \in Seq(Nat), NEW times \in Seq(Nat), NEW window \in Nat, now \in Nat,
         Covers(kept, times, window, now)
  PROVE  Recent(kept, window) \in Seq(Nat) /\ Covers(Recent(kept, window), times, window, now)
<1> DEFINE r == Recent(kept, window)
<1>1. PICK d \in 0 .. Len(kept) :
        /\ Len(r) = Len(kept) - d
        /\ \A i \in 1 .. Len(kept) - d : r[i] = kept[d + i]
        /\ \A i \in 1 .. d : kept[i] + window < now
  BY RecentIsRest
<1>2. r \in Seq(Nat)
  BY RecentIsRest
<1> HIDE DEF r
<1>3. PICK n \in Nat : n = Len(times)
  OBVIOUS
<1>4. PICK m \in Nat : m = Len(kept)
  OBVIOUS
<1>5. m <= n /\ d \in Nat /\ d <= m /\ Len(r) = m - d
  BY <1>1, <1>3, <1>4 DEF Covers
<1>6. \A i \in 1 .. m : kept[i] = times[n - m + i]
  BY <1>3, <1>4 DEF Covers
<1>7. \A i \in 1 .. n - m : times[i] + window < now
  BY <1>3, <1>4 DEF Covers
<1>8. ASSUME NEW i \in 1 .. m - d
      PROVE  r[i] = times[n - (m - d) + i]
  <2>1. d + i \in 1 .. m /\ n - m + (d + i) = n - (m - d) + i
    BY <1>5
  <2>2. r[i] = kept[d + i]
    BY <1>1, <1>4
  <2> QED
    BY <1>6, <2>1, <2>2
<1>9. ASSUME NEW i \in 1 .. n - (m - d)
      PROVE  times[i] + window < now
  <2>1. CASE i <= n - m
    <3>1. i \in 1 .. n - m
      BY <1>5, <2>1
    <3> QED
      BY <1>7, <3>1
  <2>2. CASE ~ (i <= n - m)
    <3> DEFINE j == i - (n - m)
    <3>1. j \in 1 .. d /\ j \in 1 .. m /\ n - m + j = i
      BY <1>5, <2>2
    <3> HIDE DEF j
    <3>2. kept[j] = times[i] /\ kept[j] + window < now
      BY <1>1, <1>6, <3>1
    <3> QED
      BY <3>2
  <2> QED
    BY <2>1, <2>2
<1> QED
  BY <1>2, <1>3, <1>5, <1>8, <1>9 DEF Covers, r

(* _cleanup_expired forgets no time of a window, the longest one being an    *)
(* hour.                                                                     *)
LEMMA CleanedCovers ==
  ASSUME WindowInv, NEW k \in Keys
  PROVE  Cleaned(k) \in Seq(Nat) /\ Covers(Cleaned(k), charged[k], Window(k[1]), now)
<1> DEFINE kept  == hits[k]
           times == charged[k]
           window == Window(k[1])
<1>1. /\ kept \in Seq(Nat) /\ times \in Seq(Nat) /\ window \in Nat /\ window <= Hour
      /\ Hour \in Nat /\ now \in Nat /\ Covers(kept, times, window, now)
  BY LimitsOfKeys DEF WindowInv
<1>2. CASE Cleaned(k) = kept
  BY <1>1, <1>2
<1>3. CASE Recent(kept, Hour) = << >> /\ Cleaned(k) = << >>
  <2> HIDE DEF kept, times, window
  <2>1. PICK d \in 0 .. Len(kept) :
          /\ Len(Recent(kept, Hour)) = Len(kept) - d
          /\ \A i \in 1 .. d : kept[i] + Hour < now
    BY <1>1, RecentIsRest
  <2>2. d = Len(kept)
    BY <1>1, <1>3, <2>1
  <2>3. \A i \in 1 .. Len(kept) : kept[i] + window < now
    <3> TAKE i \in 1 .. Len(kept)
    <3>1. kept[i] \in Nat /\ kept[i] + Hour < now
      BY <1>1, <2>1, <2>2
    <3>2. \A e \in Nat : e + Hour < now => e + window < now
      BY <1>1
    <3> QED
      BY <3>1, <3>2
  <2>4. PICK n \in Nat : n = Len(times)
    BY <1>1
  <2>5. PICK m \in Nat : m = Len(kept)
    BY <1>1
  <2>6. \A i \in 1 .. n : times[i] + window < now
    <3> TAKE i \in 1 .. n
    <3>1. m <= n
      BY <1>1, <2>4, <2>5 DEF Covers
    <3>2. CASE i <= n - m
      <4>1. i \in 1 .. n - m
        BY <3>1, <3>2
      <4> QED
        BY <1>1, <2>4, <2>5, <4>1 DEF Covers
    <3>3. CASE ~ (i <= n - m)
      <4> DEFINE j == i - (n - m)
      <4>1. j \in 1 .. m /\ n - m + j = i
        BY <3>1, <3>3
      <4> HIDE DEF j
      <4>2. kept[j] = times[i]
        BY <1>1, <2>4, <2>5, <4>1 DEF Covers
      <4> QED
        BY <2>3, <2>5, <4>1, <4>2
    <3> QED
      BY <3>2, <3>3
  <2>7. Len(<< >>) = 0 /\ << >> \in Seq(Nat)
    OBVIOUS
  <2> QED
    BY <1>3, <2>4, <2>6, <2>7 DEF Covers, times, window
<1> QED
  BY <1>2, <1>3 DEF Cleaned

(* A request is charged to a queue shorter than the limit: the request that   *)
(* is the limit's number before it is among those the queue has forgotten.    *)
LEMMA ChargeKeeps ==
  ASSUME NEW kept \in Seq(Nat), NEW times \in Seq(Nat), NEW window \in Nat, now \in Nat,
         NEW limit \in Nat, Covers(kept, times, window, now), Len(kept) < limit,
         Spaced(times, limit, window)
  PROVE  LET after == Append(times, now)
         IN  /\ after \in Seq(Nat) /\ Append(kept, now) \in Seq(Nat)
             /\ Covers(Append(kept, now), after, window, now)
             /\ Spaced(after, limit, window)
<1> DEFINE after == Append(times, now)
           r == Append(kept, now)
<1>1. PICK n \in Nat : n = Len(times)
  OBVIOUS
<1>2. PICK m \in Nat : m = Len(kept)
  OBVIOUS
<1>3. /\ after \in Seq(Nat) /\ Len(after) = n + 1 /\ after[n + 1] = now
      /\ \A i \in 1 .. n : after[i] = times[i]
      /\ r \in Seq(Nat) /\ Len(r) = m + 1 /\ r[m + 1] = now
      /\ \A i \in 1 .. m : r[i] = kept[i]
  BY <1>1, <1>2
<1> HIDE DEF after, r
<1>4. m <= n /\ m < limit
  BY <1>1, <1>2 DEF Covers
<1>5. \A i \in 1 .. m : kept[i] = times[n - m + i]
  BY <1>1, <1>2 DEF Covers
<1>6. \A i \in 1 .. n - m : times[i] + window < now
  BY <1>1, <1>2 DEF Covers
<1>7. ASSUME NEW i \in 1 .. m + 1
      PROVE  r[i] = after[(n + 1) - (m + 1) + i]
  <2>1. CASE i = m + 1
    <3>1. (n + 1) - (m + 1) + i = n + 1
      BY <2>1
    <3> QED
      BY <1>3, <2>1, <3>1
  <2>2. CASE i # m + 1
    <3>1. i \in 1 .. m /\ (n + 1) - (m + 1) + i = n - m + i /\ n - m + i \in 1 .. n
      BY <1>4, <2>2
    <3> QED
      BY <1>3, <1>5, <3>1
  <2> QED
    BY <2>1, <2>2
<1>8. ASSUME NEW i \in 1 .. (n + 1) - (m + 1)
      PROVE  after[i] + window < now
  <2>1. i \in 1 .. n - m /\ i \in 1 .. n
    BY <1>4
  <2> QED
    BY <1>3, <1>6, <2>1
<1>9. Covers(r, after, window, now)
  <2>1. m + 1 <= n + 1
    BY <1>4
  <2> QED
    BY <1>3, <1>7, <1>8, <2>1 DEF Covers
<1>10. ASSUME NEW i \in 1 .. n + 1, i > limit
       PROVE  after[i] > after[i - limit] + window
  <2>1. CASE i = n + 1
    <3>1. i - limit \in 1 .. n - m /\ i - limit \in 1 .. n
      BY <1>4, <1>10, <2>1
    <3>2. PICK e \in Nat : e = after[i - limit]
      <4>1. \A j \in 1 .. n : times[j] \in Nat
        BY <1>1
      <4> QED
        BY <1>3, <3>1, <4>1
    <3>3. e + window < now
      BY <1>3, <1>6, <3>1, <3>2
    <3>4. after[i] = now
      BY <1>3, <2>1
    <3>5. now > e + window
      BY <3>3
    <3>6. now > after[i - limit] + window
      BY <3>2, <3>5
    <3> QED
      BY <3>4, <3>6
  <2>2. CASE i # n + 1
    <3>1. i \in 1 .. n /\ i - limit \in 1 .. n
      BY <1>10, <2>2
    <3>2. times[i] > times[i - limit] + window
      BY <1>1, <1>10, <3>1 DEF Spaced
    <3> QED
      BY <1>3, <3>1, <3>2
  <2> QED
    BY <2>1, <2>2
<1> QED
  BY <1>3, <1>9, <1>10 DEF Spaced, after, r

(* check_request keeps the windows, whichever rule refuses. *)
LEMMA CheckKeepsWindows ==
  ASSUME WindowInv, NEW ip, NEW project, NEW passes, CheckRequest(ip, project, passes)
  PROVE  WindowInv'
<1>1. /\ now' = now /\ now \in Nat
      /\ hits' = [k \in Keys |-> hits'[k]] /\ charged' = [k \in Keys |-> charged'[k]]
  BY DEF CheckRequest, WindowInv
<1>2. ASSUME NEW k \in Keys
      PROVE  \/ hits'[k] = Cleaned(k) /\ charged'[k] = charged[k]
             \/ hits'[k] = Recent(Cleaned(k), Window(k[1])) /\ charged'[k] = charged[k]
             \/ /\ Limit(k[1]) > 0 /\ Passes(k)
                /\ hits'[k] = Append(Recent(Cleaned(k), Window(k[1])), now)
                /\ charged'[k] = Append(charged[k], now)
  BY <1>2, Zenon DEF CheckRequest
<1>3. ASSUME NEW k \in Keys
      PROVE  /\ hits'[k] \in Seq(Nat) /\ charged'[k] \in Seq(Nat)
             /\ Covers(hits'[k], charged'[k], Window(k[1]), now)
             /\ Limit(k[1]) > 0 => Spaced(charged'[k], Limit(k[1]), Window(k[1]))
  <2> DEFINE window == Window(k[1])
             limit == Limit(k[1])
             times == charged[k]
             kept == Recent(Cleaned(k), window)
  <2>1. /\ Cleaned(k) \in Seq(Nat) /\ Covers(Cleaned(k), times, window, now)
        /\ limit \in Nat /\ window \in Nat /\ times \in Seq(Nat)
    BY CleanedCovers, LimitsOfKeys DEF WindowInv
  <2>2. kept \in Seq(Nat) /\ Covers(kept, times, window, now)
    BY <1>1, <2>1, RecentCovers
  <2>3. limit > 0 => Spaced(times, limit, window)
    BY DEF WindowInv
  <2>4. CASE hits'[k] = Cleaned(k) /\ charged'[k] = times
    BY <2>1, <2>3, <2>4
  <2>5. CASE hits'[k] = kept /\ charged'[k] = times
    BY <2>1, <2>2, <2>3, <2>5
  <2>6. CASE /\ limit > 0 /\ Passes(k)
             /\ hits'[k] = Append(kept, now) /\ charged'[k] = Append(times, now)
    <3>1. Len(kept) < limit
      BY <2>1, <2>6 DEF Passes
    <3> HIDE DEF kept, limit, window, times
    <3>2. /\ Append(times, now) \in Seq(Nat) /\ Append(kept, now) \in Seq(Nat)
          /\ Covers(Append(kept, now), Append(times, now), window, now)
          /\ Spaced(Append(times, now), limit, window)
      BY <1>1, <2>1, <2>2, <2>3, <2>6, <3>1, ChargeKeeps
    <3> QED
      BY <2>6, <3>2 DEF limit, window
  <2> QED
    BY <1>2, <2>4, <2>5, <2>6
<1>4. hits' \in [Keys -> Seq(Nat)] /\ charged' \in [Keys -> Seq(Nat)]
  BY <1>1, <1>3
<1> QED
  BY <1>1, <1>3, <1>4 DEF WindowInv

(* As time passes, what was forgotten only grows older. *)
LEMMA TickKeepsWindows == WindowInv /\ Tick => WindowInv'
<1> SUFFICES ASSUME WindowInv, Tick PROVE WindowInv'
  OBVIOUS
<1>1. now \in Nat /\ now' = now + 1 /\ hits' = hits /\ charged' = charged
  BY DEF WindowInv, Tick
<1>2. ASSUME NEW k \in Keys PROVE Covers(hits[k], charged[k], Window(k[1]), now')
  <2>1. \A e \in Nat : e < now => e < now'
    BY <1>1
  <2>2. Window(k[1]) \in Nat /\ charged[k] \in Seq(Nat) /\ hits[k] \in Seq(Nat)
    BY LimitsOfKeys DEF WindowInv
  <2>3. \A i \in 1 .. Len(charged[k]) : charged[k][i] + Window(k[1]) \in Nat
    BY <2>2
  <2>4. \A i \in 1 .. Len(charged[k]) - Len(hits[k]) : i \in 1 .. Len(charged[k])
    BY <2>2
  <2> QED
    BY <1>1, <2>1, <2>3, <2>4 DEF WindowInv, Covers
<1> QED
  BY <1>1, <1>2 DEF WindowInv

(* The process starts with empty queues. *)
LEMMA WindowsInitially == Init => WindowInv
<1> SUFFICES ASSUME NEW start \in Starts, LimiterInit(start.now) PROVE WindowInv
  BY DEF Init
<1>1. now \in Nat /\ \A k \in Keys : hits[k] = << >> /\ charged[k] = << >>
  BY VisitorAssumption DEF LimiterInit
<1>2. << >> \in Seq(Nat) /\ Len(<< >>) = 0
  OBVIOUS
<1>3. hits \in [Keys -> Seq(Nat)] /\ charged \in [Keys -> Seq(Nat)]
  BY <1>1, <1>2 DEF LimiterInit
<1> QED
  BY <1>1, <1>2, <1>3 DEF WindowInv, Spaced, Covers

(* Only check_request and the clock touch the windows. *)
LEMMA WindowsKept == WindowInv /\ [Next]_visitorVars => WindowInv'
<1> SUFFICES ASSUME WindowInv, [Next]_visitorVars PROVE WindowInv'
  OBVIOUS
<1>1. ASSUME UNCHANGED windowVars PROVE WindowInv'
  BY <1>1 DEF windowVars, WindowInv
<1>2. ASSUME NEW r \in Requests, RequestStep(r) PROVE WindowInv'
  <2>1. CASE Arrive(r) \/ CancelRequest(r)
    BY <2>1, CheckKeepsWindows DEF Arrive, CancelRequest
  <2>2. CASE ~ (Arrive(r) \/ CancelRequest(r))
    BY <1>1, <1>2, <2>2
    DEF RequestStep, TakeLease, LoadProject, CheckWidget, PreparePlugin, TurnStarts,
        SearchEnds, AnswerEnds, Leave, Reject, Release, Passed, AcquireStream, ReleaseStream,
        limiterVars, windowVars
  <2> QED
    BY <2>1, <2>2
<1>3. CASE TimePasses
  BY <1>3, TickKeepsWindows DEF TimePasses
<1>4. CASE UNCHANGED limiterVars
  BY <1>1, <1>4 DEF limiterVars, windowVars
<1> QED
  BY <1>2, <1>3, <1>4 DEF Next, Surroundings, Disable, visitorVars

(* However requests, refusals, cancel calls and the cleanup follow each      *)
(* other, no window of a rule ever holds more charged requests of a key than *)
(* the rule's limit (check_request, _check_window, _cleanup_expired).        *)
THEOREM WindowsAlwaysHold == Spec => []WindowsHold
<1>1. WindowInv => WindowsHold
  <2> SUFFICES ASSUME WindowInv, NEW k \in Keys, Limit(k[1]) > 0,
                      NEW i \in DOMAIN charged[k], i > Limit(k[1])
               PROVE  charged[k][i] > charged[k][i - Limit(k[1])] + Window(k[1])
    BY DEF WindowsHold
  <2>1. charged[k] \in Seq(Nat) /\ Spaced(charged[k], Limit(k[1]), Window(k[1]))
    BY DEF WindowInv
  <2>2. i \in 1 .. Len(charged[k])
    BY <2>1
  <2> QED
    BY <2>1, <2>2 DEF Spaced
<1> QED
  BY <1>1, WindowsInitially, WindowsKept, PTL DEF Spec

-----------------------------------------------------------------------------
(* Sorting.  InOrder places every element behind as many others as come      *)
(* before it: in a strict total order no two come behind as many, so each    *)
(* place is taken.                                                           *)

Orders(R, S) ==
  /\ \A x \in S : <<x, x>> \notin R
  /\ \A x, y \in S : x = y \/ <<x, y>> \in R \/ <<y, x>> \in R
  /\ \A x, y, z \in S : <<x, y>> \in R /\ <<y, z>> \in R => <<x, z>> \in R

Before(R, S, x) == {y \in S : <<y, x>> \in R}

LEMMA BehindMore ==
  ASSUME NEW S, IsFiniteSet(S), NEW R, Orders(R, S), NEW x \in S
  PROVE  /\ IsFiniteSet(Before(R, S, x))
         /\ Cardinality(Before(R, S, x)) \in 0..(Cardinality(S) - 1)
         /\ \A y \in S : <<x, y>> \in R => Cardinality(Before(R, S, x)) < Cardinality(Before(R, S, y))
<1>1. ASSUME NEW T \in SUBSET S, Before(R, S, x) \subseteq T, x \in T
      PROVE  /\ IsFiniteSet(Before(R, S, x)) /\ Cardinality(Before(R, S, x)) \in Nat
             /\ IsFiniteSet(T) /\ Cardinality(T) \in Nat
             /\ Cardinality(Before(R, S, x)) < Cardinality(T)
  <2>1. IsFiniteSet(T) /\ Cardinality(T) \in Nat
    BY FS_Subset, FS_CardinalityType
  <2>2. IsFiniteSet(Before(R, S, x)) /\ Cardinality(Before(R, S, x)) <= Cardinality(T)
        /\ (Cardinality(Before(R, S, x)) = Cardinality(T) => Before(R, S, x) = T)
    BY <1>1, <2>1, FS_Subset
  <2>3. Cardinality(Before(R, S, x)) \in Nat
    BY <2>2, FS_CardinalityType
  <2>4. x \notin Before(R, S, x)
    BY DEF Before, Orders
  <2> QED
    BY <1>1, <2>1, <2>2, <2>3, <2>4
<1>2. Before(R, S, x) \subseteq S
  BY DEF Before
<1>3. ASSUME NEW y \in S, <<x, y>> \in R
      PROVE  Cardinality(Before(R, S, x)) < Cardinality(Before(R, S, y))
  <2>1. /\ Before(R, S, y) \in SUBSET S /\ x \in Before(R, S, y)
        /\ Before(R, S, x) \subseteq Before(R, S, y)
    BY <1>3 DEF Before, Orders
  <2> QED
    BY <1>1, <2>1
<1> QED
  BY <1>1, <1>2, <1>3

LEMMA InOrderIs ==
  ASSUME NEW S, IsFiniteSet(S), NEW R, Orders(R, S)
  PROVE  /\ Cardinality(S) \in Nat
         /\ InOrder(S, R) \in [1..Cardinality(S) -> S]
         /\ \A x \in S : \E n \in 1..Cardinality(S) : InOrder(S, R)[n] = x
         /\ \A m, n \in 1..Cardinality(S) : <<InOrder(S, R)[m], InOrder(S, R)[n]>> \in R <=> m < n
         /\ \A m, n \in 1..Cardinality(S) : InOrder(S, R)[m] = InOrder(S, R)[n] => m = n
<1> DEFINE count(x) == Cardinality(Before(R, S, x))
           f == [x \in S |-> count(x) + 1]
           N == Cardinality(S)
<1>1. N \in Nat /\ IsFiniteSet(1..N) /\ Cardinality(1..N) = N
  <2>1. N \in Nat
    BY FS_CardinalityType
  <2> QED
    BY <2>1, FS_Interval
<1>2. \A x \in S : count(x) \in 0..(N - 1)
  BY BehindMore
<1>3. \A x, y \in S : <<x, y>> \in R => count(x) < count(y)
  BY BehindMore
<1>4. ASSUME NEW x \in S, NEW y \in S, count(x) = count(y) PROVE x = y
  <2>1. ~ (count(x) < count(y)) /\ ~ (count(y) < count(x))
    BY <1>1, <1>2, <1>4
  <2> QED
    BY <1>3, <2>1 DEF Orders
<1>5. \A n \in 1..N : \E x \in S : count(x) = n - 1
  <2> HIDE DEF N
  <2>1. f \in [S -> 1..N]
    BY <1>1, <1>2
  <2>2. \A x, y \in S : f[x] = f[y] => x = y
    BY <1>1, <1>2, <1>4
  <2>3. f \in Injection(S, 1..N)
    BY <2>1, <2>2 DEF Injection, IsInjective
  <2>4. f \in Surjection(S, 1..N)
    BY <1>1, <2>3, FS_Injection DEF N
  <2>5. ASSUME NEW n \in 1..N PROVE \E x \in S : count(x) = n - 1
    <3>1. PICK x \in S : f[x] = n
      BY <2>4 DEF Surjection
    <3> QED
      BY <1>1, <1>2, <3>1
  <2> QED
    BY <2>5
<1> DEFINE s == InOrder(S, R)
<1>6. ASSUME NEW n \in 1..N PROVE s[n] \in S /\ count(s[n]) = n - 1
  <2>1. s[n] = CHOOSE x \in S : count(x) = n - 1
    BY DEF InOrder, Before
  <2>2. \E x \in S : count(x) = n - 1
    BY <1>5
  <2> HIDE DEF s, count
  <2> QED
    BY <2>1, <2>2
<1>7. s \in [1..N -> S]
  BY <1>6 DEF InOrder
<1>8. ASSUME NEW x \in S PROVE \E n \in 1..N : s[n] = x
  <2>1. count(x) + 1 \in 1..N /\ (count(x) + 1) - 1 = count(x)
    BY <1>1, <1>2
  <2> QED
    BY <1>4, <1>6, <2>1
<1>9. ASSUME NEW m \in 1..N, NEW n \in 1..N
      PROVE  (<<s[m], s[n]>> \in R <=> m < n) /\ (s[m] = s[n] => m = n)
  <2>1. s[m] \in S /\ s[n] \in S /\ count(s[m]) = m - 1 /\ count(s[n]) = n - 1
    BY <1>6
  <2> HIDE DEF s, count
  <2>2. m \in Nat /\ n \in Nat /\ (m - 1 < n - 1 <=> m < n) /\ (n - 1 < m - 1 <=> n < m)
    BY <1>1
  <2>3. <<s[m], s[n]>> \in R => m < n
    BY <1>3, <2>1, <2>2
  <2>4. <<s[n], s[m]>> \in R => n < m
    BY <1>3, <2>1, <2>2
  <2>5. s[m] = s[n] => m = n
    BY <1>1, <2>1
  <2>6. s[m] = s[n] \/ <<s[m], s[n]>> \in R \/ <<s[n], s[m]>> \in R
    BY <2>1 DEF Orders
  <2> QED
    BY <2>2, <2>3, <2>4, <2>5, <2>6
<1> HIDE DEF s, N
<1>10. /\ \A x \in S : \E n \in 1..N : s[n] = x
       /\ \A m, n \in 1..N : <<s[m], s[n]>> \in R <=> m < n
       /\ \A m, n \in 1..N : s[m] = s[n] => m = n
  BY <1>8, <1>9
<1> QED
  BY <1>1, <1>7, <1>10 DEF s, N

(* Some elements of a sequence: a subsequence that leaves none of them out.  *)
Picks(s, S, N, at) ==
  /\ at \in [1..N -> 1..Len(s)]
  /\ Only(s, S) = [k \in 1..N |-> s[at[k]]]
  /\ \A k \in 1..N : s[at[k]] \in S
  /\ \A n \in 1..Len(s) : s[n] \in S => \E k \in 1..N : at[k] = n
  /\ \A j, k \in 1..N : at[j] < at[k] <=> j < k

LEMMA OnlyIs ==
  ASSUME NEW T, NEW s \in Seq(T), NEW S
  PROVE  \E N \in Nat : \E at : Picks(s, S, N, at)
<1> DEFINE P == {n \in DOMAIN s : s[n] \in S}
           R == {p \in P \X P : p[1] < p[2]}
           at == InOrder(P, R)
           N == Cardinality(P)
<1>1. P \in SUBSET (1..Len(s)) /\ DOMAIN s = 1..Len(s) /\ Len(s) \in Nat
  OBVIOUS
<1>2. IsFiniteSet(P)
  <2>1. IsFiniteSet(1..Len(s))
    BY <1>1, FS_Interval
  <2> QED
    BY <1>1, <2>1, FS_Subset
<1>3. Orders(R, P)
  <2>1. \A m, n \in P : <<m, n>> \in R <=> m < n
    OBVIOUS
  <2>2. \A n \in P : n \in Nat
    BY <1>1
  <2> HIDE DEF P, R
  <2> QED
    BY <2>1, <2>2 DEF Orders
<1>4. /\ N \in Nat /\ at \in [1..N -> P]
      /\ \A x \in P : \E n \in 1..N : at[n] = x
      /\ \A m, n \in 1..N : <<at[m], at[n]>> \in R <=> m < n
  <2> HIDE DEF P, R
  <2> QED
    BY <1>2, <1>3, InOrderIs
<1>5. Only(s, S) = [k \in 1..N |-> s[at[k]]]
  <2>1. DOMAIN at = 1..N
    BY <1>4
  <2> QED
    BY <2>1, Zenon DEF Only
<1>6. \A m, n \in P : <<m, n>> \in R <=> m < n
  OBVIOUS
<1> HIDE DEF at, N, R
<1>7. at \in [1..N -> 1..Len(s)] /\ \A k \in 1..N : s[at[k]] \in S
  BY <1>1, <1>4
<1>8. \A n \in 1..Len(s) : s[n] \in S => \E k \in 1..N : at[k] = n
  BY <1>1, <1>4
<1>9. \A j, k \in 1..N : at[j] < at[k] <=> j < k
  BY <1>4, <1>6
<1>10. Picks(s, S, N, at)
  BY <1>5, <1>7, <1>8, <1>9 DEF Picks
<1> QED
  BY <1>4, <1>10


(* The first of a sequence.                                                  *)
LEMMA FirstIs ==
  ASSUME NEW T, NEW s \in Seq(T), NEW n \in Nat
  PROVE  /\ First(s, n) \in Seq(T) /\ Len(First(s, n)) <= Len(s)
         /\ \A k \in 1..Len(First(s, n)) : k \in 1..Len(s) /\ First(s, n)[k] = s[k]
<1> DEFINE m == IF n < Len(s) THEN n ELSE Len(s)
<1>1. Len(s) \in Nat /\ m \in Nat /\ m <= Len(s)
  OBVIOUS
<1>2. \A i \in 1..m : s[i] \in T
  BY <1>1
<1>3. First(s, n) = SubSeq(s, 1, m)
  BY DEF First
<1> HIDE DEF m
<1>4. /\ SubSeq(s, 1, m) \in Seq(T)
      /\ Len(SubSeq(s, 1, m)) = IF 1 <= m THEN m - 1 + 1 ELSE 0
      /\ \A i \in 1..(m - 1 + 1) : SubSeq(s, 1, m)[i] = s[1 + i - 1]
  BY <1>1, <1>2, SubSeqProperties
<1>5. Len(SubSeq(s, 1, m)) = m
  BY <1>1, <1>4
<1>6. \A k \in 1..m : k \in 1..Len(s) /\ k \in 1..(m - 1 + 1) /\ 1 + k - 1 = k
  BY <1>1
<1>7. \A k \in 1..m : k \in 1..Len(s) /\ SubSeq(s, 1, m)[k] = s[k]
  BY <1>4, <1>6
<1> QED
  BY <1>1, <1>3, <1>4, <1>5, <1>7

(* What is kept of a sequence comes from it, and of one without repetition   *)
(* nothing is kept twice.                                                    *)
LEMMA OnlyTyped ==
  ASSUME NEW T, NEW s \in Seq(T), NEW S
  PROVE  /\ Only(s, S) \in Seq(T \cap S)
         /\ IsInjective(s) => IsInjective(Only(s, S))
<1>0. PICK N \in Nat : \E at : Picks(s, S, N, at)
  BY OnlyIs
<1>1. PICK at : Picks(s, S, N, at)
  BY <1>0
<1>2. \A n \in 1..Len(s) : s[n] \in T
  OBVIOUS
<1>3. \A k \in 1..N : s[at[k]] \in T \cap S
  BY <1>1, <1>2 DEF Picks
<1>4. Only(s, S) \in Seq(T \cap S)
  BY <1>1, <1>3 DEF Picks
<1>5. ASSUME IsInjective(s), NEW j \in 1..N, NEW k \in 1..N, s[at[j]] = s[at[k]] PROVE j = k
  <2>1. at[j] = at[k] /\ at[j] \in Nat
    BY <1>1, <1>5 DEF IsInjective, Picks
  <2>2. ~ (j < k) /\ ~ (k < j)
    BY <1>1, <2>1 DEF Picks
  <2> QED
    BY <2>2
<1>6. IsInjective(s) => IsInjective(Only(s, S))
  BY <1>1, <1>5 DEF IsInjective, Picks
<1> QED
  BY <1>4, <1>6

LEMMA FirstTyped ==
  ASSUME NEW T, NEW s \in Seq(T), NEW n \in Nat
  PROVE  /\ First(s, n) \in Seq(T)
         /\ IsInjective(s) => IsInjective(First(s, n))
<1>1. PICK m \in Nat : m = Len(First(s, n)) /\ DOMAIN First(s, n) = 1..m
  BY FirstIs
<1>2. \A k \in 1..m : k \in 1..Len(s) /\ First(s, n)[k] = s[k]
  BY <1>1, FirstIs
<1>3. DOMAIN s = 1..Len(s)
  OBVIOUS
<1> QED
  BY <1>1, <1>2, <1>3, FirstIs DEF IsInjective

-----------------------------------------------------------------------------
(* Sums.  A sum over a set takes its elements in an order of its own, the    *)
(* same for every function.                                                  *)

Sizable(f, S) == IsFiniteSet(S) /\ \A x \in S : f[x] \in Nat

Picked(s) == CHOOSE x \in s : TRUE
Unroll(f, g, s) == IF s = {} THEN 0 ELSE f[Picked(s)] + g[s \ {Picked(s)}]
Unrolls(f, g, S) == g = [s \in SUBSET S |-> Unroll(f, g, s)]

LEMMA SumIs ==
  ASSUME NEW S, NEW f
  PROVE  SumFunctionOnSet(f, S) = (CHOOSE g : Unrolls(f, g, S))[S]
  BY Zenon DEF SumFunctionOnSet, FoldFunctionOnSet, MapThenFoldSet, Unrolls, Unroll, Picked

LEMMA PickedIn ==
  ASSUME NEW f, NEW s, s # {}, Sizable(f, s)
  PROVE  /\ Picked(s) \in s /\ f[Picked(s)] \in Nat /\ Sizable(f, s \ {Picked(s)})
         /\ Cardinality(s) \in Nat \ {0} /\ Cardinality(s \ {Picked(s)}) = Cardinality(s) - 1
<1>1. Picked(s) \in s
  BY Zenon DEF Picked
<1>2. IsFiniteSet(s \ {Picked(s)}) /\ Cardinality(s \ {Picked(s)}) = Cardinality(s) - 1
      /\ Cardinality(s) \in Nat
  BY <1>1, FS_RemoveElement, FS_CardinalityType DEF Sizable
<1>3. Cardinality(s) # 0
  BY FS_EmptySet DEF Sizable
<1> QED
  BY <1>1, <1>2, <1>3 DEF Sizable

LEMMA SizableSubset ==
  ASSUME NEW f, NEW S, Sizable(f, S), NEW T \in SUBSET S
  PROVE  Sizable(f, T) /\ Cardinality(T) \in Nat /\ Cardinality(T) <= Cardinality(S)
  BY FS_Subset, FS_CardinalityType DEF Sizable

(* Two folds agree wherever both are defined.                                *)
LEMMA FoldsAgree ==
  ASSUME NEW f, NEW S, NEW T, NEW g, NEW h, Unrolls(f, g, S), Unrolls(f, h, T),
         NEW s \in SUBSET S, s \in SUBSET T, Sizable(f, s)
  PROVE  g[s] = h[s] /\ g[s] \in Nat
<1> DEFINE Wrong(r) == r \in SUBSET S /\ r \in SUBSET T /\ Sizable(f, r) /\ ~ (g[r] = h[r] /\ g[r] \in Nat)
           Sizes == {n \in Nat : \E r \in SUBSET S : Wrong(r) /\ Cardinality(r) = n}
<1> SUFFICES ASSUME Wrong(s) PROVE FALSE
  OBVIOUS
<1>1. Cardinality(s) \in Nat
  BY FS_CardinalityType DEF Sizable
<1>2. Cardinality(s) \in Sizes
  BY <1>1
<1>3. PICK n \in Sizes : \A k \in Sizes : n <= k
  BY <1>2, LeastNumber
<1>4. PICK r \in SUBSET S : Wrong(r) /\ Cardinality(r) = n
  BY <1>3
<1>5. g[r] = Unroll(f, g, r) /\ h[r] = Unroll(f, h, r)
  BY <1>4, Zenon DEF Unrolls
<1>6. r # {}
  BY <1>4, <1>5 DEF Unroll
<1> DEFINE rest == r \ {Picked(r)}
<1>7. /\ f[Picked(r)] \in Nat /\ Sizable(f, rest) /\ n \in Nat
      /\ Cardinality(rest) = n - 1 /\ Cardinality(rest) \in Nat
  <2>1. Sizable(f, r) /\ n \in Nat /\ Cardinality(r) = n
    BY <1>3, <1>4
  <2>2. /\ f[Picked(r)] \in Nat /\ Sizable(f, rest) /\ n \in Nat \ {0}
        /\ Cardinality(rest) = n - 1
    BY <1>6, <2>1, PickedIn
  <2> HIDE DEF rest
  <2> QED
    BY <2>2
<1>8. ~ Wrong(rest)
  <2>1. ~ (n <= n - 1)
    BY <1>7
  <2>2. Cardinality(rest) \notin Sizes
    BY <1>3, <1>7, <2>1
  <2>3. rest \in SUBSET S
    BY <1>4
  <2> HIDE DEF rest
  <2> QED
    BY <1>7, <2>2, <2>3
<1>9. g[rest] = h[rest] /\ g[rest] \in Nat
  BY <1>4, <1>7, <1>8
<1> QED
  BY <1>4, <1>5, <1>6, <1>7, <1>9 DEF Unroll

(* There is a fold over every finite set: larger and larger subsets are      *)
(* unrolled.                                                                 *)
LEMMA FoldExists ==
  ASSUME NEW f, NEW S, Sizable(f, S)
  PROVE  \E g : Unrolls(f, g, S)
<1> DEFINE Upto(g, k) == /\ g \in [SUBSET S -> Nat]
                         /\ \A s \in SUBSET S : Cardinality(s) <= k => g[s] = Unroll(f, g, s)
           Without == {k \in Nat : \A g \in [SUBSET S -> Nat] : ~ Upto(g, k)}
<1>1. 0 \notin Without
  <2> DEFINE g == [s \in SUBSET S |-> 0]
  <2>1. \A s \in SUBSET S : Cardinality(s) <= 0 => s = {}
    BY SizableSubset, FS_EmptySet DEF Sizable
  <2>2. Upto(g, 0)
    BY <2>1 DEF Unroll
  <2> QED
    BY <2>2
<1>2. ASSUME NEW k \in Nat, k \notin Without PROVE k + 1 \notin Without
  <2>1. PICK g \in [SUBSET S -> Nat] : Upto(g, k)
    BY <1>2
  <2> DEFINE h == [s \in SUBSET S |-> Unroll(f, g, s)]
  <2>2. ASSUME NEW s \in SUBSET S, s # {}
        PROVE  /\ f[Picked(s)] \in Nat /\ s \ {Picked(s)} \in SUBSET S
               /\ Cardinality(s) \in Nat /\ Cardinality(s \ {Picked(s)}) = Cardinality(s) - 1
    BY <2>2, SizableSubset, PickedIn
  <2>3. h \in [SUBSET S -> Nat]
    <3>1. ASSUME NEW s \in SUBSET S PROVE Unroll(f, g, s) \in Nat
      <4>1. s # {} => g[s \ {Picked(s)}] \in Nat /\ f[Picked(s)] \in Nat
        BY <2>1, <2>2
      <4> QED
        BY <4>1 DEF Unroll
    <3> QED
      BY <3>1
  <2>4. ASSUME NEW s \in SUBSET S, Cardinality(s) <= k + 1 PROVE h[s] = Unroll(f, h, s)
    <3>1. h[s] = Unroll(f, g, s)
      OBVIOUS
    <3>2. CASE s = {}
      BY <3>1, <3>2 DEF Unroll
    <3>3. CASE s # {}
      <4> DEFINE rest == s \ {Picked(s)}
      <4>1. rest \in SUBSET S /\ Cardinality(rest) <= k
        BY <2>2, <2>4, <3>3
      <4>2. g[rest] = Unroll(f, g, rest) /\ h[rest] = Unroll(f, g, rest)
        BY <2>1, <4>1
      <4> HIDE DEF h
      <4> QED
        BY <3>1, <3>3, <4>2 DEF Unroll
    <3> QED
      BY <3>2, <3>3
  <2> HIDE DEF h
  <2>5. Upto(h, k + 1)
    BY <2>3, <2>4
  <2> QED
    BY <2>3, <2>5
<1>3. Without = {}
  <2> SUFFICES ASSUME Without # {} PROVE FALSE
    OBVIOUS
  <2>1. PICK n \in Without : \A k \in Without : n <= k
    BY LeastNumber
  <2> HIDE DEF Without
  <2>2. n \in Nat /\ n # 0
    BY <1>1, <2>1 DEF Without
  <2>3. n - 1 \in Nat /\ ~ (n <= n - 1) /\ n = (n - 1) + 1
    BY <2>2
  <2>4. n - 1 \notin Without
    BY <2>1, <2>3
  <2> QED
    BY <1>2, <2>1, <2>3, <2>4
<1>4. Cardinality(S) \in Nat /\ \A s \in SUBSET S : Cardinality(s) <= Cardinality(S)
  BY SizableSubset
<1>5. PICK g \in [SUBSET S -> Nat] : Upto(g, Cardinality(S))
  BY <1>3, <1>4
<1>6. \A s \in SUBSET S : g[s] = Unroll(f, g, s)
  BY <1>4, <1>5
<1>7. g = [s \in SUBSET S |-> Unroll(f, g, s)]
  BY <1>6
<1> QED
  BY <1>7 DEF Unrolls

LEMMA SumUnroll ==
  ASSUME NEW f, NEW S, Sizable(f, S)
  PROVE  /\ SumFunctionOnSet(f, S) \in Nat
         /\ S = {} => SumFunctionOnSet(f, S) = 0
         /\ S # {} => SumFunctionOnSet(f, S)
                        = f[Picked(S)] + SumFunctionOnSet(f, S \ {Picked(S)})
<1> DEFINE g == CHOOSE x : Unrolls(f, x, S)
           T == S \ {Picked(S)}
           h == CHOOSE x : Unrolls(f, x, T)
<1>1. Unrolls(f, g, S) /\ SumFunctionOnSet(f, S) = g[S]
  BY FoldExists, SumIs, Zenon
<1> HIDE DEF g
<1>2. g[S] = Unroll(f, g, S)
  BY <1>1, Zenon DEF Unrolls
<1>3. g[S] \in Nat
  BY <1>1, FoldsAgree
<1>4. ASSUME S # {} PROVE SumFunctionOnSet(f, S) = f[Picked(S)] + SumFunctionOnSet(f, T)
  <2>1. Sizable(f, T) /\ T \in SUBSET S
    BY <1>4, PickedIn
  <2>2. Unrolls(f, h, T) /\ SumFunctionOnSet(f, T) = h[T]
    BY <2>1, FoldExists, SumIs, Zenon
  <2> HIDE DEF h
  <2>3. g[T] = h[T]
    BY <1>1, <2>1, <2>2, FoldsAgree
  <2> QED
    BY <1>1, <1>2, <1>4, <2>2, <2>3 DEF Unroll
<1> QED
  BY <1>1, <1>2, <1>3, <1>4 DEF Unroll

(* Larger values have a larger sum.                                          *)
LEMMA SumMonotone ==
  ASSUME NEW f, NEW g, NEW S, Sizable(f, S), Sizable(g, S), \A x \in S : f[x] <= g[x]
  PROVE  SumFunctionOnSet(f, S) <= SumFunctionOnSet(g, S)
<1> DEFINE Wrong(T) == ~ (SumFunctionOnSet(f, T) <= SumFunctionOnSet(g, T))
           Sizes == {n \in Nat : \E T \in SUBSET S : Wrong(T) /\ Cardinality(T) = n}
<1> SUFFICES ASSUME Wrong(S) PROVE FALSE
  OBVIOUS
<1>1. Cardinality(S) \in Sizes
  BY SizableSubset
<1>2. PICK n \in Sizes : \A k \in Sizes : n <= k
  BY <1>1, LeastNumber
<1>3. PICK T \in SUBSET S : Wrong(T) /\ Cardinality(T) = n
  BY <1>2
<1>4. Sizable(f, T) /\ Sizable(g, T)
  BY SizableSubset
<1>5. T # {}
  <2>1. T = {} => SumFunctionOnSet(f, T) = 0 /\ SumFunctionOnSet(g, T) = 0
    BY <1>4, SumUnroll
  <2> QED
    BY <1>3, <2>1
<1> DEFINE x == Picked(T)
           U == T \ {x}
<1>6. /\ x \in T /\ f[x] \in Nat /\ g[x] \in Nat /\ Sizable(f, U) /\ Sizable(g, U)
      /\ Cardinality(U) = n - 1 /\ n \in Nat \ {0}
  BY <1>3, <1>4, <1>5, PickedIn
<1>7. /\ SumFunctionOnSet(f, T) = f[x] + SumFunctionOnSet(f, U)
      /\ SumFunctionOnSet(g, T) = g[x] + SumFunctionOnSet(g, U)
  BY <1>4, <1>5, SumUnroll
<1>8. SumFunctionOnSet(f, U) \in Nat /\ SumFunctionOnSet(g, U) \in Nat
  BY <1>6, SumUnroll
<1> HIDE DEF x
<1>9. U \in SUBSET S /\ Cardinality(U) \in Nat
  BY <1>6
<1>10. ~ Wrong(U)
  <2>1. \A k \in Sizes : k # n - 1
    BY <1>2, <1>6
  <2> HIDE DEF U
  <2> QED
    BY <1>6, <1>9, <2>1
<1> HIDE DEF U
<1>11. f[x] <= g[x]
  BY <1>6
<1> QED
  BY <1>3, <1>6, <1>7, <1>8, <1>10, <1>11

LEMMA SumOfOne ==
  ASSUME NEW f, NEW x, f[x] \in Nat
  PROVE  SumFunctionOnSet(f, {x}) = f[x]
<1>1. Sizable(f, {x}) /\ Sizable(f, {}) /\ Picked({x}) = x /\ {x} \ {Picked({x})} = {}
  BY FS_Singleton, FS_EmptySet DEF Sizable, Picked
<1>2. SumFunctionOnSet(f, {x}) = f[Picked({x})] + SumFunctionOnSet(f, {x} \ {Picked({x})})
  BY <1>1, SumUnroll
<1>3. SumFunctionOnSet(f, {}) = 0
  BY <1>1, SumUnroll
<1> QED
  BY <1>1, <1>2, <1>3

-----------------------------------------------------------------------------
(* The greatest number of a finite set is the last in order.                 *)
LEMMA GreatestNumber ==
  ASSUME NEW T \in SUBSET Nat, T # {}, IsFiniteSet(T)
  PROVE  Max(T) \in T /\ \A k \in T : Max(T) >= k
<1> DEFINE R == {p \in T \X T : p[1] < p[2]}
           s == InOrder(T, R)
           N == Cardinality(T)
<1>1. \A m, n \in T : <<m, n>> \in R <=> m < n
  OBVIOUS
<1>2. Orders(R, T)
  <2>1. \A n \in T : n \in Nat
    OBVIOUS
  <2> HIDE DEF R
  <2> QED
    BY <1>1, <2>1 DEF Orders
<1> HIDE DEF R
<1>3. /\ N \in Nat /\ s \in [1..N -> T]
      /\ \A x \in T : \E n \in 1..N : s[n] = x
      /\ \A m, n \in 1..N : <<s[m], s[n]>> \in R <=> m < n
  BY <1>2, InOrderIs
<1> HIDE DEF s, N
<1>4. N \in 1..N
  <2>1. PICK x \in T : TRUE
    OBVIOUS
  <2>2. PICK n \in 1..N : s[n] = x
    BY <1>3
  <2> QED
    BY <1>3
<1>5. ASSUME NEW x \in T PROVE s[N] >= x
  <2>1. PICK n \in 1..N : s[n] = x
    BY <1>3
  <2>2. n = N \/ n < N
    BY <1>3
  <2>3. s[N] \in Nat /\ x \in Nat
    BY <1>3, <1>4
  <2>4. n < N => x < s[N]
    BY <1>1, <1>3, <1>4, <2>1
  <2> QED
    BY <2>1, <2>2, <2>3, <2>4
<1>6. s[N] \in T
  BY <1>3, <1>4
<1> QED
  BY <1>5, <1>6 DEF Max

-----------------------------------------------------------------------------
(* The index.                                                                *)

RowType == [id : Nat \ {0}, item : Items, index : Nat]

IndexInv ==
  /\ IsTable(rows) /\ IsFiniteSet(owners)
  /\ \A row \in rows : <<row.id, row.item>> \in owners

LEMMA TableParts ==
  ASSUME NEW S, IsTable(S)
  PROVE  /\ IsFiniteSet(S) /\ S \subseteq RowType
         /\ \A q, r \in S : q.id = r.id \/ (q.item = r.item /\ q.index = r.index) => q = r
<1>1. \A q, r \in S : q.item = r.item /\ q.index = r.index => Content(q) = Content(r)
  BY DEF Content
<1> QED
  BY <1>1 DEF IsTable, RowType

LEMMA SmallerTable ==
  ASSUME NEW S, IsTable(S), NEW T \in SUBSET S
  PROVE  IsTable(T)
  BY FS_Subset DEF IsTable

(* New rows come behind those in use.                                        *)
LEMMA NewRows ==
  ASSUME HybridSearchAssumption, NEW S, IsTable(S), NEW i \in Items, \A row \in S : row.item # i
  PROVE  LET new == RowsFrom(Max({0} \cup {row.id : row \in S}), i)
         IN  IsTable(S \cup new) /\ IsFiniteSet(new) /\ \A row \in new : row.item = i
<1> DEFINE ids == {row.id : row \in S}
           last == Max({0} \cup ids)
           new == RowsFrom(last, i)
<1>1. IsFiniteSet(S) /\ S \subseteq RowType
  BY TableParts
<1>2. IsFiniteSet(ids)
  <2> DEFINE f == [row \in S |-> row.id]
  <2>1. f \in Surjection(S, ids)
    BY DEF Surjection
  <2> QED
    BY <1>1, <2>1, FS_Surjection
<1>3. IsFiniteSet({0} \cup ids) /\ {0} \cup ids \in SUBSET Nat
  <2>1. IsFiniteSet({0})
    BY FS_Singleton
  <2>2. ids \in SUBSET Nat
    BY <1>1 DEF RowType
  <2> HIDE DEF ids
  <2> QED
    <3>1. IsFiniteSet({0} \cup ids)
      BY <1>2, <2>1, FS_Union
    <3> QED
      BY <2>2, <3>1
<1>4. last \in Nat /\ \A row \in S : row.id <= last
  <2>1. last \in {0} \cup ids /\ \A k \in {0} \cup ids : last >= k
    BY <1>3, GreatestNumber
  <2>2. \A row \in S : row.id \in {0} \cup ids /\ row.id \in Nat
    BY <1>1 DEF RowType
  <2> HIDE DEF ids, last
  <2> QED
    BY <1>3, <2>1, <2>2
<1> HIDE DEF last
<1>5. Length[i] \in Nat
  BY DEF HybridSearchAssumption
<1>6. IsFiniteSet(new)
  <2> DEFINE f == [n \in 1..Length[i] |-> [id |-> last + n, item |-> i, index |-> n]]
  <2>1. f \in Surjection(1..Length[i], new)
    BY DEF Surjection, RowsFrom
  <2>2. IsFiniteSet(1..Length[i])
    <3>1. PICK n \in Nat : n = Length[i]
      BY <1>5
    <3>2. IsFiniteSet(1..n)
      BY <3>1, FS_Interval
    <3> QED
      BY <3>1, <3>2
  <2> QED
    BY <2>1, <2>2, FS_Surjection
<1>7. \A row \in new : \E n \in 1..Length[i] : row = [id |-> last + n, item |-> i, index |-> n]
  BY DEF RowsFrom
<1>8. \A row \in new : /\ row \in RowType /\ row.item = i /\ row.id > last
                       /\ row.id = last + row.index
  BY <1>4, <1>5, <1>7 DEF RowType
<1> HIDE DEF new
<1>9. IsFiniteSet(S \cup new)
  BY <1>1, <1>6, FS_Union
<1>10. S \cup new \subseteq RowType
  BY <1>1, <1>8
<1>11. ASSUME NEW q \in S \cup new, NEW r \in S \cup new, q.id = r.id \/ Content(q) = Content(r)
       PROVE  q = r
  <2>0. q \in RowType /\ r \in RowType
    BY <1>10
  <2>1. q.id = r.id \/ (q.item = r.item /\ q.index = r.index)
    BY <1>11 DEF Content
  <2>2. CASE q \in S /\ r \in S
    BY <2>1, <2>2, TableParts
  <2>3. CASE q \in new /\ r \in new
    <3>1. q.id = last + q.index /\ r.id = last + r.index /\ q.item = r.item
      BY <1>8, <2>3
    <3>2. q.index = r.index
      <4>1. q.index \in Nat /\ r.index \in Nat
        BY <2>0 DEF RowType
      <4>2. \A j, k, l \in Nat : l + j = l + k => j = k
        OBVIOUS
      <4>3. last + q.index = last + r.index
        BY <2>1, <3>1
      <4> QED
        BY <1>4, <4>1, <4>2, <4>3, Zenon
    <3> QED
      BY <2>0, <3>1, <3>2 DEF RowType
  <2>4. ASSUME NEW a \in S, NEW b \in new PROVE a.id # b.id /\ a.item # b.item
    <3>1. a.id <= last /\ b.id > last /\ a.id \in Nat /\ b.id \in Nat
      BY <1>1, <1>4, <1>8 DEF RowType
    <3> QED
      BY <1>4, <1>8, <3>1
  <2> QED
    BY <2>1, <2>2, <2>3, <2>4
<1>12. IsTable(S \cup new)
  BY <1>9, <1>10, <1>11 DEF IsTable, RowType
<1> QED
  BY <1>6, <1>8, <1>12 DEF new, last

(* Whatever happens to the index, its table stays one, and every row has its *)
(* owner.                                                                    *)
LEMMA IndexKept ==
  ASSUME HybridSearchAssumption, IndexInv, IndexStep
  PROVE  IndexInv' /\ owners \subseteq owners' /\ UNCHANGED searchVars
<1>1. CASE rows' \subseteq rows /\ UNCHANGED <<owners, searchVars>>
  <2>1. IsTable(rows')
    BY <1>1, SmallerTable DEF IndexInv
  <2> QED
    BY <1>1, <2>1 DEF IndexInv, IsTable
<1>2. ASSUME NEW i \in Items, RowsReplaced(i)
      PROVE  IndexInv' /\ owners \subseteq owners' /\ UNCHANGED searchVars
  <2> DEFINE staying == rows \ RowsOf(i)
             new    == RowsFrom(Max({0} \cup {row.id : row \in staying}), i)
             named  == {<<row.id, i>> : row \in new}
  <2>1. rows' = staying \cup new /\ owners' = owners \cup named /\ UNCHANGED searchVars
    BY <1>2 DEF RowsReplaced, Change
  <2>2. IsTable(staying) /\ \A row \in staying : row.item # i
    BY SmallerTable DEF IndexInv, RowsOf
  <2>3. IsTable(staying \cup new) /\ IsFiniteSet(new) /\ \A row \in new : row.item = i
    <3> HIDE DEF staying
    <3> QED
      BY <2>2, NewRows
  <2> HIDE DEF new
  <2>4. IsFiniteSet(named)
    <3> DEFINE f == [row \in new |-> <<row.id, i>>]
    <3>1. f \in Surjection(new, named)
      BY DEF Surjection
    <3> QED
      BY <2>3, <3>1, FS_Surjection
  <2>5. \A row \in new : <<row.id, row.item>> \in named
    BY <2>3
  <2> HIDE DEF named
  <2>6. \A row \in staying \cup new : <<row.id, row.item>> \in owners \cup named
    BY <2>5 DEF IndexInv
  <2>7. IsFiniteSet(owners \cup named)
    BY <2>4, FS_Union DEF IndexInv
  <2> HIDE DEF staying
  <2>8. IsTable(rows')
    BY <2>1, <2>3
  <2> QED
    BY <2>1, <2>6, <2>7, <2>8 DEF IndexInv, IsTable
<1>3. ASSUME NEW i \in Items, TextChanges(i) \/ Claimed(i) \/ OldVectorsGo(i) \/ NewVectorsStored(i)
                              \/ IndexingCompletes(i) \/ DeletedVectors(i) \/ DeletedRow(i)
      PROVE  rows' \subseteq rows /\ UNCHANGED <<owners, searchVars>>
  BY <1>3 DEF TextChanges, Claimed, OldVectorsGo, NewVectorsStored, IndexingCompletes,
              DeletedVectors, DeletedRow, Change
<1>4. ASSUME NEW s \in ToSet(SourceList), Hide(s)
      PROVE  rows' \subseteq rows /\ UNCHANGED <<owners, searchVars>>
  BY <1>4 DEF Hide
<1> QED
  BY <1>1, <1>2, <1>3, <1>4 DEF IndexStep

-----------------------------------------------------------------------------
(* What the queries answer.                                                  *)

(* A row id that an item of the scope has or had.                            *)
Owned(id) == \E i \in scope : <<id, i>> \in owners

FtsAnswer(s) ==
  /\ s \in Seq(Nat \ {0}) /\ IsInjective(s)
  /\ \A n \in DOMAIN s : Owned(s[n])
VectorAnswer(s, source) ==
  /\ s \in Seq(Contents) /\ IsInjective(s)
  /\ \A n \in DOMAIN s : s[n][1] \in scope /\ SourceOf[s[n][1]] = source

(* A list of a retriever: no id twice, but for the -1 of vanished chunks.    *)
RankedList(s) ==
  /\ s \in Seq(Nat)
  /\ \A m, n \in DOMAIN s : s[m] = s[n] /\ s[m] # 0 => m = n
  /\ \A n \in DOMAIN s : s[n] # 0 => Owned(s[n])

LEMMA RowOfIs ==
  ASSUME IndexInv, NEW c, Has(c)
  PROVE  /\ RowOf(c) \in rows /\ Content(RowOf(c)) = c /\ RowOf(c).item = c[1]
         /\ RowOf(c).id \in Nat \ {0} /\ <<RowOf(c).id, c[1]>> \in owners
<1>1. RowOf(c) \in rows /\ Content(RowOf(c)) = c
  BY Zenon DEF Has, RowOf
<1>2. RowOf(c).item = c[1]
  BY <1>1 DEF Content
<1>3. RowOf(c).id \in Nat \ {0}
  BY <1>1, TableParts DEF IndexInv, RowType
<1>4. <<RowOf(c).id, RowOf(c).item>> \in owners
  BY <1>1 DEF IndexInv
<1> QED
  BY <1>1, <1>2, <1>3, <1>4

LEMMA OneRowPerContent ==
  ASSUME IndexInv, NEW c, NEW d, Has(c), Has(d), RowOf(c).id = RowOf(d).id
  PROVE  c = d
<1>1. RowOf(c) = RowOf(d)
  BY RowOfIs, TableParts DEF IndexInv
<1> QED
  BY <1>1, RowOfIs

(* The ids of a sequence of contents that have rows.                         *)
LEMMA IdsOfContents ==
  ASSUME IndexInv, NEW s \in Seq(Contents), IsInjective(s),
         \A n \in DOMAIN s : Has(s[n]) /\ s[n][1] \in scope
  PROVE  FtsAnswer([n \in DOMAIN s |-> RowOf(s[n]).id])
<1> DEFINE ids == [n \in DOMAIN s |-> RowOf(s[n]).id]
<1>1. PICK N \in Nat : DOMAIN s = 1..N
  OBVIOUS
<1>2. \A n \in 1..N : RowOf(s[n]).id \in Nat \ {0} /\ <<RowOf(s[n]).id, s[n][1]>> \in owners
  BY <1>1, RowOfIs
<1>3. ids \in Seq(Nat \ {0})
  <2>1. ids \in [1..N -> Nat \ {0}]
    BY <1>1, <1>2
  <2> QED
    BY <2>1
<1>4. \A n \in 1..N : Owned(RowOf(s[n]).id)
  BY <1>1, <1>2 DEF Owned
<1>5. \A m, n \in 1..N : RowOf(s[m]).id = RowOf(s[n]).id => m = n
  BY <1>1, OneRowPerContent DEF IsInjective
<1> QED
  BY <1>1, <1>3, <1>4, <1>5 DEF FtsAnswer, IsInjective

LEMMA FirstOfFts ==
  ASSUME NEW s, FtsAnswer(s), NEW n \in Nat
  PROVE  FtsAnswer(First(s, n))
<1>1. First(s, n) \in Seq(Nat \ {0}) /\ IsInjective(First(s, n))
  BY FirstTyped DEF FtsAnswer
<1>2. \A k \in 1..Len(First(s, n)) : k \in 1..Len(s) /\ First(s, n)[k] = s[k]
  BY FirstIs DEF FtsAnswer
<1>3. DOMAIN s = 1..Len(s)
  BY DEF FtsAnswer
<1>4. DOMAIN First(s, n) = 1..Len(First(s, n))
  BY <1>1
<1> QED
  BY <1>1, <1>2, <1>3, <1>4 DEF FtsAnswer

LEMMA OrdersTyped ==
  ASSUME HybridSearchAssumption, NEW r \in Retrievers \cup {"rerank"}
  PROVE  Order[r] \in Seq(Contents) /\ IsInjective(Order[r])
  BY DEF HybridSearchAssumption

LEMMA FtsAnswers ==
  ASSUME HybridSearchAssumption, IndexInv, NEW r \in Retrievers
  PROVE  FtsAnswer(FtsResult(r))
<1> DEFINE C == {Content(row) : row \in {q \in rows : q.item \in scope}}
           s == Only(Order[r], C)
<1>1. s \in Seq(Contents \cap C) /\ IsInjective(s)
  BY OrdersTyped, OnlyTyped
<1>2. \A c \in C : Has(c) /\ c[1] \in scope
  BY DEF Has, Content
<1> HIDE DEF C, s
<1>3. s \in Seq(Contents) /\ \A n \in DOMAIN s : s[n] \in C
  BY <1>1
<1>4. FtsAnswer([n \in DOMAIN s |-> RowOf(s[n]).id])
  BY <1>1, <1>2, <1>3, IdsOfContents
<1>5. FtsK \in Nat
  BY DEF HybridSearchAssumption
<1>6. FtsAnswer(First([n \in DOMAIN s |-> RowOf(s[n]).id], FtsK))
  BY <1>4, <1>5, FirstOfFts
<1> QED
  BY <1>6 DEF FtsResult, s, C

LEMMA VectorAnswers ==
  ASSUME HybridSearchAssumption, NEW r \in Retrievers, NEW source
  PROVE  VectorAnswer(VectorResult(r, source), source)
<1> DEFINE C == {c \in vectors : c[1] \in scope /\ SourceOf[c[1]] = source}
           s == Only(Order[r], C)
<1>1. s \in Seq(Contents \cap C) /\ IsInjective(s)
  BY OrdersTyped, OnlyTyped
<1>2. VectorK \in Nat
  BY DEF HybridSearchAssumption
<1>3. \A c \in C : c[1] \in scope /\ SourceOf[c[1]] = source
  OBVIOUS
<1>4. VectorResult(r, source) = First(s, VectorK)
  BY DEF VectorResult
<1> HIDE DEF C, s
<1>5. First(s, VectorK) \in Seq(Contents \cap C) /\ IsInjective(First(s, VectorK))
  BY <1>1, <1>2, FirstTyped
<1>6. /\ First(s, VectorK) \in Seq(Contents)
      /\ \A n \in DOMAIN First(s, VectorK) : First(s, VectorK)[n] \in C
  BY <1>5
<1> QED
  BY <1>3, <1>4, <1>5, <1>6 DEF VectorAnswer

LEMMA EmptyAnswers ==
  /\ FtsAnswer(<<>>) /\ RankedList(<<>>)
  /\ \A source : VectorAnswer(<<>>, source)
  BY DEF FtsAnswer, VectorAnswer, RankedList, IsInjective

-----------------------------------------------------------------------------
(* A round of queries, and the lists it makes.                               *)

AllQueries == (Fts \X {"all"}) \cup ((Retrievers \ Fts) \X ToSet(SourceList))

AnswersInv ==
  /\ DOMAIN answers \subseteq AllQueries /\ awaited \subseteq DOMAIN answers
  /\ \A q \in DOMAIN answers : IF q[1] \in Fts THEN FtsAnswer(answers[q])
                               ELSE VectorAnswer(answers[q], q[2])

ListsInv ==
  /\ lists \in [Retrievers -> Seq(Nat)]
  /\ \A r \in Retrievers : RankedList(lists[r])

LEMMA EarlierOrders ==
  ASSUME NEW S \in SUBSET (Nat \X Nat)
  PROVE  Orders({p \in S \X S : Earlier(p[1], p[2])}, S)
<1> DEFINE R == {p \in S \X S : Earlier(p[1], p[2])}
<1>1. \A e, f \in S : <<e, f>> \in R <=> Earlier(e, f)
  OBVIOUS
<1>2. \A e \in S : e = <<e[1], e[2]>> /\ e[1] \in Nat /\ e[2] \in Nat
  OBVIOUS
<1> HIDE DEF R
<1>3. \A e \in S : <<e, e>> \notin R
  BY <1>1, <1>2 DEF Earlier
<1>4. ASSUME NEW e \in S, NEW f \in S PROVE e = f \/ <<e, f>> \in R \/ <<f, e>> \in R
  <2>1. e[1] = f[1] /\ e[2] = f[2] => e = f
    BY <1>2
  <2> QED
    BY <1>1, <1>2, <2>1 DEF Earlier
<1>5. ASSUME NEW e \in S, NEW f \in S, NEW g \in S, <<e, f>> \in R, <<f, g>> \in R
      PROVE  <<e, g>> \in R
  <2>1. Earlier(e, f) /\ Earlier(f, g)
    BY <1>1, <1>5
  <2>2. Earlier(e, g)
    BY <1>2, <2>1 DEF Earlier
  <2> QED
    BY <1>1, <2>2
<1>6. Orders(R, S)
  BY <1>3, <1>4, <1>5, Zenon DEF Orders
<1> QED
  BY <1>6 DEF R

(* The vector answers of a retriever in the order of the sources: still      *)
(* contents of the scope, none twice, as every source answers its own.       *)
LEMMA FlattenedIs ==
  ASSUME HybridSearchAssumption, AnswersInv, NEW r \in Retrievers \ Fts
  PROVE  /\ Flattened(r) \in Seq(Contents) /\ IsInjective(Flattened(r))
         /\ \A n \in DOMAIN Flattened(r) : Flattened(r)[n][1] \in scope
<1> DEFINE of(n)   == <<r, SourceList[n]>>
           D       == {m \in DOMAIN SourceList : of(m) \in DOMAIN answers}
           parts   == {{n} \X DOMAIN answers[of(n)] : n \in D}
           places  == UNION parts
           R       == {p \in places \X places : Earlier(p[1], p[2])}
           ordered == InOrder(places, R)
           value(p) == answers[of(p[1])][p[2]]
           N == Cardinality(places)
<1>1. Flattened(r) = [k \in DOMAIN ordered |-> value(ordered[k])]
  BY Zenon DEF Flattened
<1>2. \A n \in D : VectorAnswer(answers[of(n)], SourceList[n]) /\ n \in Nat
  <2>1. \A n \in D : of(n) \in DOMAIN answers /\ of(n)[1] \notin Fts /\ of(n)[2] = SourceList[n]
    OBVIOUS
  <2>2. DOMAIN SourceList \subseteq Nat
    BY DEF HybridSearchAssumption
  <2> HIDE DEF of
  <2> QED
    BY <2>1, <2>2 DEF AnswersInv
<1>3. IsFiniteSet(D)
  <2>1. PICK n \in Nat : DOMAIN SourceList = 1..n
    BY DEF HybridSearchAssumption
  <2>2. IsFiniteSet(1..n)
    BY FS_Interval
  <2> QED
    BY <2>1, <2>2, FS_Subset
<1>4. \A n \in D : \E k \in Nat : DOMAIN answers[of(n)] = 1..k
  BY <1>2 DEF VectorAnswer
<1> HIDE DEF of, D
<1>5. IsFiniteSet(places)
  <2> DEFINE f == [n \in D |-> {n} \X DOMAIN answers[of(n)]]
  <2>1. f \in Surjection(D, parts)
    BY DEF Surjection
  <2>2. IsFiniteSet(parts)
    BY <1>3, <2>1, FS_Surjection
  <2>3. ASSUME NEW n \in D PROVE IsFiniteSet({n} \X DOMAIN answers[of(n)])
    <3>1. PICK k \in Nat : DOMAIN answers[of(n)] = 1..k
      BY <1>4
    <3>2. IsFiniteSet(1..k)
      BY FS_Interval
    <3>3. IsFiniteSet({n})
      BY FS_Singleton
    <3> QED
      BY <3>1, <3>2, <3>3, FS_Product
  <2>4. \A T \in parts : IsFiniteSet(T)
    BY <2>3
  <2> HIDE DEF parts
  <2> QED
    BY <2>2, <2>4, FS_UNION
<1>6. \A p \in places : p = <<p[1], p[2]>> /\ p[1] \in D /\ p[2] \in DOMAIN answers[of(p[1])]
  OBVIOUS
<1>7. places \in SUBSET (Nat \X Nat)
  <2>1. \A p \in places : p[1] \in Nat /\ p[2] \in Nat
    BY <1>2, <1>4, <1>6
  <2> HIDE DEF places
  <2> QED
    BY <1>6, <2>1
<1> HIDE DEF places
<1>8. Orders(R, places)
  BY <1>7, EarlierOrders
<1> HIDE DEF R
<1>9. /\ N \in Nat /\ ordered \in [1..N -> places]
      /\ \A m, n \in 1..N : ordered[m] = ordered[n] => m = n
  BY <1>5, <1>8, InOrderIs
<1> HIDE DEF ordered, N
<1>10. DOMAIN Flattened(r) = 1..N /\ \A k \in 1..N : Flattened(r)[k] = value(ordered[k])
  BY <1>1, <1>9
<1>11. ASSUME NEW p \in places
       PROVE  /\ value(p) \in Contents /\ value(p)[1] \in scope
              /\ SourceOf[value(p)[1]] = SourceList[p[1]]
  BY <1>2, <1>6, SMTT(30) DEF VectorAnswer
<1>12. ASSUME NEW p \in places, NEW q \in places, value(p) = value(q) PROVE p = q
  <2>1. SourceList[p[1]] = SourceList[q[1]]
    BY <1>11, <1>12
  <2>2. p[1] = q[1]
    BY <1>6, <2>1 DEF HybridSearchAssumption, IsInjective, D
  <2>3. p[2] = q[2]
    BY <1>2, <1>6, <1>12, <2>2 DEF VectorAnswer, IsInjective
  <2> QED
    BY <1>6, <2>2, <2>3
<1> HIDE DEF value
<1>13. Flattened(r) \in Seq(Contents)
  <2>1. Flattened(r) = [k \in 1..N |-> value(ordered[k])]
    BY <1>1, <1>9
  <2> QED
    BY <1>9, <1>11, <2>1
<1>14. \A n \in 1..N : Flattened(r)[n][1] \in scope
  BY <1>9, <1>10, <1>11
<1>15. \A m, n \in 1..N : Flattened(r)[m] = Flattened(r)[n] => m = n
  BY <1>9, <1>10, <1>12
<1> QED
  BY <1>10, <1>13, <1>14, <1>15 DEF IsInjective

(* Ids of the rows found when they are mapped, -1 for those that are gone.   *)
LEMMA ChunkIdsRanked ==
  ASSUME IndexInv, NEW s \in Seq(Contents), IsInjective(s), \A n \in DOMAIN s : s[n][1] \in scope
  PROVE  RankedList(ChunkIds(s))
<1>1. PICK N \in Nat : DOMAIN s = 1..N
  OBVIOUS
<1>2. \A n \in 1..N : ChunkIds(s)[n] = IF Has(s[n]) THEN RowOf(s[n]).id ELSE 0
  BY <1>1 DEF ChunkIds
<1>3. \A n \in 1..N : Has(s[n]) =>
        RowOf(s[n]).id \in Nat \ {0} /\ <<RowOf(s[n]).id, s[n][1]>> \in owners
  BY <1>1, RowOfIs
<1>4. DOMAIN ChunkIds(s) = 1..N
  BY <1>1 DEF ChunkIds
<1>5. ChunkIds(s) \in Seq(Nat)
  <2>1. ChunkIds(s) \in [1..N -> Nat]
    BY <1>1, <1>3 DEF ChunkIds
  <2> QED
    BY <2>1
<1>6. ASSUME NEW m \in 1..N, NEW n \in 1..N, ChunkIds(s)[m] = ChunkIds(s)[n], ChunkIds(s)[m] # 0
      PROVE  m = n
  <2>1. Has(s[m]) /\ Has(s[n]) /\ RowOf(s[m]).id = RowOf(s[n]).id
    BY <1>2, <1>6
  <2>2. s[m] = s[n]
    BY <2>1, OneRowPerContent
  <2> QED
    BY <1>1, <2>2 DEF IsInjective
<1>7. ASSUME NEW n \in 1..N, ChunkIds(s)[n] # 0 PROVE Owned(ChunkIds(s)[n])
  BY <1>1, <1>2, <1>3, <1>7 DEF Owned
<1> QED
  BY <1>4, <1>5, <1>6, <1>7 DEF RankedList

LEMMA FtsRanked ==
  ASSUME NEW s, FtsAnswer(s)
  PROVE  RankedList(s)
<1>1. s \in Seq(Nat)
  BY DEF FtsAnswer
<1> QED
  BY <1>1 DEF FtsAnswer, RankedList, IsInjective

-----------------------------------------------------------------------------
(* Fusion.                                                                   *)

Rounds == {RawLists, FullLists}

LEMMA RetrieversAre ==
  /\ FullLists = <<"fts_raw", "vector_raw", "fts_keywords", "vector_hyde", "vector_alternative">>
  /\ RawLists = <<"fts_raw", "vector_raw">>
  /\ Retrievers = {"fts_raw", "vector_raw", "fts_keywords", "vector_hyde", "vector_alternative"}
  /\ ToSet(RawLists) = {"fts_raw", "vector_raw"} /\ ToSet(FullLists) = Retrievers
<1>1. FullLists = <<"fts_raw", "vector_raw", "fts_keywords", "vector_hyde", "vector_alternative">>
  BY DEF FullLists
<1>2. RawLists = <<"fts_raw", "vector_raw">>
  BY DEF RawLists
<1>3. ToSet(FullLists) = {"fts_raw", "vector_raw", "fts_keywords", "vector_hyde", "vector_alternative"}
  BY <1>1 DEF ToSet
<1>4. ToSet(RawLists) = {"fts_raw", "vector_raw"}
  BY <1>2 DEF ToSet
<1> QED
  BY <1>1, <1>2, <1>3, <1>4 DEF Retrievers

LEMMA RoundsAre ==
  ASSUME NEW used \in Rounds
  PROVE  /\ IsFiniteSet(ToSet(used)) /\ ToSet(used) \subseteq Retrievers
         /\ DOMAIN used \subseteq Nat /\ \A m \in DOMAIN used : used[m] \in Retrievers
         /\ \A r \in ToSet(used) : \E m \in DOMAIN used : used[m] = r
<1>1. \A r \in ToSet(used) : \E m \in DOMAIN used : used[m] = r
  BY DEF ToSet
<1>2. ToSet(used) \subseteq Retrievers /\ DOMAIN used \subseteq Nat
  BY RetrieversAre DEF Rounds
<1>3. \A m \in DOMAIN used : used[m] \in Retrievers
  BY <1>2 DEF ToSet
<1>4. \E k \in Nat : DOMAIN used = 1..k
  <2>1. DOMAIN RawLists = 1..2 /\ DOMAIN FullLists = 1..5 /\ 2 \in Nat /\ 5 \in Nat
    BY RetrieversAre
  <2> QED
    BY <2>1 DEF Rounds
<1>5. IsFiniteSet(ToSet(used))
  <2>1. PICK k \in Nat : DOMAIN used = 1..k
    BY <1>4
  <2>2. IsFiniteSet(1..k)
    BY FS_Interval
  <2>3. used \in Surjection(1..k, ToSet(used))
    <3>1. used = [m \in 1..k |-> used[m]]
      BY <2>1, RetrieversAre DEF Rounds
    <3> QED
      BY <2>1, <3>1 DEF ToSet, Surjection
  <2> QED
    BY <2>2, <2>3, FS_Surjection
<1> QED
  BY <1>1, <1>2, <1>3, <1>5

LEMMA RanksAre ==
  ASSUME ListsInv, NEW r \in Retrievers, NEW id
  PROVE  /\ Ranks(r, id) \subseteq DOMAIN lists[r] /\ DOMAIN lists[r] = 1..Len(lists[r])
         /\ Ranks(r, id) \subseteq Nat \ {0} /\ IsFiniteSet(Ranks(r, id))
         /\ \A n \in Ranks(r, id) : lists[r][n] = id
         /\ id # 0 => \A m, n \in Ranks(r, id) : m = n
<1>1. PICK N \in Nat : DOMAIN lists[r] = 1..N /\ N = Len(lists[r])
  BY DEF ListsInv
<1>2. Ranks(r, id) \subseteq 1..N /\ \A n \in Ranks(r, id) : lists[r][n] = id
  BY <1>1 DEF Ranks
<1>3. IsFiniteSet(1..N)
  BY FS_Interval
<1>4. IsFiniteSet(Ranks(r, id))
  BY <1>2, <1>3, FS_Subset
<1>5. id # 0 => \A m, n \in Ranks(r, id) : m = n
  BY <1>1, <1>2 DEF ListsInv, RankedList
<1> QED
  BY <1>1, <1>2, <1>4, <1>5

LEMMA WeightsAre ==
  ASSUME NEW r \in Retrievers
  PROVE  Weight(r) \in Nat
  BY RetrieversAre DEF Weight

(* A share falls with the rank.                                              *)
LEMMA DivFalls ==
  ASSUME NEW j \in Nat, NEW k \in Nat, NEW l \in Nat, 0 < k, k <= l
  PROVE  j \div k \in Nat /\ j \div l \in Nat /\ j \div l <= j \div k
<1>1. ASSUME NEW d \in Nat, 0 < d
      PROVE  j \div d \in Nat /\ (j \div d) * d <= j /\ j < (j \div d) * d + d
  BY <1>1
<1>2. PICK p \in Nat : p = j \div k
  BY <1>1
<1>3. PICK q \in Nat : q = j \div l
  BY <1>1
<1>4. q * l <= j /\ j < p * k + k
  BY <1>1, <1>2, <1>3
<1>5. ASSUME p + 1 <= q PROVE FALSE
  <2>1. (p + 1) * k <= q * k /\ q * k <= q * l
    BY <1>5
  <2>2. (p + 1) * k = p * k + k /\ p * k \in Nat /\ q * k \in Nat /\ q * l \in Nat
    OBVIOUS
  <2> QED
    BY <1>4, <2>1, <2>2
<1> QED
  BY <1>2, <1>3, <1>5

Part(r) == [n \in DOMAIN lists[r] |-> Weight(r) * (Unit \div (RrfK + n))]

LEMMA PartsAre ==
  ASSUME HybridSearchAssumption, ListsInv, NEW r \in Retrievers, NEW n \in DOMAIN lists[r]
  PROVE  /\ Part(r)[n] \in Nat
         /\ \A m \in DOMAIN lists[r] : n <= m => Part(r)[m] <= Part(r)[n]
<1>1. n \in Nat \ {0} /\ \A m \in DOMAIN lists[r] : m \in Nat \ {0}
  <2>1. DOMAIN lists[r] = 1..Len(lists[r]) /\ Len(lists[r]) \in Nat
    BY DEF ListsInv
  <2> QED
    BY <2>1
<1>2. Unit \in Nat /\ RrfK \in Nat
  BY DEF HybridSearchAssumption
<1>3. ASSUME NEW m \in DOMAIN lists[r], n <= m
      PROVE  /\ Unit \div (RrfK + n) \in Nat /\ Unit \div (RrfK + m) \in Nat
             /\ Unit \div (RrfK + m) <= Unit \div (RrfK + n)
  <2>0. m \in Nat /\ n \in Nat /\ 0 < n
    BY <1>1
  <2>1. RrfK + m \in Nat /\ RrfK + n \in Nat /\ 0 < RrfK + n /\ RrfK + n <= RrfK + m
    BY <1>2, <1>3, <2>0, SMTT(30)
  <2> QED
    BY <1>2, <2>1, DivFalls
<1>4. \A j, k \in Nat : Weight(r) * j \in Nat /\ (j <= k => Weight(r) * j <= Weight(r) * k)
  <2>1. Weight(r) \in {10, 9, 8, 7}
    BY RetrieversAre DEF Weight
  <2> QED
    BY <2>1, SMTT(30)
<1>5. n <= n
  BY <1>1
<1> QED
  BY <1>3, <1>4, <1>5 DEF Part

LEMMA SharesAre ==
  ASSUME HybridSearchAssumption, ListsInv, NEW r \in Retrievers, NEW id
  PROVE  /\ Share(r, id) \in Nat
         /\ Ranks(r, id) = {} => Share(r, id) = 0
         /\ id # 0 => \A n \in Ranks(r, id) : Share(r, id) = Part(r)[n]
<1>1. Share(r, id) = SumFunctionOnSet(Part(r), Ranks(r, id))
  BY Zenon DEF Share, Part
<1>2. Sizable(Part(r), Ranks(r, id))
  BY RanksAre, PartsAre DEF Sizable
<1>3. Share(r, id) \in Nat /\ (Ranks(r, id) = {} => Share(r, id) = 0)
  BY <1>1, <1>2, SumUnroll
<1>4. ASSUME id # 0, NEW n \in Ranks(r, id) PROVE Share(r, id) = Part(r)[n]
  <2>1. Ranks(r, id) = {n}
    BY <1>4, RanksAre
  <2>2. Part(r)[n] \in Nat
    BY <1>2 DEF Sizable
  <2> QED
    BY <1>1, <2>1, <2>2, SumOfOne
<1> QED
  BY <1>3, <1>4

LEMMA ScoresAre ==
  ASSUME HybridSearchAssumption, ListsInv, NEW used \in Rounds, NEW id
  PROVE  /\ Score(used, id) = SumFunctionOnSet([r \in Retrievers |-> Share(r, id)], ToSet(used))
         /\ Sizable([r \in Retrievers |-> Share(r, id)], ToSet(used))
         /\ Score(used, id) \in Nat
<1> DEFINE f == [r \in Retrievers |-> Share(r, id)]
<1>1. Sizable(f, ToSet(used))
  <2>1. \A r \in Retrievers : f[r] \in Nat
    BY SharesAre
  <2> QED
    BY <2>1, RoundsAre DEF Sizable
<1>2. Score(used, id) = SumFunctionOnSet(f, ToSet(used))
  BY DEF Score
<1> HIDE DEF f
<1>3. Score(used, id) \in Nat
  BY <1>1, <1>2, SumUnroll
<1> QED
  BY <1>1, <1>2, <1>3 DEF f

LEMMA CandidatesAre ==
  ASSUME ListsInv, NEW used \in Rounds
  PROVE  /\ IsFiniteSet(Candidates(used)) /\ Candidates(used) \subseteq Nat \ {0}
         /\ \A id \in Candidates(used) : Owned(id)
         /\ \A id \in Candidates(used) : \E m \in DOMAIN used : Ranks(used[m], id) # {}
         /\ \A r \in ToSet(used) : \A id : id # 0 /\ Ranks(r, id) # {} => id \in Candidates(used)
<1> DEFINE parts == {ToSet(lists[r]) : r \in ToSet(used)}
<1>1. IsFiniteSet(UNION parts)
  <2> DEFINE f == [r \in ToSet(used) |-> ToSet(lists[r])]
  <2>1. f \in Surjection(ToSet(used), parts)
    BY DEF Surjection
  <2>2. IsFiniteSet(parts)
    BY <2>1, RoundsAre, FS_Surjection
  <2>3. ASSUME NEW r \in ToSet(used) PROVE IsFiniteSet(ToSet(lists[r]))
    <3>1. lists[r] \in Seq(Nat)
      BY RoundsAre DEF ListsInv
    <3>2. PICK N \in Nat : DOMAIN lists[r] = 1..N
      BY <3>1
    <3>3. lists[r] = [n \in 1..N |-> lists[r][n]]
      BY <3>1, <3>2
    <3>4. lists[r] \in Surjection(1..N, ToSet(lists[r]))
      BY <3>2, <3>3 DEF ToSet, Surjection
    <3>5. IsFiniteSet(1..N)
      BY FS_Interval
    <3> QED
      BY <3>4, <3>5, FS_Surjection
  <2>4. \A T \in parts : IsFiniteSet(T)
    BY <2>3
  <2> HIDE DEF parts
  <2> QED
    BY <2>2, <2>4, FS_UNION
<1>2. Candidates(used) = (UNION parts) \ {0}
  BY Zenon DEF Candidates
<1>3. IsFiniteSet(Candidates(used))
  BY <1>1, <1>2, FS_Subset
<1>4. ASSUME NEW id \in Candidates(used)
      PROVE  /\ id \in Nat \ {0} /\ Owned(id)
             /\ \E m \in DOMAIN used : Ranks(used[m], id) # {}
  <2>1. PICK r \in ToSet(used) : id \in ToSet(lists[r]) /\ id # 0
    BY <1>2, <1>4
  <2>2. PICK n \in DOMAIN lists[r] : lists[r][n] = id
    BY <2>1 DEF ToSet
  <2>3. r \in Retrievers /\ \E m \in DOMAIN used : used[m] = r
    BY RoundsAre
  <2>4. lists[r][n] \in Nat /\ Owned(lists[r][n])
    BY <2>1, <2>2, <2>3 DEF ListsInv, RankedList
  <2>5. n \in Ranks(r, id)
    BY <2>2 DEF Ranks
  <2> QED
    BY <2>1, <2>2, <2>3, <2>4, <2>5
<1>5. ASSUME NEW r \in ToSet(used), NEW id, id # 0, Ranks(r, id) # {}
      PROVE  id \in Candidates(used)
  <2>1. PICK n \in DOMAIN lists[r] : lists[r][n] = id
    BY <1>5 DEF Ranks
  <2>2. id \in ToSet(lists[r])
    BY <2>1 DEF ToSet
  <2> QED
    BY <1>2, <1>5, <2>2
<1> QED
  BY <1>3, <1>4, <1>5

LEMMA LeastOf ==
  ASSUME NEW T \in SUBSET Nat, T # {}
  PROVE  Min(T) \in T /\ \A k \in T : Min(T) <= k
  BY LeastNumber DEF Min

(* Every candidate enters the dictionary of scores at a place of its own.    *)
LEMMA EntriesAre ==
  ASSUME ListsInv, NEW used \in Rounds, NEW a \in Candidates(used)
  PROVE  /\ Entry(used, a) \in Nat \X Nat
         /\ Entry(used, a)[1] \in DOMAIN used
         /\ Entry(used, a)[2] \in Ranks(used[Entry(used, a)[1]], a)
         /\ \A m \in DOMAIN used : Ranks(used[m], a) # {} => Entry(used, a)[1] <= m
<1> DEFINE where == {m \in DOMAIN used : Ranks(used[m], a) # {}}
           n == Min(where)
           k == Min(Ranks(used[n], a))
<1>1. where \in SUBSET Nat /\ where # {}
  BY CandidatesAre, RoundsAre
<1>2. n \in where /\ \A m \in where : n <= m
  <2> HIDE DEF where
  <2> QED
    BY <1>1, LeastOf
<1>3. Ranks(used[n], a) \in SUBSET Nat /\ Ranks(used[n], a) # {} /\ n \in DOMAIN used
  <2>1. n \in DOMAIN used /\ Ranks(used[n], a) # {}
    BY <1>2
  <2>2. used[n] \in Retrievers
    BY <2>1, RoundsAre
  <2> HIDE DEF n
  <2> QED
    BY <2>1, <2>2, RanksAre
<1>4. Entry(used, a) = <<n, k>>
  BY Zenon DEF Entry
<1>5. k \in Ranks(used[n], a)
  <2> HIDE DEF n
  <2> QED
    BY <1>3, LeastOf
<1>6. n \in Nat /\ k \in Nat
  BY <1>1, <1>2, <1>3, <1>5
<1>7. \A m \in DOMAIN used : Ranks(used[m], a) # {} => n <= m
  BY <1>2
<1> HIDE DEF n, k
<1> QED
  BY <1>3, <1>4, <1>5, <1>6, <1>7

LEMMA PreferredOrders ==
  ASSUME HybridSearchAssumption, ListsInv, NEW used \in Rounds
  PROVE  /\ Orders(Preferred(used), Candidates(used))
         /\ \A a, b \in Candidates(used) : <<a, b>> \in Preferred(used) <=>
              \/ Score(used, a) > Score(used, b)
              \/ Score(used, a) = Score(used, b) /\ Earlier(Entry(used, a), Entry(used, b))
<1> DEFINE S == Candidates(used)
           R == Preferred(used)
           first(a, b) == Earlier(Entry(used, a), Entry(used, b))
<1>1. \A a, b \in S : <<a, b>> \in R <=>
        Score(used, a) > Score(used, b) \/ (Score(used, a) = Score(used, b) /\ first(a, b))
  BY DEF Preferred
<1>2. \A a \in S : Score(used, a) \in Nat
  BY ScoresAre
<1>3. \A a \in S : Entry(used, a) \in Nat \X Nat
  BY EntriesAre
<1>4. ASSUME NEW a \in S, NEW b \in S, Entry(used, a) = Entry(used, b) PROVE a = b
  <2>1. PICK n \in DOMAIN used : n = Entry(used, a)[1]
    BY EntriesAre
  <2>2. PICK k : k \in Ranks(used[n], a) /\ k \in Ranks(used[n], b)
    BY <1>4, <2>1, EntriesAre
  <2>3. used[n] \in Retrievers
    BY RoundsAre
  <2> QED
    BY <2>2, <2>3, RanksAre
<1>5. \A a \in S : ~ first(a, a)
  BY <1>3 DEF Earlier
<1>6. ASSUME NEW a \in S, NEW b \in S PROVE a = b \/ first(a, b) \/ first(b, a)
  <2>1. PICK e \in Nat \X Nat : e = Entry(used, a)
    BY <1>3
  <2>2. PICK f \in Nat \X Nat : f = Entry(used, b)
    BY <1>3
  <2>3. e = f \/ Earlier(e, f) \/ Earlier(f, e)
    <3>1. e = <<e[1], e[2]>> /\ f = <<f[1], f[2]>>
      OBVIOUS
    <3>2. e[1] \in Nat /\ e[2] \in Nat /\ f[1] \in Nat /\ f[2] \in Nat
      OBVIOUS
    <3>3. e[1] = f[1] /\ e[2] = f[2] => e = f
      BY <3>1, Zenon
    <3> QED
      BY <3>2, <3>3 DEF Earlier
  <2> QED
    BY <1>4, <2>1, <2>2, <2>3
<1>7. ASSUME NEW a \in S, NEW b \in S, NEW c \in S, first(a, b), first(b, c) PROVE first(a, c)
  <2>1. ASSUME NEW e \in Nat \X Nat, NEW f \in Nat \X Nat, NEW g \in Nat \X Nat,
               Earlier(e, f), Earlier(f, g)
        PROVE  Earlier(e, g)
    BY <2>1 DEF Earlier
  <2> QED
    BY <1>3, <1>7, <2>1
<1> HIDE DEF first, R, S
<1>8. ASSUME NEW a \in S, <<a, a>> \in R PROVE FALSE
  <2>1. PICK k \in Nat : k = Score(used, a)
    BY <1>2
  <2>2. ~ (k > k)
    OBVIOUS
  <2>3. k > k \/ first(a, a)
    BY <1>1, <1>8, <2>1
  <2>4. ~ first(a, a)
    BY <1>5
  <2> QED
    BY <2>2, <2>3, <2>4
<1>9. ASSUME NEW a \in S, NEW b \in S PROVE a = b \/ <<a, b>> \in R \/ <<b, a>> \in R
  <2>1. PICK j \in Nat : j = Score(used, a)
    BY <1>2
  <2>2. PICK k \in Nat : k = Score(used, b)
    BY <1>2
  <2>3. (j > k => <<a, b>> \in R) /\ (k > j => <<b, a>> \in R)
    BY <1>1, <2>1, <2>2
  <2>4. j = k => a = b \/ <<a, b>> \in R \/ <<b, a>> \in R
    BY <1>1, <1>6, <2>1, <2>2
  <2> QED
    BY <2>3, <2>4
<1>10. ASSUME NEW a \in S, NEW b \in S, NEW c \in S, <<a, b>> \in R, <<b, c>> \in R
       PROVE  <<a, c>> \in R
  BY <1>1, <1>2, <1>7, <1>10
<1>11. Orders(R, S)
  BY <1>8, <1>9, <1>10, Zenon DEF Orders
<1> QED
  BY <1>1, <1>11 DEF R, S, first

(* The fused list: candidates without repetition, in the order of the sort.  *)
LEMMA FusedIs ==
  ASSUME HybridSearchAssumption, ListsInv, NEW used \in Rounds
  PROVE  /\ Fused(used) \in Seq(Nat) /\ IsInjective(Fused(used))
         /\ \A n \in DOMAIN Fused(used) : Fused(used)[n] \in Candidates(used) /\ Owned(Fused(used)[n])
         /\ \A m, n \in DOMAIN Fused(used) :
              <<Fused(used)[m], Fused(used)[n]>> \in Preferred(used) <=> m < n
<1> DEFINE S == Candidates(used)
           R == Preferred(used)
           s == InOrder(S, R)
           k == Max({RerankK, TopK})
           N == Cardinality(S)
<1>1. /\ N \in Nat /\ s \in [1..N -> S]
      /\ \A m, n \in 1..N : <<s[m], s[n]>> \in R <=> m < n
      /\ \A m, n \in 1..N : s[m] = s[n] => m = n
  BY CandidatesAre, PreferredOrders, InOrderIs
<1>2. k \in Nat
  <2>1. {RerankK, TopK} \in SUBSET Nat /\ {RerankK, TopK} # {}
    BY DEF HybridSearchAssumption
  <2>2. IsFiniteSet({RerankK, TopK})
    <3>1. IsFiniteSet({RerankK}) /\ IsFiniteSet({TopK})
      BY FS_Singleton
    <3>2. IsFiniteSet({RerankK} \cup {TopK})
      BY <3>1, FS_Union
    <3>3. {RerankK, TopK} = {RerankK} \cup {TopK}
      OBVIOUS
    <3> QED
      BY <3>2, <3>3
  <2> QED
    BY <2>1, <2>2, GreatestNumber
<1>3. Fused(used) = First(s, k)
  BY DEF Fused
<1> HIDE DEF k, s, N, R
<1>4. s \in Seq(S) /\ Len(s) = N /\ IsInjective(s)
  BY <1>1 DEF IsInjective
<1>5. /\ First(s, k) \in Seq(S) /\ IsInjective(First(s, k))
      /\ \A n \in 1..Len(First(s, k)) : n \in 1..Len(s) /\ First(s, k)[n] = s[n]
  BY <1>2, <1>4, FirstTyped, FirstIs
<1>6. DOMAIN First(s, k) = 1..Len(First(s, k))
  BY <1>5
<1>7. \A m, n \in DOMAIN First(s, k) : <<First(s, k)[m], First(s, k)[n]>> \in R <=> m < n
  BY <1>1, <1>4, <1>5, <1>6
<1>8. \A n \in DOMAIN First(s, k) : First(s, k)[n] \in S /\ Owned(First(s, k)[n])
  BY <1>5, <1>6, CandidatesAre
<1>9. First(s, k) \in Seq(Nat)
  BY <1>5, CandidatesAre
<1> QED
  BY <1>3, <1>5, <1>7, <1>8, <1>9 DEF R, S

-----------------------------------------------------------------------------
(* What is fetched, and what of it is returned.                              *)

(* Rows found under ids of the scope, each once.                             *)
FoundRows(h) ==
  /\ h \in Seq(rows)
  /\ \A m, n \in DOMAIN h : h[m].id = h[n].id => m = n
  /\ \A n \in DOMAIN h : Owned(h[n].id)

(* Rows that follow the order of a sequence.                                 *)
Follows(h, s, key(_), at) ==
  /\ at \in [DOMAIN h -> DOMAIN s]
  /\ \A n \in DOMAIN h : key(h[n]) = s[at[n]]
  /\ \A j, k \in DOMAIN h : at[j] < at[k] <=> j < k

RowId(row) == row.id

LEMMA RowsWithAre ==
  ASSUME IndexInv, NEW ids \in Seq(Nat), IsInjective(ids), \A n \in DOMAIN ids : Owned(ids[n])
  PROVE  /\ FoundRows(RowsWith(ids))
         /\ \E at : Follows(RowsWith(ids), ids, RowId, at)
<1> DEFINE S == {row.id : row \in rows}
           named(id) == CHOOSE row \in rows : row.id = id
           found == Only(ids, S)
           h == RowsWith(ids)
<1>1. PICK N \in Nat : \E at : Picks(ids, S, N, at)
  BY OnlyIs
<1>2. PICK at : Picks(ids, S, N, at)
  BY <1>1
<1>3. \A id \in S : named(id) \in rows /\ named(id).id = id
  BY Zenon
<1>4. h = [n \in DOMAIN found |-> named(found[n])]
  BY Zenon DEF RowsWith
<1> HIDE DEF S, h, named
<1>5. at \in [1..N -> 1..Len(ids)] /\ found = [k \in 1..N |-> ids[at[k]]]
  BY <1>2 DEF Picks
<1>6. \A k \in 1..N : ids[at[k]] \in S
  BY <1>2 DEF Picks
<1>7. \A j, k \in 1..N : at[j] < at[k] <=> j < k
  BY <1>2 DEF Picks
<1> HIDE DEF found
<1>8. h = [k \in 1..N |-> named(ids[at[k]])]
  BY <1>4, <1>5
<1>9. h \in Seq(rows) /\ DOMAIN h = 1..N
  <2>1. h \in [1..N -> rows]
    BY <1>3, <1>6, <1>8
  <2> QED
    BY <2>1
<1>10. \A k \in 1..N : h[k].id = ids[at[k]]
  BY <1>3, <1>6, <1>8
<1>11. DOMAIN ids = 1..Len(ids)
  OBVIOUS
<1>12. ASSUME NEW m \in 1..N, NEW n \in 1..N, h[m].id = h[n].id PROVE m = n
  <2>1. at[m] = at[n]
    BY <1>5, <1>10, <1>11, <1>12 DEF IsInjective
  <2>2. at[m] \in Nat /\ at[n] \in Nat
    BY <1>5
  <2>3. ~ (m < n) /\ ~ (n < m)
    BY <1>7, <2>1, <2>2
  <2> QED
    BY <2>3
<1>13. \A n \in 1..N : Owned(h[n].id)
  BY <1>5, <1>10, <1>11
<1>14. FoundRows(h)
  BY <1>9, <1>12, <1>13 DEF FoundRows
<1>15. Follows(h, ids, RowId, at)
  BY <1>5, <1>7, <1>9, <1>10, <1>11 DEF Follows, RowId
<1> QED
  BY <1>14, <1>15 DEF h

(* The reranker's order, of the hits whose score it lets pass.               *)
LEMMA RerankedAre ==
  ASSUME HybridSearchAssumption, IndexInv, NEW got, FoundRows(got)
  PROVE  /\ FoundRows(Reranked(got))
         /\ \E at : Follows(Reranked(got), Order["rerank"], Content, at)
         /\ \A a \in ToSet(got) : Content(a) \in Relevant => a \in ToSet(Reranked(got))
<1> DEFINE order == Order["rerank"]
           S == Relevant \cap {Content(hit) : hit \in ToSet(got)}
           named(c) == CHOOSE hit \in ToSet(got) : Content(hit) = c
           kept == Only(order, S)
           h == Reranked(got)
<1>0. order \in Seq(Contents) /\ IsInjective(order) /\ Relevant \subseteq ToSet(order)
  BY OrdersTyped DEF HybridSearchAssumption
<1>1. PICK N \in Nat : \E at : Picks(order, S, N, at)
  BY <1>0, OnlyIs
<1>2. PICK at : Picks(order, S, N, at)
  BY <1>1
<1>3. \A c \in S : named(c) \in ToSet(got) /\ Content(named(c)) = c
  BY Zenon
<1>4. h = [n \in DOMAIN kept |-> named(kept[n])]
  BY Zenon DEF Reranked
<1>5. \A a \in ToSet(got) : a \in rows /\ Owned(a.id)
  BY DEF FoundRows, ToSet
<1>6. \A a \in ToSet(got) : Content(a) \in Relevant => Content(a) \in S
  OBVIOUS
<1> HIDE DEF S, h, named, order
<1>7. at \in [1..N -> 1..Len(order)] /\ kept = [k \in 1..N |-> order[at[k]]]
  BY <1>2 DEF Picks
<1>8. \A k \in 1..N : order[at[k]] \in S
  BY <1>2 DEF Picks
<1>9. \A j, k \in 1..N : at[j] < at[k] <=> j < k
  BY <1>2 DEF Picks
<1>10. \A n \in 1..Len(order) : order[n] \in S => \E k \in 1..N : at[k] = n
  BY <1>2 DEF Picks
<1> HIDE DEF kept
<1>11. h = [k \in 1..N |-> named(order[at[k]])]
  BY <1>4, <1>7
<1>12. \A k \in 1..N : h[k] \in rows /\ h[k] \in ToSet(got) /\ Content(h[k]) = order[at[k]] /\ Owned(h[k].id)
  BY <1>3, <1>5, <1>8, <1>11
<1>13. h \in Seq(rows) /\ DOMAIN h = 1..N
  <2>1. h \in [1..N -> rows]
    BY <1>11, <1>12
  <2> QED
    BY <2>1
<1>14. DOMAIN order = 1..Len(order)
  BY <1>0
<1>15. ASSUME NEW m \in 1..N, NEW n \in 1..N, h[m].id = h[n].id PROVE m = n
  <2>1. h[m] = h[n]
    BY <1>12, <1>15, TableParts DEF IndexInv
  <2>2. order[at[m]] = order[at[n]]
    BY <1>12, <2>1
  <2>3. at[m] = at[n]
    BY <1>0, <1>7, <1>14, <2>2 DEF IsInjective
  <2>4. at[m] \in Nat /\ at[n] \in Nat
    BY <1>7
  <2>5. ~ (m < n) /\ ~ (n < m)
    BY <1>9, <2>3, <2>4
  <2> QED
    BY <2>5
<1>16. FoundRows(h)
  BY <1>12, <1>13, <1>15 DEF FoundRows
<1>17. Follows(h, order, Content, at)
  BY <1>7, <1>9, <1>12, <1>13, <1>14 DEF Follows
<1>18. ASSUME NEW a \in ToSet(got), Content(a) \in Relevant PROVE a \in ToSet(h)
  <2>1. PICK n \in DOMAIN order : order[n] = Content(a)
    BY <1>0, <1>18 DEF ToSet
  <2>2. PICK k \in 1..N : at[k] = n
    BY <1>6, <1>10, <1>14, <1>18, <2>1
  <2>3. Content(h[k]) = Content(a) /\ h[k] \in rows /\ a \in rows
    BY <1>5, <1>12, <2>1, <2>2
  <2>4. h[k] = a
    BY <2>3 DEF IndexInv, IsTable
  <2> QED
    BY <1>13, <2>4 DEF ToSet
<1> QED
  BY <1>16, <1>17, <1>18 DEF h, order

LEMMA FirstOfRows ==
  ASSUME NEW h, FoundRows(h), NEW n \in Nat
  PROVE  /\ FoundRows(First(h, n)) /\ DOMAIN First(h, n) \subseteq DOMAIN h
         /\ \A k \in DOMAIN First(h, n) : First(h, n)[k] = h[k] /\ 1..k \subseteq DOMAIN First(h, n)
<1>1. h \in Seq(rows)
  BY DEF FoundRows
<1>2. /\ First(h, n) \in Seq(rows)
      /\ \A k \in 1..Len(First(h, n)) : k \in 1..Len(h) /\ First(h, n)[k] = h[k]
  BY <1>1, FirstIs
<1>3. DOMAIN h = 1..Len(h)
  BY <1>1
<1>4. DOMAIN First(h, n) = 1..Len(First(h, n)) /\ Len(First(h, n)) \in Nat
  BY <1>2
<1> DEFINE N == Len(First(h, n))
<1>5. \A k \in 1..N : 1..k \subseteq 1..N
  BY <1>4
<1> QED
  BY <1>2, <1>3, <1>4, <1>5 DEF FoundRows

-----------------------------------------------------------------------------
(* The best first.                                                           *)

LEMMA CutsAre ==
  ASSUME HybridSearchAssumption
  PROVE  TopK \in Nat
  BY DEF HybridSearchAssumption

LEMMA FetchedAre ==
  ASSUME HybridSearchAssumption, IndexInv, ListsInv, NEW used \in Rounds
  PROVE  /\ FoundRows(RowsWith(Fused(used)))
         /\ \E at : Follows(RowsWith(Fused(used)), Fused(used), RowId, at)
<1>1. /\ Fused(used) \in Seq(Nat) /\ IsInjective(Fused(used))
      /\ \A n \in DOMAIN Fused(used) : Owned(Fused(used)[n])
  BY FusedIs
<1> QED
  BY <1>1, RowsWithAre

LEMMA HitsAre ==
  ASSUME HybridSearchAssumption, IndexInv, ListsInv, NEW used \in Rounds
  PROVE  FoundRows(Hits(used))
<1> DEFINE got == RowsWith(Fused(used))
           chosen == IF options.rerank THEN Reranked(got) ELSE got
<1>1. FoundRows(got)
  BY FetchedAre
<1>2. Hits(used) = First(chosen, TopK)
  BY DEF Hits
<1> HIDE DEF got
<1>3. FoundRows(Reranked(got))
  BY <1>1, RerankedAre
<1>4. FoundRows(chosen)
  BY <1>1, <1>3
<1> HIDE DEF chosen
<1> QED
  BY <1>2, <1>4, CutsAre, FirstOfRows

(* A chunk that every ranking puts first has no lower score, and with the    *)
(* same score it entered the dictionary first.                               *)
LEMMA OutrankingIsPreferred ==
  ASSUME HybridSearchAssumption, ListsInv, NEW used \in Rounds,
         NEW a, NEW b, a.id \in Candidates(used), b.id \in Candidates(used), Outranks(a, b)
  PROVE  <<b.id, a.id>> \notin Preferred(used) /\ a.id # b.id
<1> DEFINE f == [r \in Retrievers |-> Share(r, a.id)]
           g == [r \in Retrievers |-> Share(r, b.id)]
<1>1. a.id # 0 /\ b.id # 0
  BY CandidatesAre
<1>2. ASSUME NEW r \in Retrievers PROVE Share(r, b.id) <= Share(r, a.id)
  <2>1. Share(r, a.id) \in Nat
    BY SharesAre
  <2>2. CASE Ranks(r, b.id) = {}
    <3>1. Share(r, b.id) = 0
      BY <2>2, SharesAre
    <3> QED
      BY <2>1, <3>1
  <2>3. CASE Ranks(r, b.id) # {}
    <3>1. PICK m : m \in Ranks(r, b.id)
      BY <2>3
    <3>2. PICK n \in Ranks(r, a.id) : n < m
      BY <3>1 DEF Outranks
    <3>3. m \in DOMAIN lists[r] /\ n \in DOMAIN lists[r] /\ m \in Nat /\ n \in Nat
      BY <3>1, <3>2, RanksAre
    <3>4. Part(r)[m] <= Part(r)[n]
      BY <3>2, <3>3, PartsAre
    <3>5. Share(r, b.id) = Part(r)[m] /\ Share(r, a.id) = Part(r)[n]
      BY <1>1, <3>1, <3>2, SharesAre
    <3> QED
      BY <3>4, <3>5
  <2> QED
    BY <2>2, <2>3
<1>3. Score(used, b.id) <= Score(used, a.id)
  <2>1. Sizable(f, ToSet(used)) /\ Sizable(g, ToSet(used))
    BY ScoresAre
  <2>2. \A r \in ToSet(used) : g[r] <= f[r]
    BY <1>2, RoundsAre
  <2>3. /\ Score(used, a.id) = SumFunctionOnSet(f, ToSet(used))
        /\ Score(used, b.id) = SumFunctionOnSet(g, ToSet(used))
    BY ScoresAre
  <2> HIDE DEF f, g
  <2>4. SumFunctionOnSet(g, ToSet(used)) <= SumFunctionOnSet(f, ToSet(used))
    BY <2>1, <2>2, SumMonotone
  <2> QED
    BY <2>3, <2>4
<1>4. ~ Earlier(Entry(used, b.id), Entry(used, a.id))
  <2>1. PICK e \in Nat \X Nat : e = Entry(used, a.id)
    BY EntriesAre
  <2>2. PICK d \in Nat \X Nat : d = Entry(used, b.id)
    BY EntriesAre
  <2>3. /\ e[1] \in DOMAIN used /\ e[2] \in Ranks(used[e[1]], a.id)
        /\ \A m \in DOMAIN used : Ranks(used[m], a.id) # {} => e[1] <= m
    BY <2>1, EntriesAre
  <2>4. d[1] \in DOMAIN used /\ d[2] \in Ranks(used[d[1]], b.id)
    BY <2>2, EntriesAre
  <2>5. used[d[1]] \in Retrievers
    BY <2>4, RoundsAre
  <2>6. PICK n \in Ranks(used[d[1]], a.id) : n < d[2]
    BY <2>4, <2>5 DEF Outranks
  <2>7. e[1] <= d[1]
    BY <2>3, <2>4, <2>6
  <2>8. e[1] = d[1] => e[2] = n
    BY <1>1, <2>3, <2>5, <2>6, RanksAre
  <2>9. e[1] \in Nat /\ e[2] \in Nat /\ d[1] \in Nat /\ d[2] \in Nat
    BY <2>1, <2>2
  <2>10. ~ Earlier(d, e)
    BY <2>6, <2>7, <2>8, <2>9 DEF Earlier
  <2> QED
    BY <2>1, <2>2, <2>10
<1>5. <<b.id, a.id>> \notin Preferred(used)
  <2>1. PICK j \in Nat : j = Score(used, a.id)
    BY ScoresAre
  <2>2. PICK k \in Nat : k = Score(used, b.id)
    BY ScoresAre
  <2>3. ~ (k > j)
    BY <1>3, <2>1, <2>2
  <2> QED
    BY <1>4, <2>1, <2>2, <2>3, PreferredOrders
<1>6. ASSUME a.id = b.id PROVE FALSE
  <2>1. PICK r \in Retrievers : Ranks(r, b.id) # {}
    BY DEF Outranks
  <2>2. PICK m : m \in Ranks(r, b.id)
    BY <2>1
  <2>3. PICK n \in Ranks(r, a.id) : n < m
    BY <2>2 DEF Outranks
  <2>4. n = m
    BY <1>1, <1>6, <2>2, <2>3, RanksAre
  <2>5. m \in Nat
    BY <2>2, RanksAre
  <2> QED
    BY <2>3, <2>4, <2>5
<1> QED
  BY <1>5, <1>6

LEMMA FusedOrderKept ==
  ASSUME HybridSearchAssumption, IndexInv, ListsInv, NEW used \in Rounds,
         NEW j \in DOMAIN RowsWith(Fused(used)), NEW n \in DOMAIN RowsWith(Fused(used)),
         Outranks(RowsWith(Fused(used))[j], RowsWith(Fused(used))[n])
  PROVE  j < n
<1> DEFINE got == RowsWith(Fused(used))
           ids == Fused(used)
<1>1. PICK at : Follows(got, ids, RowId, at)
  BY FetchedAre
<1>2. \A m \in DOMAIN got : at[m] \in DOMAIN ids /\ got[m].id = ids[at[m]]
  BY <1>1 DEF Follows, RowId
<1>3. \A l, m \in DOMAIN got : at[l] < at[m] <=> l < m
  BY <1>1 DEF Follows
<1>4. \A m \in DOMAIN ids : ids[m] \in Candidates(used)
  BY FusedIs
<1>5. \A l, m \in DOMAIN ids : <<ids[l], ids[m]>> \in Preferred(used) <=> l < m
  BY FusedIs
<1>6. j \in Nat /\ n \in Nat
  <2>1. got \in Seq(rows)
    BY FetchedAre DEF FoundRows
  <2> HIDE DEF got
  <2>2. DOMAIN got \subseteq Nat
    BY <2>1
  <2>3. j \in DOMAIN got /\ n \in DOMAIN got
    BY DEF got
  <2> QED
    BY <2>2, <2>3
<1>7. <<got[n].id, got[j].id>> \notin Preferred(used) /\ got[j].id # got[n].id
  <2>1. got[j].id \in Candidates(used) /\ got[n].id \in Candidates(used)
    BY <1>2, <1>4
  <2>2. Outranks(got[j], got[n])
    OBVIOUS
  <2> HIDE DEF got
  <2> QED
    BY <2>1, <2>2, OutrankingIsPreferred
<1> HIDE DEF got, ids
<1>8. ~ (n < j)
  <2>1. j \in DOMAIN got /\ n \in DOMAIN got
    BY DEF got
  <2> QED
    BY <1>2, <1>3, <1>5, <1>7, <2>1
<1>9. j # n
  BY <1>7
<1> QED
  BY <1>6, <1>8, <1>9

LEMMA RerankOrderKept ==
  ASSUME HybridSearchAssumption, IndexInv, NEW got, FoundRows(got),
         NEW a \in ToSet(got), Content(a) \in Relevant, NEW n \in DOMAIN Reranked(got),
         Position(Content(a)) < Position(Content(Reranked(got)[n]))
  PROVE  \E j \in DOMAIN Reranked(got) : j < n /\ Reranked(got)[j] = a
<1> DEFINE order == Order["rerank"]
           h == Reranked(got)
<1>1. PICK at : Follows(h, order, Content, at)
  BY RerankedAre
<1>2. PICK j \in DOMAIN h : h[j] = a
  BY RerankedAre DEF ToSet
<1>3. IsInjective(order)
  BY OrdersTyped
<1>4. ASSUME NEW k \in DOMAIN h PROVE Position(Content(h[k])) = at[k]
  <2>1. at[k] \in DOMAIN order /\ order[at[k]] = Content(h[k])
    BY <1>1 DEF Follows
  <2>2. \A m \in DOMAIN order : order[m] = Content(h[k]) => m = at[k]
    BY <1>3, <2>1 DEF IsInjective
  <2>3. Position(Content(h[k])) = CHOOSE m \in DOMAIN order : order[m] = Content(h[k])
    BY DEF Position
  <2> HIDE DEF order, h
  <2> QED
    BY <2>1, <2>2, <2>3
<1>5. at[j] < at[n]
  BY <1>2, <1>4
<1>6. j < n
  BY <1>1, <1>2, <1>5 DEF Follows
<1> QED
  BY <1>2, <1>6

(* What FetchHits returns.                                                   *)
LEMMA BestAreReturned ==
  ASSUME HybridSearchAssumption, IndexInv, ListsInv, NEW used \in Rounds,
         NEW n \in DOMAIN Hits(used), NEW a \in ToSet(RowsWith(Fused(used))),
         Better(a, Hits(used)[n])
  PROVE  \E m \in 1..(n - 1) : Hits(used)[m] = a
<1> DEFINE got == RowsWith(Fused(used))
           chosen == IF options.rerank THEN Reranked(got) ELSE got
<1>1. FoundRows(got)
  BY FetchedAre
<1>2. Hits(used) = First(chosen, TopK)
  BY DEF Hits
<1>3. FoundRows(chosen)
  BY <1>1, RerankedAre
<1>4. /\ n \in DOMAIN chosen /\ Hits(used)[n] = chosen[n]
      /\ \A m \in DOMAIN Hits(used) : Hits(used)[m] = chosen[m] /\ 1..m \subseteq DOMAIN Hits(used)
  <2> HIDE DEF chosen
  <2>1. PICK k \in Nat : k = TopK
    BY CutsAre
  <2>2. /\ DOMAIN First(chosen, k) \subseteq DOMAIN chosen
        /\ \A m \in DOMAIN First(chosen, k) : /\ First(chosen, k)[m] = chosen[m]
                                             /\ 1..m \subseteq DOMAIN First(chosen, k)
    BY <1>3, FirstOfRows
  <2>3. Hits(used) = First(chosen, k)
    BY <1>2, <2>1
  <2> QED
    BY <2>2, <2>3
<1>5. \E j \in DOMAIN chosen : j < n /\ chosen[j] = a
  <2>1. CASE options.rerank
    <3>1. chosen = Reranked(got)
      BY <2>1
    <3>2. Content(a) \in Relevant /\ Position(Content(a)) < Position(Content(chosen[n]))
      BY <1>4, <2>1 DEF Better
    <3> HIDE DEF got, chosen
    <3>3. a \in ToSet(got)
      BY DEF got
    <3> QED
      BY <1>1, <1>4, <3>1, <3>2, <3>3, RerankOrderKept
  <2>2. CASE ~ options.rerank
    <3>1. chosen = got /\ Outranks(a, chosen[n])
      BY <1>4, <2>2 DEF Better
    <3>2. PICK j \in DOMAIN got : got[j] = a
      BY DEF ToSet
    <3>3. j < n
      BY <1>4, <3>1, <3>2, FusedOrderKept
    <3> QED
      BY <3>1, <3>2, <3>3
  <2> QED
    BY <2>1, <2>2
<1>6. PICK j \in DOMAIN chosen : j < n /\ chosen[j] = a
  BY <1>5
<1>7. DOMAIN chosen = 1..Len(chosen) /\ Len(chosen) \in Nat
  BY <1>3 DEF FoundRows
<1> HIDE DEF got, chosen
<1>8. j \in 1..(n - 1) /\ j \in 1..n
  BY <1>4, <1>6, <1>7
<1>9. Hits(used)[j] = a
  BY <1>4, <1>6, <1>8
<1> QED
  BY <1>8, <1>9

-----------------------------------------------------------------------------
(* A search, from the resolution of its scope to the end of the turn.        *)

Searching == RagRequest \in Requests /\ pc[RagRequest] \in {"search", "answer"}

Quiet ==
  /\ answers = <<>> /\ awaited = {} /\ results = <<>>
  /\ lists = [r \in Retrievers |-> <<>>]

SearchInv ==
  /\ IndexInv /\ AnswersInv /\ ListsInv
  /\ scope \subseteq Items /\ DOMAIN pc = Requests
  /\ phase = "none" => Quiet
  /\ ~ Searching => phase = "none"
  /\ HitsFromScope /\ BestFirst

LEMMA QuietIs ==
  Quiet /\ phase = "none" => AnswersInv /\ ListsInv /\ HitsFromScope /\ BestFirst
<1> SUFFICES ASSUME Quiet, phase = "none"
             PROVE  AnswersInv /\ ListsInv /\ HitsFromScope /\ BestFirst
  OBVIOUS
<1>1. \A r \in Retrievers : lists[r] = <<>>
  BY DEF Quiet
<1>2. ListsInv
  BY <1>1, EmptyAnswers DEF Quiet, ListsInv
<1>3. AnswersInv
  BY DEF Quiet, AnswersInv
<1> QED
  BY <1>2, <1>3 DEF Quiet, HitsFromScope, BestFirst

(* Owners are never forgotten.                                               *)
LEMMA ReassignedStays ==
  ASSUME IsFiniteSet(owners'), owners \subseteq owners', NEW id, Reassigned(id)
  PROVE  Reassigned(id)'
<1> DEFINE S == {o \in owners : o[1] = id}
           T == {o \in owners' : o[1] = id}
<1>1. IsFiniteSet(T) /\ S \subseteq T
  BY FS_Subset
<1>2. Cardinality(S) <= Cardinality(T) /\ Cardinality(S) \in Nat /\ Cardinality(T) \in Nat
  BY <1>1, FS_Subset, FS_CardinalityType
<1> QED
  BY <1>2 DEF Reassigned

(* An owner that is not of the scope took the row id over.                   *)
LEMMA TwoOwners ==
  ASSUME IndexInv, NEW id, NEW i, NEW j, <<id, i>> \in owners, <<id, j>> \in owners, i # j
  PROVE  Reassigned(id)
<1> DEFINE T == {o \in owners : o[1] = id}
           U == T \ {<<id, i>>}
<1>1. IsFiniteSet(T) /\ <<id, i>> \in T
  BY FS_Subset DEF IndexInv
<1>2. IsFiniteSet(U) /\ Cardinality(U) = Cardinality(T) - 1
  BY <1>1, FS_RemoveElement
<1>3. <<id, j>> \in U
  OBVIOUS
<1>4. Cardinality(U) # 0
  BY <1>2, <1>3, FS_EmptySet
<1>5. Cardinality(T) \in Nat /\ Cardinality(U) \in Nat
  BY <1>1, <1>2, FS_CardinalityType
<1> HIDE DEF U
<1>6. Cardinality(T) > 1
  BY <1>2, <1>4, <1>5
<1> QED
  BY <1>6 DEF Reassigned

LEMMA BestUnchanged ==
  ASSUME BestFirst, UNCHANGED <<phase, options, lists, fetched, results>>
  PROVE  BestFirst'
<1>1. phase' = phase /\ results' = results /\ fetched' = fetched /\ options' = options /\ lists' = lists
  OBVIOUS
<1>2. \A r, id : Ranks(r, id)' = Ranks(r, id)
  BY <1>1, Zenon DEF Ranks
<1>3. \A a, b : Outranks(a, b)' <=> Outranks(a, b)
  BY <1>2 DEF Outranks
<1>4. \A a, b : Better(a, b)' <=> Better(a, b)
  BY <1>1, <1>3, Zenon DEF Better, Position, Content
<1> QED
  BY <1>1, <1>4, Zenon DEF BestFirst

(* Only the index changed.                                                   *)
LEMMA SearchUndisturbed ==
  ASSUME SearchInv, UNCHANGED searchVars, IndexInv', owners \subseteq owners',
         DOMAIN pc' = Requests, (~ Searching)' => phase = "none"
  PROVE  SearchInv'
<1>1. AnswersInv'
  BY DEF SearchInv, AnswersInv, FtsAnswer, VectorAnswer, Owned, searchVars
<1>2. ListsInv'
  BY DEF SearchInv, ListsInv, RankedList, Owned, searchVars
<1>3. HitsFromScope'
  <2>1. results' = results /\ scope' = scope
    BY DEF searchVars
  <2>2. \A id : Reassigned(id) => Reassigned(id)'
    BY ReassignedStays DEF IndexInv
  <2>3. \A n \in DOMAIN results : results[n].item \in scope \/ Reassigned(results[n].id)
    BY DEF SearchInv, HitsFromScope
  <2>4. \A n \in DOMAIN results' : results'[n].item \in scope' \/ Reassigned(results[n].id)'
    BY <2>1, <2>2, <2>3
  <2> QED
    BY <2>1, <2>4 DEF SearchInv, HitsFromScope
<1>4. BestFirst'
  BY BestUnchanged DEF SearchInv, searchVars
<1> QED
  BY <1>1, <1>2, <1>3, <1>4 DEF SearchInv, Quiet, searchVars

LEMMA ForgottenKeeps ==
  ASSUME SearchInv, SearchForgotten, UNCHANGED indexVars, DOMAIN pc' = Requests
  PROVE  SearchInv'
<1>1. (Quiet /\ phase = "none")' /\ scope' = {}
  BY DEF SearchForgotten, Quiet
<1>2. (AnswersInv /\ ListsInv /\ HitsFromScope /\ BestFirst)'
  BY <1>1, QuietIs, PTL
<1> QED
  BY <1>1, <1>2 DEF SearchInv, IndexInv, IsTable, Content, indexVars

-----------------------------------------------------------------------------
(* The steps of a search.                                                    *)

(* The rest of the state keeps still.                                        *)
Undisturbed == UNCHANGED indexVars /\ UNCHANGED pc /\ scope' = scope /\ options' = options

LEMMA StepKeeps ==
  ASSUME SearchInv, Undisturbed, phase # "none", phase' # "none",
         AnswersInv', ListsInv', HitsFromScope', BestFirst'
  PROVE  SearchInv'
<1>1. IndexInv'
  BY DEF SearchInv, Undisturbed, indexVars, IndexInv, IsTable, Content
<1>2. Searching
  BY DEF SearchInv
<1>3. Searching'
  BY <1>2 DEF Searching, Undisturbed
<1> QED
  BY <1>1, <1>3 DEF SearchInv, Undisturbed

LEMMA SameHits ==
  ASSUME SearchInv, Undisturbed, results' = results
  PROVE  HitsFromScope'
  BY DEF SearchInv, Undisturbed, indexVars, HitsFromScope, Reassigned

LEMMA SameLists ==
  ASSUME SearchInv, Undisturbed, lists' = lists
  PROVE  ListsInv'
  BY DEF SearchInv, Undisturbed, indexVars, ListsInv, RankedList, Owned

LEMMA SameAnswers ==
  ASSUME SearchInv, Undisturbed, UNCHANGED <<answers, awaited>>
  PROVE  AnswersInv'
  BY DEF SearchInv, Undisturbed, indexVars, AnswersInv, FtsAnswer, VectorAnswer, Owned

LEMMA QueryAnsweredKeeps ==
  ASSUME HybridSearchAssumption, SearchInv, NEW q \in awaited, QueryAnswered(q), Undisturbed
  PROVE  SearchInv'
<1>1. q \in DOMAIN answers /\ DOMAIN answers \subseteq AllQueries /\ phase # "none"
  BY DEF SearchInv, AnswersInv, Quiet
<1>2. q[1] \in Retrievers
  BY <1>1, RetrieversAre DEF AllQueries, Fts
<1>3. PICK s : /\ answers' = [answers EXCEPT ![q] = s]
               /\ IF q[1] \in Fts THEN FtsAnswer(s) ELSE VectorAnswer(s, q[2])
  <2>1. IndexInv
    BY DEF SearchInv
  <2>2. FtsAnswer(FtsResult(q[1])) /\ VectorAnswer(VectorResult(q[1], q[2]), q[2])
    BY <1>2, <2>1, FtsAnswers, VectorAnswers
  <2>3. VectorAnswer(<<>>, q[2])
    BY EmptyAnswers
  <2> QED
    BY <2>2, <2>3 DEF QueryAnswered
<1>4. UNCHANGED <<phase, options, scope, lists, fetched, results>> /\ awaited' = awaited \ {q}
  BY DEF QueryAnswered
<1>5. scope' = scope /\ owners' = owners
  BY DEF Undisturbed, indexVars
<1>7. DOMAIN answers' = DOMAIN answers
  BY <1>3
<1>8. ASSUME NEW p \in DOMAIN answers
      PROVE  IF p[1] \in Fts THEN FtsAnswer(answers'[p]) ELSE VectorAnswer(answers'[p], p[2])
  BY <1>1, <1>3 DEF SearchInv, AnswersInv
<1>9. AnswersInv'
  <2>1. DOMAIN answers' \subseteq AllQueries /\ awaited' \subseteq DOMAIN answers'
    BY <1>1, <1>4, <1>7 DEF SearchInv, AnswersInv
  <2> QED
    BY <1>5, <1>7, <1>8, <2>1 DEF AnswersInv, FtsAnswer, VectorAnswer, Owned
<1> QED
  BY <1>1, <1>4, <1>9, StepKeeps, SameHits, SameLists, BestUnchanged DEF SearchInv

(* A round of queries.                                                       *)
LEMMA AskedIs ==
  ASSUME HybridSearchAssumption, NEW set \in SUBSET Retrievers, Asked(set), scope \subseteq Items
  PROVE  AnswersInv'
<1>1. Queries(set) \subseteq AllQueries
  <2>1. ASSUME NEW r \in set, NEW q \in IF r \in Fts THEN {<<r, "all">>}
                                        ELSE {<<r, s>> : s \in {SourceOf[i] : i \in scope}}
        PROVE  q \in AllQueries
    <3>1. \A i \in scope : SourceOf[i] \in ToSet(SourceList)
      BY DEF HybridSearchAssumption
    <3> QED
      BY <2>1, <3>1 DEF AllQueries
  <2> QED
    BY <2>1 DEF Queries
<1>2. /\ DOMAIN answers' = Queries(set) /\ awaited' = Queries(set)
      /\ \A q \in Queries(set) : answers'[q] = <<>>
  BY DEF Asked
<1>3. \A source : FtsAnswer(<<>>)' /\ VectorAnswer(<<>>, source)'
  BY DEF FtsAnswer, VectorAnswer, IsInjective
<1> QED
  BY <1>1, <1>2, <1>3 DEF AnswersInv

LEMMA RoundStarts ==
  ASSUME HybridSearchAssumption, SearchInv, Undisturbed, NEW set \in SUBSET Retrievers, Asked(set),
         phase # "none", phase' \in {"raw", "full"}, UNCHANGED <<lists, fetched, results>>
  PROVE  SearchInv'
<1>1. AnswersInv'
  BY AskedIs DEF SearchInv
<1>2. BestFirst'
  BY DEF BestFirst
<1> QED
  BY <1>1, <1>2, StepKeeps, SameHits, SameLists

LEMMA MapVectorsKeeps ==
  ASSUME HybridSearchAssumption, SearchInv, MapVectors, Undisturbed
  PROVE  SearchInv'
<1>1. phase # "none" /\ phase' \in {"rawlists", "fulllists"} /\ answers' = <<>> /\ results' = results
      /\ awaited' = {}
  BY DEF MapVectors
<1>2. AnswersInv'
  BY <1>1 DEF AnswersInv
<1> DEFINE asked == {q[1] : q \in DOMAIN answers}
           new(r) == IF r \notin asked THEN lists[r]
                     ELSE IF r \in Fts THEN answers[<<r, "all">>]
                     ELSE ChunkIds(Flattened(r))
<1>3. lists' = [r \in Retrievers |-> new(r)]
  BY DEF MapVectors
<1>4. ASSUME NEW r \in Retrievers PROVE RankedList(new(r))
  <2>1. CASE r \notin asked
    BY <2>1 DEF SearchInv, ListsInv
  <2>2. CASE r \in asked /\ r \in Fts
    <3>1. PICK q \in DOMAIN answers : q[1] = r
      BY <2>2
    <3>2. q = <<r, "all">>
      BY <2>2, <3>1 DEF SearchInv, AnswersInv, AllQueries
    <3>3. FtsAnswer(answers[<<r, "all">>])
      BY <2>2, <3>1, <3>2 DEF SearchInv, AnswersInv
    <3> QED
      BY <2>2, <3>3, FtsRanked
  <2>3. CASE r \in asked /\ r \notin Fts
    <3>1. /\ Flattened(r) \in Seq(Contents) /\ IsInjective(Flattened(r))
          /\ \A n \in DOMAIN Flattened(r) : Flattened(r)[n][1] \in scope
      BY <2>3, FlattenedIs DEF SearchInv
    <3>2. RankedList(ChunkIds(Flattened(r)))
      BY <3>1, ChunkIdsRanked DEF SearchInv
    <3> QED
      BY <2>3, <3>2
  <2> QED
    BY <2>1, <2>2, <2>3
<1> HIDE DEF new
<1>5. scope' = scope /\ owners' = owners
  BY DEF Undisturbed, indexVars
<1>6. ListsInv'
  <2>1. \A r \in Retrievers : new(r) \in Seq(Nat)
    BY <1>4 DEF RankedList
  <2>2. \A r \in Retrievers : lists'[r] = new(r) /\ RankedList(lists'[r])
    BY <1>3, <1>4
  <2>3. lists' \in [Retrievers -> Seq(Nat)]
    BY <1>3, <2>1
  <2> QED
    BY <1>5, <2>2, <2>3 DEF ListsInv, RankedList, Owned
<1>7. BestFirst'
  BY <1>1 DEF BestFirst
<1> QED
  BY <1>1, <1>2, <1>6, <1>7, StepKeeps, SameHits

LEMMA FetchHitsKeeps ==
  ASSUME HybridSearchAssumption, SearchInv, FetchHits, Undisturbed
  PROVE  SearchInv'
<1> DEFINE used == IF phase = "rawlists" THEN RawLists ELSE FullLists
<1>1. used \in Rounds /\ IndexInv /\ ListsInv
  BY DEF Rounds, SearchInv
<1>2. /\ phase # "none" /\ phase' \in {"expand", "found"}
      /\ fetched' = RowsWith(Fused(used)) /\ results' \in {<<>>, Hits(used)}
      /\ UNCHANGED <<options, scope, answers, awaited, lists>>
  BY DEF FetchHits
<1> HIDE DEF used
<1>3. FoundRows(Hits(used))
  BY <1>1, HitsAre
<1>4. AnswersInv'
  BY <1>2, SameAnswers
<1>5. HitsFromScope'
  <2>1. CASE results' = <<>>
    BY <2>1 DEF HitsFromScope
  <2>2. CASE results' = Hits(used)
    <3>1. \A m, n \in DOMAIN results' : results'[m].id = results'[n].id => m = n
      BY <1>3, <2>2 DEF FoundRows
    <3>2. ASSUME NEW n \in DOMAIN results', results'[n].item \notin scope
          PROVE  Reassigned(results'[n].id)
      <4>1. results'[n] \in rows /\ Owned(results'[n].id)
        BY <1>3, <2>2 DEF FoundRows
      <4>2. PICK i \in scope : <<results'[n].id, i>> \in owners
        BY <4>1 DEF Owned
      <4>3. <<results'[n].id, results'[n].item>> \in owners
        BY <1>1, <4>1 DEF IndexInv
      <4> QED
        BY <1>1, <3>2, <4>2, <4>3, TwoOwners
    <3>3. \A id : Reassigned(id) <=> Reassigned(id)'
      BY DEF Reassigned, Undisturbed, indexVars
    <3> QED
      BY <1>2, <3>1, <3>2, <3>3 DEF HitsFromScope
  <2> QED
    BY <1>2, <2>1, <2>2
<1>6. BestFirst'
  <2>1. CASE results' = <<>>
    BY <2>1 DEF BestFirst
  <2>2. CASE results' = Hits(used)
    <3>1. \A a, b : Better(a, b)' <=> Better(a, b)
      BY <1>2 DEF Better, Position, Content, Outranks, Ranks
    <3>2. ASSUME NEW n \in DOMAIN Hits(used), NEW a \in ToSet(RowsWith(Fused(used))),
                 Better(a, Hits(used)[n])
          PROVE  \E m \in 1..(n - 1) : Hits(used)[m] = a
      BY <1>1, <3>2, BestAreReturned
    <3> QED
      BY <1>2, <2>2, <3>1, <3>2, Zenon DEF BestFirst
  <2> QED
    BY <1>2, <2>1, <2>2
<1>7. ListsInv'
  BY <1>2, SameLists
<1> QED
  BY <1>2, <1>4, <1>5, <1>6, <1>7, StepKeeps

LEMMA SearchFailsKeeps ==
  ASSUME SearchInv, SearchFails, Undisturbed
  PROVE  SearchInv'
<1>1. AnswersInv'
  BY DEF SearchFails, AnswersInv
<1>2. BestFirst'
  BY DEF SearchFails, BestFirst
<1> QED
  BY <1>1, <1>2, StepKeeps, SameHits, SameLists DEF SearchFails

LEMMA SearchStepKeeps ==
  ASSUME HybridSearchAssumption, SearchInv, SearchStep, UNCHANGED chatVars
  PROVE  SearchInv'
<1>1. Undisturbed
  BY DEF SearchStep, QueryAnswered, Rewritten, RawSearch, Expanded, MapVectors, FetchHits, SearchFails,
         Undisturbed, chatVars
<1>2. ToSet(RawLists) \in SUBSET Retrievers /\ Retrievers \ ToSet(RawLists) \in SUBSET Retrievers
  BY RetrieversAre
<1>3. CASE \E q \in awaited : QueryAnswered(q)
  BY <1>1, <1>3, QueryAnsweredKeeps
<1>4. CASE Rewritten
  BY <1>1, <1>2, <1>4, RoundStarts DEF Rewritten, RawSearch
<1>5. CASE Expanded
  BY <1>1, <1>2, <1>5, RoundStarts DEF Expanded
<1>6. CASE MapVectors
  BY <1>1, <1>6, MapVectorsKeeps
<1>7. CASE FetchHits
  BY <1>1, <1>7, FetchHitsKeeps
<1>8. CASE SearchFails
  BY <1>1, <1>8, SearchFailsKeeps
<1> QED
  BY <1>3, <1>4, <1>5, <1>6, <1>7, <1>8 DEF SearchStep

-----------------------------------------------------------------------------
(* The requests around the search.                                           *)

LEMMA IndexStepKeeps ==
  ASSUME HybridSearchAssumption, SearchInv, IndexStep, UNCHANGED chatVars
  PROVE  SearchInv'
<1>1. IndexInv' /\ owners \subseteq owners' /\ UNCHANGED searchVars
  BY IndexKept DEF SearchInv
<1>2. DOMAIN pc' = Requests /\ ((~ Searching)' => phase = "none")
  BY DEF SearchInv, Searching, chatVars
<1> QED
  BY <1>1, <1>2, SearchUndisturbed

(* A step that does not touch the search, of a request that is not searching *)
(* or goes on to its answer.                                                 *)
LEMMA RequestsKeep ==
  ASSUME SearchInv, UNCHANGED <<searchVars, indexVars>>,
         \/ pc' = pc
         \/ \E r \in Requests, step \in {"lease", "project", "widget", "plugin", "turn", "search",
                                         "answer", "ended"} :
              /\ Goto(r, step)
              /\ r = RagRequest => pc[r] \notin {"search", "answer"} \/ step = "answer"
  PROVE  SearchInv'
<1>1. IndexInv' /\ owners \subseteq owners' /\ UNCHANGED searchVars
  BY DEF SearchInv, indexVars, IndexInv, IsTable, Content
<1>2. DOMAIN pc' = Requests
  BY DEF SearchInv, Goto
<1>3. (~ Searching)' => phase = "none"
  BY DEF SearchInv, Searching, Goto
<1> QED
  BY <1>1, <1>2, <1>3, SearchUndisturbed

LEMMA ReleaseKeeps ==
  ASSUME SearchInv, NEW r \in Requests, Release(r)
  PROVE  SearchInv'
<1>1. CASE r = RagRequest
  <2>1. DOMAIN pc' = Requests
    BY DEF SearchInv, Release, Goto
  <2> QED
    BY <1>1, <2>1, ForgottenKeeps DEF Release
<1>2. CASE r # RagRequest
  BY <1>2, RequestsKeep DEF Release
<1> QED
  BY <1>1, <1>2

(* The scope is resolved, and the first round of queries asked, while        *)
(* nothing is searched.                                                      *)
LEMMA ScopeResolvedKeeps ==
  ASSUME SearchInv, NEW opts, ScopeResolved(opts), Passed(RagRequest, "turn"),
         pc[RagRequest] = "plugin"
  PROVE  SearchInv'
<1>1. phase = "none" /\ Quiet
  BY DEF SearchInv, Searching
<1>2. (Quiet /\ phase = "none")' /\ UNCHANGED indexVars
  BY <1>1 DEF ScopeResolved, Quiet, Passed
<1>3. (AnswersInv /\ ListsInv /\ HitsFromScope /\ BestFirst)'
  BY <1>2, QuietIs, PTL
<1>4. IndexInv'
  BY <1>2 DEF SearchInv, indexVars, IndexInv, IsTable, Content
<1>5. scope' \subseteq Items /\ DOMAIN pc' = Requests
  BY DEF SearchInv, ScopeResolved, VisitorScope, Passed, Goto
<1> QED
  BY <1>2, <1>3, <1>4, <1>5 DEF SearchInv

LEMMA RetrievalStartsKeeps ==
  ASSUME HybridSearchAssumption, SearchInv, RagRequest \in Requests, RetrievalStarts,
         Passed(RagRequest, "search"), pc[RagRequest] = "turn"
  PROVE  SearchInv'
<1>1. phase = "none" /\ Quiet
  BY DEF SearchInv, Searching
<1>2. UNCHANGED <<options, scope, lists, fetched, results, indexVars>> /\ phase' \in {"rewrite", "raw"}
  BY DEF RetrievalStarts, RawSearch, Passed
<1>3. IndexInv'
  BY <1>2 DEF SearchInv, indexVars, IndexInv, IsTable, Content
<1>4. Searching' /\ DOMAIN pc' = Requests
  BY DEF SearchInv, Searching, Passed, Goto
<1>5. AnswersInv'
  <2>1. ToSet(RawLists) \in SUBSET Retrievers
    BY RetrieversAre
  <2>2. CASE Asked(ToSet(RawLists))
    BY <2>1, <2>2, AskedIs DEF SearchInv
  <2>3. CASE UNCHANGED <<answers, awaited>>
    BY <1>1, <2>3 DEF Quiet, AnswersInv
  <2> QED
    BY <2>2, <2>3 DEF RetrievalStarts, RawSearch
<1>6. ListsInv' /\ HitsFromScope'
  <2>1. \A r \in Retrievers : lists[r] = <<>>
    BY <1>1 DEF Quiet
  <2>2. lists' = lists /\ results' = <<>>
    BY <1>1, <1>2 DEF Quiet
  <2>3. ListsInv'
    BY <2>1, <2>2 DEF SearchInv, ListsInv, RankedList
  <2> QED
    BY <2>2, <2>3 DEF HitsFromScope
<1>7. BestFirst'
  BY <1>2 DEF BestFirst
<1> QED
  BY <1>2, <1>3, <1>4, <1>5, <1>6, <1>7 DEF SearchInv

LEMMA RequestStepKeeps ==
  ASSUME HybridSearchAssumption, SearchInv, NEW r \in Requests, RequestStep(r)
  PROVE  SearchInv'
<1>1. ASSUME NEW step \in {"lease", "project", "widget", "plugin", "turn", "search", "answer", "ended"},
             Goto(r, step), UNCHANGED <<searchVars, indexVars>>,
             pc[r] \notin {"search", "answer"} \/ r # RagRequest \/ step = "answer"
      PROVE  SearchInv'
  BY <1>1, RequestsKeep
<1>2. ASSUME pc' = pc, UNCHANGED <<searchVars, indexVars>> PROVE SearchInv'
  BY <1>2, RequestsKeep
<1>3. CASE Arrive(r)
  BY <1>1, <1>3 DEF Arrive
<1>4. CASE TakeLease(r)
  BY <1>1, <1>4 DEF TakeLease
<1>5. CASE LoadProject(r)
  BY <1>1, <1>5, ReleaseKeeps DEF LoadProject, Reject, Passed
<1>6. CASE CheckWidget(r)
  BY <1>1, <1>6, ReleaseKeeps DEF CheckWidget, Reject, Passed
<1>7. CASE PreparePlugin(r)
  <2>1. CASE r # RagRequest
    BY <1>1, <1>7, <2>1 DEF PreparePlugin, Passed
  <2>2. CASE r = RagRequest
    <3>1. PICK opts : Reject(r) \/ (ScopeResolved(opts) /\ Passed(r, "turn"))
      BY <1>7, <2>2 DEF PreparePlugin
    <3>2. pc[r] = "plugin"
      BY <1>7 DEF PreparePlugin
    <3> QED
      BY <2>2, <3>1, <3>2, ReleaseKeeps, ScopeResolvedKeeps DEF Reject
  <2> QED
    BY <2>1, <2>2
<1>8. CASE TurnStarts(r)
  <2>1. CASE r # RagRequest
    BY <1>1, <1>8, <2>1 DEF TurnStarts, Passed
  <2>2. CASE r = RagRequest
    BY <1>8, <2>2, RetrievalStartsKeeps DEF TurnStarts
  <2> QED
    BY <2>1, <2>2
<1>9. CASE SearchEnds(r)
  BY <1>1, <1>9, ReleaseKeeps DEF SearchEnds, Passed
<1>10. CASE AnswerEnds(r) \/ Leave(r)
  BY <1>10, ReleaseKeeps DEF AnswerEnds, Leave
<1>11. CASE CancelRequest(r)
  BY <1>2, <1>11 DEF CancelRequest
<1> QED
  BY <1>3, <1>4, <1>5, <1>6, <1>7, <1>8, <1>9, <1>10, <1>11 DEF RequestStep

(* Whatever visitors, the index, the administrator and the clock do.         *)
LEMMA SearchKept ==
  ASSUME SearchInv,
         \/ Surroundings
         \/ \E r \in Requests : RequestStep(r)
         \/ UNCHANGED <<chatVars, indexVars, searchVars>>
  PROVE  SearchInv'
<1>1. ASSUME UNCHANGED <<chatVars, indexVars, searchVars>> PROVE SearchInv'
  BY <1>1, RequestsKeep DEF chatVars
<1>2. CASE Surroundings
  <2>1. CASE TimePasses
    BY <1>1, <2>1 DEF TimePasses
  <2>2. CASE \E p \in Projects : Disable(p)
    BY <2>2, RequestsKeep DEF Disable
  <2>3. CASE IndexStep /\ UNCHANGED <<chatVars, limiterVars>>
    BY <2>3, HybridSearchAssumption, IndexStepKeeps
  <2>4. CASE SearchStep /\ UNCHANGED <<chatVars, limiterVars>>
    BY <2>4, HybridSearchAssumption, SearchStepKeeps
  <2> QED
    BY <1>2, <2>1, <2>2, <2>3, <2>4 DEF Surroundings
<1>3. CASE \E r \in Requests : RequestStep(r)
  BY <1>3, HybridSearchAssumption, RequestStepKeeps
<1> QED
  BY <1>1, <1>2, <1>3

LEMMA SearchInitially == Init => SearchInv
<1> SUFFICES ASSUME Init PROVE SearchInv
  OBVIOUS
<1>1. /\ rows = Table /\ owners = {<<row.id, row.item>> : row \in rows} /\ DOMAIN pc = Requests
  BY DEF Init, IndexInit
<1>2. IndexInv
  <2>1. IsTable(rows)
    BY <1>1, VisitorAssumption
  <2>2. IsFiniteSet(owners)
    <3> DEFINE f == [row \in rows |-> <<row.id, row.item>>]
    <3>1. f \in Surjection(rows, owners)
      BY <1>1 DEF Surjection
    <3>2. IsFiniteSet(rows)
      BY <2>1 DEF IsTable
    <3> QED
      BY <3>1, <3>2, FS_Surjection
  <2> QED
    BY <1>1, <2>1, <2>2 DEF IndexInv
<1>3. Quiet /\ phase = "none" /\ scope = {}
  BY DEF Init, SearchInit, Quiet
<1> QED
  BY <1>1, <1>2, <1>3, QuietIs DEF SearchInv

(* However the index changes and whatever ends while a search runs, what it  *)
(* returns belongs to the items that were completed and visible when its     *)
(* scope was resolved, each chunk once, unless SQLite gave a row's id away   *)
(* in between (resolve_visitor_search_sources, get_ranked_results_by_chunk_  *)
(* ids).                                                                     *)
THEOREM HitsComeFromTheScope == Spec => []HitsFromScope
<1>1. SearchInv /\ [Next]_visitorVars => SearchInv'
  BY SearchKept DEF Next, visitorVars
<1>2. SearchInv => HitsFromScope
  BY DEF SearchInv
<1> QED
  BY <1>1, <1>2, SearchInitially, PTL DEF Spec

(* For any retrievers' orders and limits, the fusion returns no chunk before *)
(* one that every ranking put before it, nor, reranked, before one that the  *)
(* reranker put before it (_rrf_merge, _rrf_fetch_and_rerank).               *)
THEOREM BestHitsComeFirst == Spec => []BestFirst
<1>1. SearchInv /\ [Next]_visitorVars => SearchInv'
  BY SearchKept DEF Next, visitorVars
<1>2. SearchInv => BestFirst
  BY DEF SearchInv
<1> QED
  BY <1>1, <1>2, SearchInitially, PTL DEF Spec
=============================================================================
