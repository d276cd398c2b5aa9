------------------------------ MODULE RateLimit ------------------------------
(***************************************************************************)
(* The visitors' rate limiter (core/rate_limit.py): sliding windows of     *)
(* request times and counters of open streams, in memory.  Its methods     *)
(* hold an asyncio lock and never suspend inside it, so each one is one    *)
(* step.                                                                   *)
(***************************************************************************)
EXTENDS Naturals, Sequences, FiniteSets

CONSTANTS
  Ips, Projects,
  Minute, Hour,        \* the two windows (_max_window is the hour)
  CleanupInterval,     \* _cleanup_interval
  IpProjectPerMinute, IpProjectPerHour, IpPerMinute, ProjectPerMinute, \* 0: no limit
  StreamPerIp, StreamPerProject,
  Anyone               \* stands in a key for "every ip" or "every project"

ASSUME RateLimitAssumption ==
  /\ {Minute, Hour, CleanupInterval, IpProjectPerMinute, IpProjectPerHour, IpPerMinute,
      ProjectPerMinute, StreamPerIp, StreamPerProject} \subseteq Nat
  /\ Minute <= Hour
  /\ Anyone \notin Ips \cup Projects

VARIABLES
  now,           \* time.monotonic()
  hits,          \* _hits: a key without entry has no times
  lastCleanup,   \* _last_cleanup_time
  activeIp,      \* _active_ip, _active_project: an absent key counts 0
  activeProject,
  charged        \* ghost: every time that was ever charged to a key

limiterVars == <<now, hits, lastCleanup, activeIp, activeProject, charged>>
streamCounts == <<activeIp, activeProject>>
windowVars == <<now, hits, lastCleanup, charged>>

Keys == ({"ip_project:1m", "ip_project:1h"} \X Ips \X Projects)
          \cup ({"ip:1m"} \X Ips \X {Anyone}) \cup ({"project:1m"} \X {Anyone} \X Projects)

Window(rule) == IF rule = "ip_project:1h" THEN Hour ELSE Minute
Limit(rule) ==
  CASE rule = "ip_project:1m" -> IpProjectPerMinute
    [] rule = "ip_project:1h" -> IpProjectPerHour
    [] rule = "ip:1m"         -> IpPerMinute
    [] rule = "project:1m"    -> ProjectPerMinute

(* The keys of a request, in the order they are checked.                     *)
Checks(ip, project) ==
  <<<<"ip_project:1m", ip, project>>, <<"ip_project:1h", ip, project>>,
    <<"ip:1m", ip, Anyone>>, <<"project:1m", Anyone, project>>>>

LimiterInit(start) ==
  /\ now = start /\ lastCleanup = start
  /\ hits = [k \in Keys |-> <<>>] /\ charged = [k \in Keys |-> <<>>]
  /\ activeIp = [ip \in Ips |-> 0] /\ activeProject = [p \in Projects |-> 0]

Tick == now' = now + 1 /\ UNCHANGED <<hits, lastCleanup, streamCounts, charged>>

------------------------------------------------------------------------------
(* Request windows.                                                          *)

(* The times that have not left a window: popleft while hits[0] < now - window. *)
Recent(times, window) ==
  LET first == CHOOSE i \in 1 .. Len(times) + 1 :
                 /\ i <= Len(times) => times[i] + window >= now
                 /\ \A j \in 1 .. i - 1 : times[j] + window < now
  IN  SubSeq(times, first, Len(times))

(* Mutant: keys are kept for a minute only. *)
CleanedEarly(k) ==
  IF now > lastCleanup + CleanupInterval /\ Recent(hits[k], Minute) = <<>> THEN <<>> ELSE hits[k]

(* _cleanup_expired, when it is due: keys whose last time is older than the  *)
(* longest window go.                                                        *)
Cleaned(k) ==
  IF now > lastCleanup + CleanupInterval /\ Recent(hits[k], Hour) = <<>> THEN <<>> ELSE hits[k]

Passes(k) ==
  \/ Limit(k[1]) = 0
  \/ Len(Recent(Cleaned(k), Window(k[1]))) < Limit(k[1])

(* _check_window for each key until one refuses: what was checked before it  *)
(* stays charged.                                                            *)
CheckRequest(ip, project, passes) ==
  LET checks  == Checks(ip, project)
      reached == {i \in DOMAIN checks : \A j \in 1..(i - 1) : Passes(checks[j])}
      looked  == {k \in {checks[i] : i \in reached} : Limit(k[1]) > 0}
      counted == {k \in looked : Passes(k)}
  IN  /\ passes = (\A i \in DOMAIN checks : Passes(checks[i]))
      /\ hits' = [k \in Keys |->
                    IF k \notin looked THEN Cleaned(k)
                    ELSE IF k \in counted THEN Append(Recent(Cleaned(k), Window(k[1])), now)
                    ELSE Recent(Cleaned(k), Window(k[1]))]
      /\ charged' = [k \in Keys |-> IF k \in counted THEN Append(charged[k], now) ELSE charged[k]]
      /\ lastCleanup' = IF now > lastCleanup + CleanupInterval THEN now ELSE lastCleanup
      /\ UNCHANGED <<now, streamCounts>>

------------------------------------------------------------------------------
(* Streams.                                                                  *)

Room(ip, project) == activeIp[ip] < StreamPerIp /\ activeProject[project] < StreamPerProject

AcquireStream(ip, project) ==
  /\ Room(ip, project)
  /\ activeIp' = [activeIp EXCEPT ![ip] = @ + 1]
  /\ activeProject' = [activeProject EXCEPT ![project] = @ + 1]
  /\ UNCHANGED windowVars

(* _decrement: never below zero.                                             *)
Decrement(n) == IF n <= 1 THEN 0 ELSE n - 1

ReleaseStream(ip, project) ==
  /\ activeIp' = [activeIp EXCEPT ![ip] = Decrement(@)]
  /\ activeProject' = [activeProject EXCEPT ![project] = Decrement(@)]
  /\ UNCHANGED windowVars

------------------------------------------------------------------------------
(* Properties.                                                               *)

(* However requests, refusals and cleanups follow each other, no window of   *)
(* its length ever holds more charged requests of a key than its limit: what *)
(* the pruned queue forgets can no longer matter.                            *)
WindowsHold ==
  \A k \in Keys : Limit(k[1]) > 0 =>
    \A i \in DOMAIN charged[k] :
      i > Limit(k[1]) => charged[k][i] > charged[k][i - Limit(k[1])] + Window(k[1])
=============================================================================
