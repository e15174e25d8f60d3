-------------------------- MODULE AdmissionHistory --------------------------
(***************************************************************************)
(* Admission with a history of its calls, to compare its fixed windows     *)
(* with the rates they stand for.  The history only records, and forgets   *)
(* what is older than a minute: it takes no part in any guard.             *)
(***************************************************************************)
EXTENDS Admission

VARIABLES
  admitted,  \* the requests admitted in the last minute
  attempted  \* [Sources -> SUBSET Nat]: ticks of the last minute with a call of enter()

historyVars == <<now, active, global, sources, response, released, admitted, attempted>>

HistoryInit ==
  /\ Init
  /\ admitted = {}
  /\ attempted = [s \in Sources |-> {}]

\* Those of one address, and those of one tick among them.
From(s) == {a \in admitted : a.source = s}
At(s, t) == {a \in admitted : a.source = s /\ a.time = t}

\* Requests of one address in one tick are told apart by their number.
Admission(s) == [source |-> s, time |-> now, nth |-> Cardinality(At(s, now))]

HistoryEnter(r, s) ==
  /\ Enter(r, s)
  /\ attempted' = [attempted EXCEPT ![s] = @ \cup {now}]
  /\ admitted' = admitted \cup (IF active' > active THEN {Admission(s)} ELSE {})

HistoryTick ==
  /\ Tick
  /\ attempted' = [s \in Sources |-> {t \in attempted[s] : t > now' - Minute}]
  /\ admitted' = {a \in admitted : a.time > now' - Minute}

HistoryNext ==
  \/ \E r \in Requests, s \in Sources : HistoryEnter(r, s)
  \/ /\ \E r \in Requests : Finish(r) \/ Close(r)
     /\ UNCHANGED <<admitted, attempted>>
  \/ HistoryTick

HistorySpec == HistoryInit /\ [][HistoryNext]_historyVars

-----------------------------------------------------------------------------
\* Whatever the order of calls, expiries and refusals, any minute admits at
\* most two windows' worth of requests, from one address and in all: no
\* sequence of legal calls opens a third window (limits.ts:44-63).
AtMostTwoWindowsAMinute ==
  /\ Cardinality(admitted) <= 2 * RequestsPerMinute
  /\ \A s \in Sources : Cardinality(From(s)) <= 2 * RequestsPerIpMinute

\* The addresses that called in the last minute.
Callers == {s \in Sources : attempted[s] # {}}

\* No stale window refuses anyone: with a free slot, an address that a limiter
\* counting the last minute exactly would let in is let in, even after calls
\* that filled the table or were refused (limits.ts:44-60).
NoStaleRefusal ==
  \A s \in Sources :
    (/\ active < ConcurrentRequests
     /\ Cardinality(admitted) < RequestsPerMinute
     /\ Cardinality(From(s)) < RequestsPerIpMinute
     /\ Cardinality(Callers \ {s}) < SourceEntries)
    => Admits(s)
=============================================================================
