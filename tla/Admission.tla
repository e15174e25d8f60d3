----------------------------- MODULE Admission ------------------------------
(***************************************************************************)
(* Admission control of the diagnostics API (apps/diagnostics/src/         *)
(* limits.ts, class Admission) and the two places of app.ts that give an   *)
(* admitted request's slot back: the onResponse hook and the 'close' event *)
(* of the raw response.                                                    *)
(*                                                                         *)
(* JavaScript runs one callback at a time, so each call of enter() and of  *)
(* the closure it returns is one step.  Time is Date.now() counted in      *)
(* coarse ticks; a rate window lasts Minute ticks.                         *)
(***************************************************************************)
EXTENDS Integers, FiniteSets

CONSTANTS
  Requests,            \* identities of requests; one is used again after its close
  Sources,             \* client addresses
  ConcurrentRequests,  \* SERVICE_LIMITS.concurrentRequests
  RequestsPerMinute,   \* SERVICE_LIMITS.requestsPerMinute
  RequestsPerIpMinute, \* SERVICE_LIMITS.requestsPerIpMinute
  SourceEntries,       \* SERVICE_LIMITS.sourceEntries
  Minute,              \* ticks in 60_000 ms
  MaxTime              \* bound of the model: the clock stops here

ASSUME AdmissionAssumption ==
  /\ ConcurrentRequests \in Nat \ {0}
  /\ RequestsPerMinute \in Nat \ {0}
  /\ RequestsPerIpMinute \in Nat \ {0}
  /\ SourceEntries \in Nat \ {0}
  /\ Minute \in Nat \ {0}
  /\ MaxTime \in Nat

VARIABLES
  now,       \* Date.now()
  active,    \* Admission.active
  global,    \* Admission.global, a RateWindow
  sources,   \* Admission.sources, a Map from address to RateWindow
  response,  \* [Requests -> {"none", "open", "finished"}]: the raw response of an admitted request
  released   \* [Requests -> BOOLEAN]: the flag in the release closure; TRUE when there is none

admissionVars == <<now, active, global, sources, response, released>>

RateWindow == [count : Nat, until : Nat]

Init ==
  /\ now = 0
  /\ active = 0
  /\ global = [count |-> 0, until |-> 0]
  /\ sources = [s \in {} |-> [count |-> 0, until |-> 0]]
  /\ response = [r \in Requests |-> "none"]
  /\ released = [r \in Requests |-> TRUE]

-----------------------------------------------------------------------------
(* enter(): the windows it works with.                                     *)

Fresh == [count |-> 0, until |-> now + Minute]

GlobalWindow == IF now >= global.until THEN Fresh ELSE global

\* Mutants of Tracked: entries expire a tick early, or a tick late.
TrackedTooShort == {s \in DOMAIN sources : sources[s].until > now + 1}
TrackedTooLong == {s \in DOMAIN sources : sources[s].until >= now}

\* The addresses left once expired entries are deleted.
Tracked == {s \in DOMAIN sources : sources[s].until > now}

SourceWindow(s) == IF s \in Tracked THEN sources[s] ELSE Fresh

HasEntry(s) == s \in Tracked \/ Cardinality(Tracked) < SourceEntries

\* Mutant of AtLimit: one request too many at a time.
AtLimitOffByOne(s) ==
  \/ active > ConcurrentRequests
  \/ GlobalWindow.count >= RequestsPerMinute
  \/ SourceWindow(s).count >= RequestsPerIpMinute

AtLimit(s) ==
  \/ active >= ConcurrentRequests
  \/ GlobalWindow.count >= RequestsPerMinute
  \/ SourceWindow(s).count >= RequestsPerIpMinute

Admits(s) == HasEntry(s) /\ ~AtLimit(s)

\* The table without its expired entries and with window w for address s.
Table(s, w) ==
  [x \in Tracked \cup {s} |-> IF x = s THEN w ELSE sources[x]]

\* Mutant of Counted: an admitted request is not counted.
Uncounted(w) == w

Counted(w) == [w EXCEPT !.count = @ + 1]

(* enter() throws RATE_LIMITED: an unknown address finds the table full.   *)
EnterTableFull(s) ==
  /\ ~HasEntry(s)
  /\ global' = GlobalWindow
  /\ sources' = [x \in Tracked |-> sources[x]]
  /\ UNCHANGED <<now, active, response, released>>

(* enter() throws RATE_LIMITED at a limit.  The address keeps its entry,   *)
(* new or old.                                                             *)
EnterAtLimit(s) ==
  /\ HasEntry(s)
  /\ AtLimit(s)
  /\ global' = GlobalWindow
  /\ sources' = Table(s, SourceWindow(s))
  /\ UNCHANGED <<now, active, response, released>>

(* enter() admits request r and returns its release closure, which app.ts  *)
(* hands to the response's 'close' event.                                  *)
EnterAdmitted(r, s) ==
  /\ response[r] = "none"
  /\ Admits(s)
  /\ global' = Counted(GlobalWindow)
  /\ sources' = Table(s, Counted(SourceWindow(s)))
  /\ active' = active + 1
  /\ response' = [response EXCEPT ![r] = "open"]
  /\ released' = [released EXCEPT ![r] = FALSE]
  /\ UNCHANGED now

Enter(r, s) ==
  \/ EnterTableFull(s)
  \/ EnterAtLimit(s)
  \/ EnterAdmitted(r, s)

-----------------------------------------------------------------------------
(* The release closure, and its two callers.                               *)

\* Mutant of Release: the flag in the closure is forgotten.
ReleaseAgain(r) ==
  /\ active' = active - 1
  /\ released' = [released EXCEPT ![r] = TRUE]

Release(r) ==
  IF released[r]
  THEN UNCHANGED <<active, released>>
  ELSE /\ active' = active - 1
       /\ released' = [released EXCEPT ![r] = TRUE]

(* The response was written in full: the onResponse hook releases.         *)
Finish(r) ==
  /\ response[r] = "open"
  /\ response' = [response EXCEPT ![r] = "finished"]
  /\ Release(r)
  /\ UNCHANGED <<now, global, sources>>

(* 'close' of the raw response: after its finish, or because the client    *)
(* went away.                                                              *)
Close(r) ==
  /\ response[r] # "none"
  /\ response' = [response EXCEPT ![r] = "none"]
  /\ Release(r)
  /\ UNCHANGED <<now, global, sources>>

Tick ==
  /\ now < MaxTime
  /\ now' = now + 1
  /\ UNCHANGED <<active, global, sources, response, released>>

Next ==
  \/ \E r \in Requests, s \in Sources : Enter(r, s)
  \/ \E r \in Requests : Finish(r) \/ Close(r)
  \/ Tick

Spec == Init /\ [][Next]_admissionVars

-----------------------------------------------------------------------------
(* Properties.                                                             *)

\* Every variable has its type, and the table maps addresses to windows.
TypeOK ==
  /\ now \in Nat
  /\ active \in Int
  /\ global \in RateWindow
  /\ DOMAIN sources \subseteq Sources
  /\ sources \in [DOMAIN sources -> RateWindow]
  /\ response \in [Requests -> {"none", "open", "finished"}]
  /\ released \in [Requests -> BOOLEAN]

Holding == {r \in Requests : ~released[r]}

\* The counter that limits concurrency counts exactly the open responses of
\* admitted requests: an onResponse hook followed by 'close', or a 'close'
\* alone, gives one slot back, never two (limits.ts:64-70, app.ts:67, 78).
SlotsAreOpenResponses ==
  /\ active = Cardinality(Holding)
  /\ Holding = {r \in Requests : response[r] = "open"}

\* Addresses come and go, refused ones too, and the table never outgrows its
\* cap (limits.ts:45-54).
TableBounded == Cardinality(DOMAIN sources) <= SourceEntries

\* No step evicts or forgives an address whose window is still running: while
\* the window lives its end is fixed and its count never falls
\* (limits.ts:45-47, 53-62).
LiveWindowsKept ==
  [][\A s \in DOMAIN sources :
       sources[s].until > now' =>
         /\ s \in DOMAIN sources'
         /\ sources'[s].until = sources[s].until
         /\ sources'[s].count >= sources[s].count]_admissionVars

\* The service as its callers see it: a pool of ConcurrentRequests slots.
Pool == INSTANCE CapacityPool
          WITH Holders <- Requests, Capacity <- ConcurrentRequests, held <- Holding

\* Admission implements the pool: counter, flags and refusals add nothing a
\* pool of slots would not do (limits.ts:38-72).
ImplementsPool == Pool!Spec
=============================================================================
