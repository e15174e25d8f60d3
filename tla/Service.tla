------------------------------ MODULE Service -------------------------------
(***************************************************************************)
(* The life of a request in the diagnostics API (apps/diagnostics/src/     *)
(* app.ts): admission, the arrival of the body, the DNS inspection with    *)
(* its lookups one after another (dns.ts), the deadline, the reply, and a  *)
(* client that may leave at any time.                                      *)
(*                                                                         *)
(* Admission is Admission.tla; an exchange is reduced here to its promise  *)
(* and to the socket that still closes once the promise has settled (see   *)
(* Exchange.tla).  A step is one callback and the microtasks it leads to:  *)
(* when a lookup ends the handler runs on until it waits again or replies. *)
(***************************************************************************)
EXTENDS Admission, Sequences, SequencesExt

CONSTANTS
  OutboundConnections,  \* SERVICE_LIMITS.outboundConnections
  MaxTypes              \* bound of the model: record types one request asks for

ASSUME ServiceAssumption ==
  /\ OutboundConnections \in Nat \ {0}
  /\ MaxTypes \in Nat \ {0}

VARIABLES
  handler,  \* "none", "receiving" the body, "running" (waiting for a lookup) or "done"
  types,    \* number of record types asked for
  lookups,  \* outcomes of the lookups so far
  expired,  \* controller.signal.aborted of a handler, by its timer
  reply,    \* "none" or what was sent
  closing   \* settled exchanges whose socket has not closed

serviceVars == <<now, active, global, sources, response, released,
                 handler, types, lookups, expired, reply, closing>>

\* Lookups that brought nothing, by error code; "UPSTREAM_ERROR" stands for
\* every code of a reply that cannot be used.  "answer" may be negative, and
\* "rcode" is an error the resolver itself reported.
Failures == {"TIMEOUT", "RATE_LIMITED", "UPSTREAM_ERROR"}
Outcomes == Failures \cup {"answer", "rcode"}
Errors == Failures \cup {"INVALID_INPUT", "LIMIT_EXCEEDED"}
Replies == Errors \cup {"result", "partial"}

ServiceInit ==
  /\ Init
  /\ handler = [r \in Requests |-> "none"]
  /\ types = [r \in Requests |-> 0]
  /\ lookups = [r \in Requests |-> <<>>]
  /\ expired = [r \in Requests |-> FALSE]
  /\ reply = [r \in Requests |-> "none"]
  /\ closing = 0

Running == {r \in Requests : handler[r] = "running"}

\* ConnectionLimiter.active: one exchange per waiting handler, and those closing.
InUse == Cardinality(Running) + closing

-----------------------------------------------------------------------------
(* What the handler does once outcomes os are known.                       *)

\* Mutant of Report: an observation of some types passes for all of them.
ReportRounded(os, aborted) ==
  IF \E i \in DOMAIN os : os[i] \notin Failures
  THEN {"result"}
  ELSE {IF aborted THEN "TIMEOUT" ELSE os[1]}

\* inspectDns and the end of the handler.  A report may exceed apiResponseBytes.
Report(os, aborted) ==
  LET observed == \E i \in DOMAIN os : os[i] \notin Failures
      complete == \A i \in DOMAIN os : os[i] = "answer"
  IN IF observed
     THEN {"LIMIT_EXCEEDED", IF complete THEN "result" ELSE "partial"}
     ELSE {IF aborted THEN "TIMEOUT" ELSE os[1]}

\* Lookups that fail at once: after an abort, or with the limiter full, the
\* rest of the loop runs in the same turn.
Rest(n, os, aborted) ==
  os \o [i \in 1..(n - Len(os)) |-> IF aborted THEN "TIMEOUT" ELSE "RATE_LIMITED"]

\* Mutant of Proceed: sockets on their way down are not counted.
ProceedUncounted(r, n, os, aborted) ==
  IF Len(os) < n /\ ~aborted /\ Cardinality(Running) < OutboundConnections
  THEN /\ handler' = [handler EXCEPT ![r] = "running"]
       /\ lookups' = [lookups EXCEPT ![r] = os]
       /\ UNCHANGED reply
  ELSE /\ handler' = [handler EXCEPT ![r] = "done"]
       /\ lookups' = [lookups EXCEPT ![r] = Rest(n, os, aborted)]
       /\ \E answer \in Report(Rest(n, os, aborted), aborted) :
            reply' = [reply EXCEPT ![r] = answer]

(* The handler asks for the next type, if there is one, the signal lives   *)
(* and a connection is free; otherwise it ends with a reply.               *)
Proceed(r, n, os, aborted) ==
  IF Len(os) < n /\ ~aborted /\ InUse < OutboundConnections
  THEN /\ handler' = [handler EXCEPT ![r] = "running"]
       /\ lookups' = [lookups EXCEPT ![r] = os]
       /\ UNCHANGED reply
  ELSE /\ handler' = [handler EXCEPT ![r] = "done"]
       /\ lookups' = [lookups EXCEPT ![r] = Rest(n, os, aborted)]
       /\ \E answer \in Report(Rest(n, os, aborted), aborted) :
            reply' = [reply EXCEPT ![r] = answer]

-----------------------------------------------------------------------------
(* onRequest: admission, then the checks of content type and URL, which    *)
(* reply at once.  Requests for unknown routes end here too.               *)
Arrive(r, s, acceptable) ==
  /\ Enter(r, s)
  /\ IF response'[r] = response[r]
     THEN UNCHANGED <<handler, reply>>
     ELSE /\ handler' = [handler EXCEPT ![r] = IF acceptable THEN "receiving" ELSE "done"]
          /\ reply' = [reply EXCEPT ![r] = IF acceptable THEN "none" ELSE "INVALID_INPUT"]
  /\ UNCHANGED <<types, lookups, expired, closing>>

\* Mutant of Body: an invalid body ends the handler without a reply.
BodyForgetful(r, n) ==
  /\ handler[r] = "receiving"
  /\ types' = [types EXCEPT ![r] = n]
  /\ IF n = 0
     THEN /\ handler' = [handler EXCEPT ![r] = "done"]
          /\ UNCHANGED <<reply, lookups>>
     ELSE Proceed(r, n, <<>>, FALSE)
  /\ UNCHANGED <<admissionVars, expired, closing>>

(* The body is complete: Fastify, the schema or the name policy refuses it *)
(* (n = 0), or the handler starts with n types to look up.                 *)
Body(r, n) ==
  /\ handler[r] = "receiving"
  /\ types' = [types EXCEPT ![r] = n]
  /\ IF n = 0
     THEN /\ handler' = [handler EXCEPT ![r] = "done"]
          /\ reply' = [reply EXCEPT ![r] = "INVALID_INPUT"]
          /\ UNCHANGED lookups
     ELSE Proceed(r, n, <<>>, FALSE)
  /\ UNCHANGED <<admissionVars, expired, closing>>

(* The exchange of a lookup settles: an answer, an error, or its own       *)
(* timeout of three seconds.  Its socket starts closing.                   *)
LookupEnds(r, outcome) ==
  /\ handler[r] = "running"
  /\ Proceed(r, types[r], Append(lookups[r], outcome), FALSE)
  /\ closing' = closing + 1
  /\ UNCHANGED <<admissionVars, types, expired>>

\* Mutant of Deadline: the timer only covers the first lookup.
DeadlineOnce(r) ==
  /\ handler[r] = "running"
  /\ lookups[r] = <<>>
  /\ Proceed(r, types[r], Append(lookups[r], "TIMEOUT"), TRUE)
  /\ expired' = [expired EXCEPT ![r] = TRUE]
  /\ closing' = closing + 1
  /\ UNCHANGED <<admissionVars, types>>

(* The timer of the handler fires: the signal aborts, the exchange fails,  *)
(* every later lookup fails with TIMEOUT, and the handler replies.         *)
Deadline(r) ==
  /\ handler[r] = "running"
  /\ Proceed(r, types[r], Append(lookups[r], "TIMEOUT"), TRUE)
  /\ expired' = [expired EXCEPT ![r] = TRUE]
  /\ closing' = closing + 1
  /\ UNCHANGED <<admissionVars, types>>

(* The reply has been written.                                             *)
Sent(r) ==
  /\ reply[r] # "none"
  /\ Finish(r)
  /\ UNCHANGED <<handler, types, lookups, expired, reply, closing>>

\* Mutant of Gone: the handler does not listen for 'close'.
GoneUnnoticed(r) ==
  /\ Close(r)
  /\ IF handler[r] = "running"
     THEN UNCHANGED <<handler, types, lookups>>
     ELSE /\ handler' = [handler EXCEPT ![r] = "none"]
          /\ types' = [types EXCEPT ![r] = 0]
          /\ lookups' = [lookups EXCEPT ![r] = <<>>]
  /\ expired' = [expired EXCEPT ![r] = FALSE]
  /\ reply' = [reply EXCEPT ![r] = "none"]
  /\ UNCHANGED closing

(* 'close': the slot returns; if the reply was not written, the handler's  *)
(* own listener aborts and it unwinds with nobody to reply to.             *)
Gone(r) ==
  /\ Close(r)
  /\ closing' = IF handler[r] = "running" THEN closing + 1 ELSE closing
  /\ handler' = [handler EXCEPT ![r] = "none"]
  /\ types' = [types EXCEPT ![r] = 0]
  /\ lookups' = [lookups EXCEPT ![r] = <<>>]
  /\ expired' = [expired EXCEPT ![r] = FALSE]
  /\ reply' = [reply EXCEPT ![r] = "none"]

SocketClosed ==
  /\ closing > 0
  /\ closing' = closing - 1
  /\ UNCHANGED <<admissionVars, handler, types, lookups, expired, reply>>

Clock ==
  /\ Tick
  /\ UNCHANGED <<handler, types, lookups, expired, reply, closing>>

ServiceNext ==
  \/ \E r \in Requests, s \in Sources, acceptable \in BOOLEAN : Arrive(r, s, acceptable)
  \/ \E r \in Requests :
       \/ \E n \in 0..MaxTypes : Body(r, n)
       \/ \E outcome \in Outcomes \ {"RATE_LIMITED"} : LookupEnds(r, outcome)
       \/ Deadline(r) \/ Sent(r) \/ Gone(r)
  \/ SocketClosed
  \/ Clock

ServiceSpec == ServiceInit /\ [][ServiceNext]_serviceVars

(* Timers fire and sockets close.  Fastify's requestTimeout ends a         *)
(* connection whose body never comes, its connectionTimeout one whose      *)
(* client does not read; nothing else is assumed of a client.              *)
ServiceFairness ==
  /\ \A r \in Requests :
       /\ WF_serviceVars(Deadline(r))
       /\ WF_serviceVars(handler[r] # "running" /\ Gone(r))
  /\ WF_serviceVars(SocketClosed)

FairServiceSpec == ServiceSpec /\ ServiceFairness

-----------------------------------------------------------------------------
(* Properties.                                                             *)

\* No inspection outlives its slot: whatever clients do, at most
\* ConcurrentRequests inspections run, although 'close' gives the slot back
\* while the handler still waits (app.ts:67, 121-123, 147-151).
HandlersHoldSlots ==
  \A r \in Requests : handler[r] \in {"receiving", "running"} => r \in Holding

\* Inspections that end early leave sockets behind, and those count: exchanges
\* under way and sockets closing never exceed the cap together
\* (limits.ts:12-23, network.ts:128-130).
OutboundWithinCap == InUse <= OutboundConnections

\* A reply says what was observed, of every type that was asked for.  If a lookup
\* brought anything, it is the report, "result" when all were answered and the
\* deadline did not pass and "partial" when not, or LIMIT_EXCEEDED for a report
\* that is too long.  If none did, the first lookup decides, unless the deadline
\* has passed: then it is TIMEOUT, whatever failed before.  INVALID_INPUT is said
\* to a request that asks for nothing, and to no other (dns.ts:128-140,
\* errors.ts:33-37, app.ts:123, 130-146).
RepliesAreTruthful ==
  \A r \in Requests :
    LET os == lookups[r]
        seen == {i \in DOMAIN os : os[i] \notin Failures}
        complete == ~expired[r] /\ \A i \in DOMAIN os : os[i] = "answer"
    IN reply[r] # "none" =>
         /\ Len(os) = types[r]
         /\ reply[r] = "INVALID_INPUT" <=> types[r] = 0
         /\ types[r] > 0 =>
              reply[r] \in IF seen # {}
                          THEN {"LIMIT_EXCEEDED", IF complete THEN "result" ELSE "partial"}
                          ELSE {IF expired[r] THEN "TIMEOUT" ELSE os[1]}

\* An open response is waiting for its reply only while something will send it:
\* no path through the hooks and the handler forgets to reply (app.ts:54-77,
\* 115-152).
NobodyForgotten ==
  \A r \in Requests :
    response[r] = "open" /\ reply[r] = "none" => handler[r] \in {"receiving", "running"}

\* Every admission slot comes back (limits.ts:64-70, app.ts:67, 78).
EverySlotReturns ==
  \A r \in Requests : r \in Holding ~> r \notin Holding
=============================================================================
