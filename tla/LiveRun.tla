------------------------------- MODULE LiveRun -------------------------------
(***************************************************************************)
(* The hook of the live tools (useLiveRequest in LiveTools.tsx) and the    *)
(* call it makes of the diagnostics API (requestLive in api-client.ts).    *)
(* fetch() and the body's reader are external: headers and chunks come     *)
(* when they come, or never, and an aborted call rejects.                  *)
(***************************************************************************)
EXTENDS ToolPage

CONSTANTS MaxBytes      \* LIMITS.apiResponseBytes, in chunks

VARIABLES
    phase,      \* of a call: "none", "sent", "reading", "discarding", "ended"
    read,       \* chunks read of the body
    timers,     \* calls whose deadline timer is armed
    timedOut    \* calls whose deadline timer has fired

vars == <<pageVars, phase, read, timers, timedOut>>

Blank == [report |-> None, error |-> "none", status |-> "ready", busy |-> FALSE]

Unsent ==
    /\ phase = [c \in Calls |-> "none"] /\ read = [c \in Calls |-> 0]
    /\ timers = {} /\ timedOut = {}

Init == PageInit(Blank) /\ Unsent

-----------------------------------------------------------------------------
(* The user                                                                *)

Run ==
    /\ Begin
    /\ screen' = [report |-> None, error |-> "none", status |-> "waiting", busy |-> TRUE]
    /\ phase' = [phase EXCEPT ![started'] = "sent"]
    /\ timers' = timers \cup {started'}
    /\ UNCHANGED <<read, timedOut>>

Cancel ==
    /\ CancelClicked
    /\ screen' = [screen EXCEPT !.busy = FALSE, !.status = "cancelled"]
    /\ UNCHANGED <<phase, read, timers, timedOut>>

Reset == ~hidden /\ Remounted(Blank) /\ UNCHANGED <<phase, read, timers, timedOut>>

-----------------------------------------------------------------------------
(* The timer of a call, which outlives the page's interest in it           *)

\* Mutants of TimerFires: it aborts whatever call is active; or none.
TimerFiresOnActive(c) ==
    /\ c \in timers
    /\ timers' = timers \ {c}
    /\ timedOut' = timedOut \cup {c}
    /\ aborted' = IF active = None THEN aborted ELSE aborted \cup {active}
    /\ UNCHANGED <<page, started, pending, active, screen, busyShown, phase, read>>

TimerFiresUnheard(c) ==
    /\ c \in timers
    /\ timers' = timers \ {c}
    /\ timedOut' = timedOut \cup {c}
    /\ UNCHANGED <<pageVars, phase, read>>

TimerFires(c) ==
    /\ c \in timers
    /\ timers' = timers \ {c}
    /\ timedOut' = timedOut \cup {c}
    /\ aborted' = aborted \cup {c}
    /\ UNCHANGED <<page, started, pending, active, screen, busyShown, phase, read>>

-----------------------------------------------------------------------------
(* The call.  It ends with a report, or with a failure of the request      *)
(* ("refusal", a RequestFailure) or of the connection ("network").         *)

Settle(c, answer) ==
    /\ c \in pending
    /\ pending' = pending \ {c}
    /\ phase' = [phase EXCEPT ![c] = "ended"]
    /\ timers' = timers \ {c}
    /\ IF active = c
       THEN screen' = answer /\ active' = None
       ELSE UNCHANGED <<screen, active>>
    /\ UNCHANGED <<page, started, aborted, busyShown, read, timedOut>>

Fails(c, why) ==
    Settle(c, [screen EXCEPT !.error = IF c \in timedOut THEN "deadline" ELSE why,
                             !.status = "failed", !.busy = FALSE])

\* The input is refused before anything is sent, or the reply by its type or its
\* missing body; or the connection fails, which is what an abort looks like.
NotAnswered(c) ==
    /\ phase[c] = "sent"
    /\ \/ c \notin aborted /\ Fails(c, "refusal")
       \/ Fails(c, "network")

\* The reply is too long by its own account: its body is cancelled first.
Headers(c) ==
    /\ phase[c] = "sent" /\ c \notin aborted
    /\ phase' = [phase EXCEPT ![c] = "reading"] \/ phase' = [phase EXCEPT ![c] = "discarding"]
    /\ UNCHANGED <<pageVars, read, timers, timedOut>>

Chunk(c) ==
    /\ phase[c] = "reading" /\ c \notin aborted
    /\ read' = [read EXCEPT ![c] = @ + 1]
    /\ phase' = [phase EXCEPT ![c] = IF read'[c] > MaxBytes THEN "discarding" ELSE @]
    /\ UNCHANGED <<pageVars, timers, timedOut>>

\* The body cannot be read to its end.
Broken(c) == phase[c] = "reading" /\ Fails(c, "network")

Discarded(c) == phase[c] = "discarding" /\ Fails(c, "refusal")

\* The body is whole: it is a report that agrees with the HTTP status, or refused.
Ends(c) ==
    /\ phase[c] = "reading" /\ c \notin aborted
    /\ \/ Settle(c, [screen EXCEPT !.report = c, !.status = "received", !.busy = FALSE])
       \/ Fails(c, "refusal")

-----------------------------------------------------------------------------

Render ==
    /\ \/ remountDue /\ Remounted(Blank)
       \/ RenderState
    /\ UNCHANGED <<phase, read, timers, timedOut>>

PageEvent == (Hide \/ Restore) /\ UNCHANGED <<phase, read, timers, timedOut>>

Next ==
    \/ Run \/ Cancel \/ Reset \/ Render \/ PageEvent
    \/ \E c \in Calls :
          \/ TimerFires(c) \/ NotAnswered(c) \/ Headers(c) \/ Chunk(c)
          \/ Broken(c) \/ Discarded(c) \/ Ends(c)

Spec == Init /\ [][Next]_vars

-----------------------------------------------------------------------------
(* Properties                                                              *)

\* The screen is true of the last request: a report answers it, was not withdrawn
\* and is no longer than the cap whatever its headers said; "Request deadline
\* exceeded" is said only when its deadline passed; report and error exclude each
\* other.  A late answer never stands under another target's name.
ScreenIsTrue ==
    /\ screen.report # None => /\ screen.report = started
                              /\ started \notin aborted
                              /\ read[started] <= MaxBytes
                              /\ screen.error = "none"
    /\ screen.error = "deadline" => started \in timedOut
    /\ screen.status = "received" => screen.report # None

\* A request the user still waits for is only ever aborted by its own deadline,
\* never by the timer of an earlier one that was cancelled.
OwnTimerOnly == active \in aborted => active \in timedOut

=============================================================================
