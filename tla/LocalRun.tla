------------------------------ MODULE LocalRun ------------------------------
(***************************************************************************)
(* The hook of the local tools (useLocalTool in ui.tsx) and the checksum   *)
(* tool, the one that runs both text and files.  The engine behind         *)
(* executeLocalTool() and hashFile() is external: a promise that settles.  *)
(***************************************************************************)
EXTENDS ToolPage, FiniteSets

VARIABLES file      \* what the checksum form holds: text, or a file of a size

vars == <<pageVars, file>>

\* data and fileData name the call they come from.
Blank == [data |-> None, fileData |-> None, error |-> "none", progress |-> None,
          status |-> "ready", busy |-> FALSE]

Init == PageInit(Blank) /\ file = "text"

-----------------------------------------------------------------------------
(* The user                                                                *)

Wiped == [screen EXCEPT !.data = None, !.fileData = None, !.error = "none",
                        !.progress = None]
Processing == [Wiped EXCEPT !.status = "processing", !.busy = TRUE]

Run == file = "text" /\ Begin /\ screen' = Processing /\ UNCHANGED file

\* The input does not pass its schema.
RunRefused ==
    /\ file = "text"
    /\ CanSubmit
    /\ screen' = [Wiped EXCEPT !.error = "input", !.status = "attention"]
    /\ UNCHANGED <<page, calls, busyShown, file>>

RunFile == file = "small" /\ Begin /\ screen' = Processing /\ UNCHANGED file

\* A file above the limit: the status line is left as it was.
RunFileRefused ==
    /\ file = "large"
    /\ CanSubmit
    /\ screen' = [Wiped EXCEPT !.error = "input"]
    /\ UNCHANGED <<page, calls, busyShown, file>>

\* Another source or another file is chosen, which calls clear().
Choose ==
    /\ ~hidden /\ ~busyShown
    /\ file' \in {"text", "small", "large"}
    /\ Stop
    /\ screen' = [Blank EXCEPT !.status = "cleared"]
    /\ UNCHANGED <<page, started, pending, busyShown>>

Cancelled == [screen EXCEPT !.busy = FALSE, !.progress = None, !.status = "cancelled"]

Cancel == CancelClicked /\ screen' = Cancelled /\ UNCHANGED file

Reset == ~hidden /\ Remounted(Blank) /\ file' = "text"

-----------------------------------------------------------------------------
(* The engine                                                              *)

Progress(c) ==
    /\ c \in pending
    /\ screen' = IF active = c THEN [screen EXCEPT !.progress = c] ELSE screen
    /\ UNCHANGED <<page, calls, busyShown, file>>

\* What the active call leaves on the screen.  The form is locked while it runs,
\* so `file' still tells run() from runFile().
Shown(c, outcome) ==
    IF outcome = "result" THEN
        [screen EXCEPT !.data = IF file = "text" THEN c ELSE None,
                       !.fileData = IF file = "text" THEN None ELSE c,
                       !.status = "complete", !.busy = FALSE]
    ELSE [screen EXCEPT !.error = "engine", !.status = outcome, !.busy = FALSE]

\* Mutants of Settle: a late answer is shown; the finally block unlocks the form
\* whoever is active.
SettleLate(c, outcome) ==
    /\ c \in pending
    /\ pending' = pending \ {c}
    /\ screen' = Shown(c, outcome)
    /\ active' = IF active = c THEN None ELSE active
    /\ UNCHANGED <<page, started, aborted, busyShown, file>>

SettleUnlocks(c, outcome) ==
    /\ c \in pending
    /\ pending' = pending \ {c}
    /\ screen' = IF active = c THEN Shown(c, outcome) ELSE [screen EXCEPT !.busy = FALSE]
    /\ active' = IF active = c THEN None ELSE active
    /\ UNCHANGED <<page, started, aborted, busyShown, file>>

\* The promise of a call settles: a result, an error result, one that does not
\* parse, or an exception.  A call that is no longer the active one, aborted or
\* not, is not looked at.
Settle(c, outcome) ==
    /\ c \in pending
    /\ pending' = pending \ {c}
    /\ IF active = c
       THEN screen' = Shown(c, outcome) /\ active' = None
       ELSE UNCHANGED <<screen, active>>
    /\ UNCHANGED <<page, started, aborted, busyShown, file>>

-----------------------------------------------------------------------------

Render ==
    \/ remountDue /\ Remounted(Blank) /\ file' = "text"
    \/ RenderState /\ UNCHANGED file

PageEvent == (Hide \/ Restore) /\ UNCHANGED file

Failures == {"incomplete", "rejected", "failed"}
Outcomes == {"result"} \cup Failures

Next ==
    \/ Run \/ RunRefused \/ RunFile \/ RunFileRefused \/ Choose \/ Cancel \/ Reset
    \/ \E c \in Calls : Progress(c) \/ \E outcome \in Outcomes : Settle(c, outcome)
    \/ Render \/ PageEvent

Spec == Init /\ [][Next]_vars

-----------------------------------------------------------------------------
(* Properties                                                              *)

\* The screen is true of the last run the user started and did not withdraw: an
\* answer or a progress report that comes after cancel, another choice, a reset
\* or pagehide never reaches it, "complete" stands over that run's result and a
\* failure over an error, and no result is ever shown beside an error.
ScreenIsTrue ==
    LET results == {screen.data, screen.fileData} \ {None}
    IN  /\ \A c \in results \cup ({screen.progress} \ {None}) :
              c = started /\ (c \notin aborted \/ remountDue)
        /\ screen.status = "complete" => results # {}
        /\ screen.status \in Failures => screen.error = "engine"
        /\ results # {} => screen.error = "none" /\ Cardinality(results) = 1

\* cancel() tells the user "Cancelled. No result retained for this run."
\* (ui.tsx:75).
CancelRetainsNothing ==
    screen.status = "cancelled" => screen.data = None /\ screen.fileData = None

=============================================================================
