------------------------------ MODULE ToolPages ------------------------------
(***************************************************************************)
(* A page of the workspace: ToolWorkspace shows the component of its tool, *)
(* a local one (LocalRun) or a live one (LiveRun).                         *)
(***************************************************************************)
EXTENDS ToolPage

CONSTANTS MaxBytes      \* LIMITS.apiResponseBytes, in chunks

ASSUME MaxBytesAssumption == MaxBytes \in Nat

VARIABLES tool, file, phase, read, timers, timedOut

liveVars == <<phase, read, timers, timedOut>>
vars == <<pageVars, tool, file, liveVars>>

Local == INSTANCE LocalRun
Live == INSTANCE LiveRun

Init ==
    \/ tool = "local" /\ Local!Init /\ Live!Unsent
    \/ tool = "live" /\ Live!Init /\ file = "text"

LocalStep == tool = "local" /\ Local!Next /\ UNCHANGED <<tool, liveVars>>
LiveStep == tool = "live" /\ Live!Next /\ UNCHANGED <<tool, file>>

Next == LocalStep \/ LiveStep

\* A visible page renders and runs its timers, and a request that was aborted or
\* is being discarded rejects.  Nothing is assumed of the service or the network,
\* nor of the engine of the local tools.
Shown(action) == tool = "live" /\ ~hidden /\ action /\ UNCHANGED <<tool, file>>

Fairness ==
    /\ WF_vars(Shown(Live!Render))
    /\ \A c \in Calls :
          /\ WF_vars(Shown(Live!TimerFires(c)))
          /\ WF_vars(Shown(c \in aborted /\ (Live!NotAnswered(c) \/ Live!Broken(c))))
          /\ WF_vars(Shown(Live!Discarded(c)))

Spec == Init /\ [][Next]_vars /\ Fairness

-----------------------------------------------------------------------------
(* Properties                                                              *)

\* What each of the two hooks may show (ui.tsx:59-99, LiveTools.tsx:12-45).
ScreenIsTrue == IF tool = "local" THEN Local!ScreenIsTrue ELSE Live!ScreenIsTrue
OwnTimerOnly == tool = "live" => Live!OwnTimerOnly

\* A visible page does not stay busy with a request: the form is freed when the
\* service never answers (LiveTools.tsx:22-40).
RequestsEnd == tool = "live" /\ busyShown ~> ~busyShown \/ hidden

=============================================================================
