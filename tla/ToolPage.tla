------------------------------ MODULE ToolPage ------------------------------
(***************************************************************************)
(* What the two hooks that run tools, useLocalTool (ui.tsx) and            *)
(* useLiveRequest (LiveTools.tsx), have in common, and the page that holds *)
(* their components (ToolWorkspace.tsx).                                   *)
(*                                                                         *)
(* React and the browser are external.  What a click sets is rendered      *)
(* before the next event; what is set after an await or by a page event is *)
(* rendered by a task of its own, which a click may precede.               *)
(***************************************************************************)
EXTENDS Naturals

CONSTANTS MaxCalls      \* bound on the calls of one page

ASSUME MaxCallsAssumption == MaxCalls \in Nat \ {0}

Calls == 1..MaxCalls
None == 0

VARIABLES
    hidden,     \* the page is in the back/forward cache
    remountDue, \* setVersion() was called and its render has not come yet
    started,    \* calls are numbered in the order they start
    pending,    \* calls whose promise has not settled
    aborted,    \* calls whose controller was aborted
    active,     \* active.current: the call of that controller, or None
    screen,     \* the state of the hook
    busyShown   \* screen.busy as last rendered: what disables the buttons

page == <<hidden, remountDue>>
calls == <<started, pending, aborted, active>>
pageVars == <<page, calls, screen, busyShown>>

PageInit(blank) ==
    /\ hidden = FALSE
    /\ remountDue = TRUE        \* the effect of the first render
    /\ started = 0
    /\ pending = {} /\ aborted = {}
    /\ active = None
    /\ screen = blank /\ busyShown = FALSE

\* active.current?.abort(); active.current = null.
Stop ==
    /\ aborted' = IF active = None THEN aborted ELSE aborted \cup {active}
    /\ active' = None

\* The forms are disabled while the rendered state is busy, and run() ignores a
\* submission while there is an active call.
CanSubmit == ~hidden /\ ~busyShown /\ active = None

Begin ==
    /\ CanSubmit
    /\ started < MaxCalls
    /\ started' = started + 1
    /\ active' = started + 1
    /\ pending' = pending \cup {started + 1}
    /\ busyShown' = TRUE
    /\ UNCHANGED <<page, aborted>>

\* cancel(), from a button that is enabled while the rendered state is busy.
CancelClicked ==
    /\ ~hidden /\ busyShown
    /\ Stop
    /\ busyShown' = FALSE
    /\ UNCHANGED <<page, started, pending>>

\* The component is unmounted and a fresh one takes its place.
Remounted(blank) ==
    /\ remountDue' = FALSE
    /\ Stop
    /\ screen' = blank /\ busyShown' = FALSE
    /\ UNCHANGED <<hidden, started, pending>>

RenderState ==
    /\ ~remountDue
    /\ busyShown' = screen.busy
    /\ UNCHANGED <<page, calls, screen>>

\* pagehide: the hook stops its call, the page asks for a fresh component.
Hide ==
    /\ ~hidden
    /\ hidden' = TRUE /\ remountDue' = TRUE
    /\ Stop
    /\ UNCHANGED <<started, pending, screen, busyShown>>

\* pageshow with event.persisted.
Restore ==
    /\ hidden
    /\ hidden' = FALSE /\ remountDue' = TRUE
    /\ UNCHANGED <<calls, screen, busyShown>>

-----------------------------------------------------------------------------
(* Properties of both hooks                                                *)

\* A call is awaited, and then the form is locked for it, or it has been told to
\* stop: no worker goes on computing, and no connection stays open, for nobody,
\* and the finally block of an older call neither frees the form of a newer one
\* nor leaves it locked.  The form of a hidden or restored page, whose component
\* is about to go, may be out of step.
AwaitedOrAborted ==
    /\ \A c \in pending : c = active \/ c \in aborted
    /\ remountDue \/ (screen.busy <=> active # None)

=============================================================================
