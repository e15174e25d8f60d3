----------------------------- MODULE PagesProofs -----------------------------
(***************************************************************************)
(* Proofs about ToolPages: what the page shows is true of its last call    *)
(* however many calls are made and however long the replies are.           *)
(*                                                                         *)
(* PageInv is about what both hooks share, LocalInv and LiveInv about the  *)
(* screen of each.  A move of the page is proved once, for both hooks.     *)
(***************************************************************************)
EXTENDS ToolPages, FiniteSetTheorems, TLAPS

Made == 1..started

PageTypeOK ==
  /\ hidden \in BOOLEAN /\ remountDue \in BOOLEAN /\ busyShown \in BOOLEAN
  /\ started \in 0..MaxCalls
  /\ pending \in SUBSET Made /\ aborted \in SUBSET Made
  /\ active \in {None} \cup Made

\* The active call is the last one made, and it is awaited.
PageInv ==
  /\ PageTypeOK
  /\ active # None => active = started /\ active \in pending
  /\ \A c \in pending : c = active \/ c \in aborted

\* The form is locked exactly while a call is active.
Locked == remountDue \/ (screen.busy <=> active # None)

LocalScreens ==
  [data : Nat, fileData : Nat, error : {"none", "input", "engine"}, progress : Nat,
   status : {"ready", "processing", "attention", "cleared", "cancelled", "complete",
             "incomplete", "rejected", "failed"},
   busy : BOOLEAN]

LocalInv ==
  /\ screen \in LocalScreens /\ file \in {"text", "small", "large"}
  /\ active \notin aborted
  /\ active # None => /\ screen.data = None /\ screen.fileData = None
                      /\ screen.error = "none" /\ screen.status = "processing"
  /\ file = "large" => active = None /\ screen.status \in {"cleared", "cancelled"}
  /\ screen.data # None \/ screen.fileData # None =>
       /\ screen.data = None \/ screen.fileData = None
       /\ screen.data \in {None, started} /\ screen.fileData \in {None, started}
       /\ started \notin aborted /\ screen.error = "none"
  /\ screen.progress # None =>
       screen.progress = started /\ (started \notin aborted \/ remountDue)
  /\ screen.status = "complete" => screen.data # None \/ screen.fileData # None
  /\ screen.status \in Local!Failures => screen.error = "engine"

LiveScreens ==
  [report : Nat, error : {"none", "deadline", "refusal", "network"},
   status : {"ready", "waiting", "cancelled", "failed", "received"}, busy : BOOLEAN]

\* A report stands for a call that is over: nobody waits for it, its timer is
\* cleared, and its body is not read any more.
LiveInv ==
  /\ screen \in LiveScreens
  /\ phase \in [Calls -> {"none", "sent", "reading", "discarding", "ended"}]
  /\ read \in [Calls -> Nat]
  /\ timers \subseteq pending
  /\ \A c \in Calls : /\ c > started => phase[c] = "none"
                      /\ phase[c] \in {"none", "sent", "reading"} => read[c] <= MaxBytes
  /\ active # None => screen.report = None /\ screen.error = "none"
  /\ active \in aborted => active \in timedOut
  /\ screen.report # None =>
       /\ screen.report = started /\ started \notin pending /\ started \notin aborted
       /\ phase[started] = "ended" /\ read[started] <= MaxBytes
       /\ screen.error = "none"
  /\ screen.error = "deadline" => started \in timedOut
  /\ screen.status = "received" => screen.report # None

PagesInv ==
  /\ tool \in {"local", "live"}
  /\ PageInv /\ Locked
  /\ tool = "local" => LocalInv
  /\ tool = "live" => LiveInv

-----------------------------------------------------------------------------
(* The moves of a page, whichever hook makes them                          *)

\* A call is made, on a form that is locked for it.
LEMMA BeginMoves ==
  ASSUME PageInv, active = None,
         started < MaxCalls, started' = started + 1, active' = started + 1,
         pending' = pending \cup {started + 1}, busyShown' = TRUE, screen'.busy = TRUE,
         UNCHANGED <<hidden, remountDue, aborted>>
  PROVE  PageInv' /\ Locked'
  <1>1. /\ started \in Nat /\ started' \in 0..MaxCalls /\ Made \subseteq Made'
        /\ started' \in Made' /\ started' # None
    BY MaxCallsAssumption DEF PageInv, PageTypeOK, Made, None
  <1>2. PageTypeOK'
    BY <1>1 DEF PageInv, PageTypeOK
  <1>3. \A c \in pending : c \in aborted
    BY DEF PageInv, PageTypeOK, Made, None
  <1>4. QED
    BY <1>1, <1>2, <1>3 DEF PageInv, Locked

\* The active call, if there is one, is told to stop and the form is freed, or the
\* component is about to go.
LEMMA StopMoves ==
  ASSUME PageInv,
         aborted' = IF active = None THEN aborted ELSE aborted \cup {active}, active' = None,
         UNCHANGED <<started, pending>>,
         hidden' \in BOOLEAN, remountDue' \in BOOLEAN, busyShown' \in BOOLEAN,
         remountDue' \/ screen'.busy = FALSE
  PROVE  PageInv' /\ Locked'
  <1>1. PageTypeOK'
    BY DEF PageInv, PageTypeOK, Made
  <1>2. QED
    BY <1>1 DEF PageInv, Locked

\* A call settles; the form is freed if it was the active one.
LEMMA SettleMoves ==
  ASSUME PageInv, Locked, NEW c \in pending, pending' = pending \ {c},
         IF active = c THEN active' = None /\ screen'.busy = FALSE
                       ELSE active' = active /\ screen'.busy = screen.busy,
         UNCHANGED <<hidden, remountDue, started, aborted, busyShown>>
  PROVE  PageInv' /\ Locked'
  <1>1. PageTypeOK'
    BY DEF PageInv, PageTypeOK, Made
  <1>2. QED
    BY <1>1 DEF PageInv, Locked

\* No call moves, but one may be told to stop.
LEMMA OtherMoves ==
  ASSUME PageInv, Locked, aborted \subseteq aborted', aborted' \subseteq Made,
         UNCHANGED <<started, pending, active>>,
         hidden' \in BOOLEAN, remountDue' \in BOOLEAN, busyShown' \in BOOLEAN,
         remountDue' \/ (remountDue' = remountDue /\ screen'.busy = screen.busy)
  PROVE  PageInv' /\ Locked'
  <1>1. PageTypeOK'
    BY DEF PageInv, PageTypeOK, Made
  <1>2. QED
    BY <1>1 DEF PageInv, Locked

-----------------------------------------------------------------------------
(* The hook of the local tools                                             *)

LEMMA LocalCallMade ==
  ASSUME PageInv, Locked, LocalInv, Local!Run \/ Local!RunFile
  PROVE  PageInv' /\ Locked' /\ LocalInv'
  <1>1. /\ screen' = Local!Processing /\ file' = file /\ file # "large"
        /\ active = None /\ started < MaxCalls
        /\ started' = started + 1 /\ active' = started + 1
        /\ pending' = pending \cup {started + 1} /\ busyShown' = TRUE
        /\ UNCHANGED <<hidden, remountDue, aborted>>
    BY DEF Local!Run, Local!RunFile, Local!Begin, Local!CanSubmit, Local!None, None, Local!page
  <1>2. /\ screen' \in LocalScreens
        /\ screen'.data = None /\ screen'.fileData = None /\ screen'.progress = None
        /\ screen'.error = "none" /\ screen'.status = "processing" /\ screen'.busy = TRUE
    BY <1>1 DEF LocalInv, LocalScreens, Local!Processing, Local!Wiped, Local!None, None
  <1>3. started' \notin aborted'
    BY <1>1 DEF PageInv, PageTypeOK, Made
  <1>4. PageInv' /\ Locked'
    BY <1>1, <1>2, BeginMoves
  <1>5. LocalInv'
    BY <1>1, <1>2, <1>3 DEF LocalInv, Local!Failures
  <1>6. QED
    BY <1>4, <1>5

\* An input is refused before any call is made.
LEMMA LocalRefused ==
  ASSUME PageInv, Locked, LocalInv, Local!RunRefused \/ Local!RunFileRefused
  PROVE  PageInv' /\ Locked' /\ LocalInv'
  <1>1. /\ active = None /\ file' = file
        /\ UNCHANGED <<hidden, remountDue, started, pending, aborted, active, busyShown>>
        /\ \/ screen' = [Local!Wiped EXCEPT !.error = "input", !.status = "attention"]
              /\ file # "large"
           \/ screen' = [Local!Wiped EXCEPT !.error = "input"] /\ file = "large"
    BY DEF Local!RunRefused, Local!RunFileRefused, Local!CanSubmit, Local!None, None,
           Local!page, Local!calls
  <1>2. /\ screen' \in LocalScreens
        /\ screen'.data = None /\ screen'.fileData = None /\ screen'.progress = None
        /\ screen'.error = "input" /\ screen'.busy = screen.busy
        /\ \/ screen'.status = "attention" /\ file # "large"
           \/ screen'.status = screen.status /\ file = "large"
    BY <1>1 DEF LocalInv, LocalScreens, Local!Wiped, Local!None, None
  <1>3. PageInv' /\ Locked'
    BY <1>1, <1>2, OtherMoves DEF PageInv, PageTypeOK
  <1>4. LocalInv'
    BY <1>1, <1>2 DEF LocalInv, Local!Failures
  <1>5. QED
    BY <1>3, <1>4

\* Choosing a source, cancelling, a reset and pagehide: what the stopped call left
\* on the screen is taken off it, or the component goes.
LEMMA LocalStopped ==
  ASSUME PageInv, Locked, LocalInv,
         \/ Local!Choose \/ Local!Cancel
         \/ Local!Remounted(Local!Blank) /\ file' = "text"
         \/ Local!Hide /\ UNCHANGED file
  PROVE  PageInv' /\ Locked' /\ LocalInv'
  <1>1. /\ aborted' = IF active = None THEN aborted ELSE aborted \cup {active}
        /\ active' = None /\ UNCHANGED <<started, pending>>
        /\ \/ /\ screen' = [Local!Blank EXCEPT !.status = "cleared"]
              /\ file' \in {"text", "small", "large"}
           \/ screen' = Local!Cancelled /\ file' = file
           \/ screen' = Local!Blank /\ file' = "text"
           \/ screen' = screen /\ remountDue' = TRUE /\ file' = file
    BY DEF Local!Choose, Local!Cancel, Local!Hide, Local!CancelClicked,
           Local!Remounted, Local!Stop, Local!None, None, Local!page
  <1>2. hidden' \in BOOLEAN /\ remountDue' \in BOOLEAN /\ busyShown' \in BOOLEAN
    BY DEF Local!Choose, Local!Cancel, Local!Hide, Local!CancelClicked,
           Local!Remounted, Local!page, PageInv, PageTypeOK
  <1>3. CASE \/ screen' = [Local!Blank EXCEPT !.status = "cleared"]
                /\ file' \in {"text", "small", "large"}
             \/ screen' = Local!Blank /\ file' = "text"
    <2>1. /\ screen' \in LocalScreens
          /\ screen'.data = None /\ screen'.fileData = None /\ screen'.progress = None
          /\ screen'.error = "none" /\ screen'.busy = FALSE
          /\ screen'.status = "cleared" \/ (screen'.status = "ready" /\ file' = "text")
      <3>1. /\ Local!Blank \in LocalScreens
            /\ Local!Blank.data = None /\ Local!Blank.fileData = None
            /\ Local!Blank.progress = None /\ Local!Blank.error = "none"
            /\ Local!Blank.busy = FALSE /\ Local!Blank.status = "ready"
        BY DEF LocalScreens, Local!Blank, Local!None, None
      <3>2. CASE screen' = [Local!Blank EXCEPT !.status = "cleared"]
        BY <3>1, <3>2 DEF LocalScreens
      <3>3. QED
        BY <1>3, <3>1, <3>2
    <2>2. None \notin aborted'
      BY <1>1 DEF PageInv, PageTypeOK, Made, None
    <2>3. PageInv' /\ Locked'
      BY <1>1, <1>2, <2>1, StopMoves
    <2>4. LocalInv'
      BY <1>1, <1>3, <2>1, <2>2 DEF LocalInv, Local!Failures
    <2>5. QED
      BY <2>3, <2>4
  <1>4. CASE \/ screen' = Local!Cancelled /\ file' = file
             \/ screen' = screen /\ remountDue' = TRUE /\ file' = file
    <2>1. /\ screen' \in LocalScreens
          /\ screen'.data = screen.data /\ screen'.fileData = screen.fileData
          /\ screen'.error = screen.error
          /\ \/ screen'.status = "cancelled" /\ screen'.progress = None /\ screen'.busy = FALSE
             \/ /\ remountDue' = TRUE /\ screen'.status = screen.status
                /\ screen'.progress = screen.progress
      BY <1>4 DEF LocalInv, LocalScreens, Local!Cancelled, Local!None, None
    <2>2. None \notin aborted' /\ started' = started
      BY <1>1 DEF PageInv, PageTypeOK, Made, None
    <2>3. screen.data # None \/ screen.fileData # None => aborted' = aborted
      BY <1>1 DEF LocalInv
    <2>4. PageInv' /\ Locked'
      BY <1>1, <1>2, <2>1, StopMoves
    <2>5. LocalInv'
      BY <1>1, <1>4, <2>1, <2>2, <2>3 DEF LocalInv, Local!Failures
    <2>6. QED
      BY <2>4, <2>5
  <1>5. QED
    BY <1>1, <1>3, <1>4

LEMMA LocalSettled ==
  ASSUME PageInv, Locked, LocalInv, NEW c \in Local!Calls,
         NEW outcome \in Local!Outcomes, Local!Settle(c, outcome)
  PROVE  PageInv' /\ Locked' /\ LocalInv'
  <1>1. /\ c \in pending /\ pending' = pending \ {c}
        /\ IF active = c THEN screen' = Local!Shown(c, outcome) /\ active' = None
                         ELSE screen' = screen /\ active' = active
        /\ UNCHANGED <<hidden, remountDue, started, aborted, busyShown, file>>
    BY DEF Local!Settle, Local!page, Local!None, None
  <1>2. CASE active = c
    <2>1. /\ c = started /\ c \in Nat /\ c # None /\ c \notin aborted /\ file # "large"
          /\ screen.data = None /\ screen.fileData = None /\ screen.error = "none"
      BY <1>1, <1>2 DEF PageInv, PageTypeOK, Made, None, LocalInv
    <2>2. /\ screen' \in LocalScreens
          /\ screen'.progress = screen.progress /\ screen'.busy = FALSE
          /\ \/ /\ screen'.status = "complete" /\ screen'.error = "none"
                /\ \/ screen'.data = c /\ screen'.fileData = None
                   \/ screen'.data = None /\ screen'.fileData = c
             \/ /\ screen'.status \in Local!Failures /\ screen'.error = "engine"
                /\ screen'.data = None /\ screen'.fileData = None
      <3>1. screen' = Local!Shown(c, outcome)
        BY <1>1, <1>2
      <3>2. CASE outcome = "result"
        BY <2>1, <3>1, <3>2 DEF Local!Shown, LocalInv, LocalScreens, Local!None, None
      <3>3. CASE outcome \in Local!Failures
        BY <2>1, <3>1, <3>3 DEF Local!Shown, LocalInv, LocalScreens, Local!Failures
      <3>4. QED
        BY <3>2, <3>3 DEF Local!Outcomes
    <2>3. PageInv' /\ Locked'
      BY <1>1, <1>2, <2>2, SettleMoves
    <2>4. active' = None /\ None \notin aborted'
      BY <1>1, <1>2 DEF PageInv, PageTypeOK, Made, None
    <2>5. LocalInv'
      BY <1>1, <2>1, <2>2, <2>4 DEF LocalInv, Local!Failures
    <2>6. QED
      BY <2>3, <2>5
  <1>3. CASE active # c
    <2>1. PageInv' /\ Locked'
      BY <1>1, <1>3, SettleMoves
    <2>2. LocalInv'
      BY <1>1, <1>3 DEF LocalInv
    <2>3. QED
      BY <2>1, <2>2
  <1>4. QED
    BY <1>2, <1>3

LEMMA LocalProgressed ==
  ASSUME PageInv, Locked, LocalInv, NEW c \in Local!Calls, Local!Progress(c)
  PROVE  PageInv' /\ Locked' /\ LocalInv'
  <1>1. /\ c \in pending
        /\ screen' = IF active = c THEN [screen EXCEPT !.progress = c] ELSE screen
        /\ UNCHANGED <<hidden, remountDue, started, pending, aborted, active, busyShown, file>>
    BY DEF Local!Progress, Local!page, Local!calls
  <1>2. active = c => c = started /\ c \in Nat /\ started \notin aborted
    BY <1>1 DEF PageInv, PageTypeOK, Made, None, LocalInv
  <1>3. /\ screen' \in LocalScreens
        /\ screen'.data = screen.data /\ screen'.fileData = screen.fileData
        /\ screen'.error = screen.error /\ screen'.status = screen.status
        /\ screen'.busy = screen.busy
        /\ \/ screen'.progress = screen.progress
           \/ screen'.progress = started /\ started \notin aborted
    BY <1>1, <1>2 DEF LocalInv, LocalScreens
  <1>4. PageInv' /\ Locked'
    BY <1>1, <1>3, OtherMoves DEF PageInv, PageTypeOK
  <1>5. LocalInv'
    BY <1>1, <1>3 DEF LocalInv
  <1>6. QED
    BY <1>4, <1>5

LEMMA LocalRendered ==
  ASSUME PageInv, Locked, LocalInv,
         Local!RenderState \/ Local!Restore, UNCHANGED file
  PROVE  PageInv' /\ Locked' /\ LocalInv'
  <1>1. /\ UNCHANGED <<started, pending, aborted, active, screen, file>>
        /\ hidden' \in BOOLEAN /\ remountDue' \in BOOLEAN
        /\ remountDue' = remountDue \/ remountDue'
    BY DEF Local!RenderState, Local!Restore, Local!page, Local!calls, PageInv, PageTypeOK
  <1>2. busyShown' \in BOOLEAN
    BY DEF Local!RenderState, Local!Restore, PageInv, PageTypeOK, LocalInv, LocalScreens
  <1>3. PageInv' /\ Locked'
    BY <1>1, <1>2, OtherMoves DEF PageInv, PageTypeOK
  <1>4. LocalInv'
    BY <1>1 DEF LocalInv
  <1>5. QED
    BY <1>3, <1>4

LEMMA LocalKeeps ==
  ASSUME PageInv, Locked, LocalInv, Local!Next
  PROVE  PageInv' /\ Locked' /\ LocalInv'
  <1>1. ASSUME NEW c \in Local!Calls, NEW outcome \in Local!Outcomes, Local!Settle(c, outcome)
        PROVE  PageInv' /\ Locked' /\ LocalInv'
    BY <1>1, LocalSettled
  <1>2. ASSUME NEW c \in Local!Calls, Local!Progress(c)
        PROVE  PageInv' /\ Locked' /\ LocalInv'
    BY <1>2, LocalProgressed
  <1>3. CASE Local!Render \/ Local!PageEvent
    BY <1>3, LocalRendered, LocalStopped DEF Local!Render, Local!PageEvent
  <1>4. QED
    BY <1>1, <1>2, <1>3, LocalCallMade, LocalRefused, LocalStopped DEF Local!Next, Local!Reset

-----------------------------------------------------------------------------
(* The hook of the live tools                                              *)

LEMMA LiveCallMade ==
  ASSUME PageInv, Locked, LiveInv, Live!Run
  PROVE  PageInv' /\ Locked' /\ LiveInv'
  <1>1. /\ screen' = [report |-> Live!None, error |-> "none", status |-> "waiting", busy |-> TRUE]
        /\ active = None /\ started < MaxCalls
        /\ started' = started + 1 /\ active' = started + 1
        /\ pending' = pending \cup {started + 1} /\ busyShown' = TRUE
        /\ phase' = [phase EXCEPT ![started + 1] = "sent"]
        /\ timers' = timers \cup {started + 1}
        /\ UNCHANGED <<hidden, remountDue, aborted, read, timedOut>>
    BY DEF Live!Run, Live!Begin, Live!CanSubmit, Live!None, None, Live!page
  <1>2. /\ screen' \in LiveScreens /\ screen'.report = None /\ screen'.error = "none"
        /\ screen'.status = "waiting" /\ screen'.busy = TRUE
    BY <1>1 DEF LiveScreens, Live!None, None
  <1>3. /\ started + 1 \in Calls /\ started \in Nat
        /\ started + 1 \notin aborted'
    BY <1>1, MaxCallsAssumption DEF PageInv, PageTypeOK, Made, Calls
  <1>4. PageInv' /\ Locked'
    BY <1>1, <1>2, BeginMoves
  <1>5. ASSUME NEW c \in Calls
        PROVE  /\ c > started' => phase'[c] = "none"
               /\ phase'[c] \in {"none", "sent", "reading"} => read'[c] <= MaxBytes
    <2>1. c \in Nat
      BY DEF Calls
    <2>2. CASE c = started + 1
      <3>1. phase[c] = "none"
        BY <1>3, <2>2 DEF LiveInv
      <3>2. QED
        BY <1>1, <1>3, <2>2, <3>1 DEF LiveInv
    <2>3. CASE c # started + 1
      <3>1. phase'[c] = phase[c]
        BY <1>1, <2>3 DEF LiveInv
      <3>2. c > started' => c > started
        BY <1>1, <1>3, <2>1
      <3>3. QED
        BY <1>1, <3>1, <3>2 DEF LiveInv
    <2>4. QED
      BY <2>2, <2>3
  <1>6. LiveInv'
    BY <1>1, <1>2, <1>3, <1>5 DEF LiveInv
  <1>7. QED
    BY <1>4, <1>6

LEMMA LiveStopped ==
  ASSUME PageInv, Locked, LiveInv,
         \/ Live!Cancel
         \/ Live!Remounted(Live!Blank) /\ UNCHANGED <<phase, read, timers, timedOut>>
         \/ Live!Hide /\ UNCHANGED <<phase, read, timers, timedOut>>
  PROVE  PageInv' /\ Locked' /\ LiveInv'
  <1>1. /\ aborted' = IF active = None THEN aborted ELSE aborted \cup {active}
        /\ active' = None /\ UNCHANGED <<started, pending, phase, read, timers, timedOut>>
        /\ \/ screen' = [screen EXCEPT !.busy = FALSE, !.status = "cancelled"]
           \/ screen' = Live!Blank
           \/ screen' = screen /\ remountDue' = TRUE
    BY DEF Live!Cancel, Live!Hide, Live!CancelClicked, Live!Remounted, Live!Stop,
           Live!None, None, Live!page
  <1>2. hidden' \in BOOLEAN /\ remountDue' \in BOOLEAN /\ busyShown' \in BOOLEAN
    BY DEF Live!Cancel, Live!Hide, Live!CancelClicked, Live!Remounted, Live!page,
           PageInv, PageTypeOK
  <1>3. /\ screen' \in LiveScreens
        /\ screen'.busy = FALSE \/ remountDue'
        /\ \/ screen'.report = screen.report /\ screen'.error = screen.error
              /\ screen'.status \in {screen.status, "cancelled"}
           \/ screen'.report = None /\ screen'.error = "none" /\ screen'.status = "ready"
    <2>1. CASE screen' = Live!Blank
      BY <2>1 DEF LiveScreens, Live!Blank, Live!None, None
    <2>2. CASE screen' = [screen EXCEPT !.busy = FALSE, !.status = "cancelled"]
      BY <2>2 DEF LiveInv, LiveScreens
    <2>3. CASE screen' = screen /\ remountDue' = TRUE
      BY <2>3 DEF LiveInv
    <2>4. QED
      BY <1>1, <2>1, <2>2, <2>3
  <1>4. None \notin aborted'
    BY <1>1 DEF PageInv, PageTypeOK, Made, None
  <1>5. screen.report # None => aborted' = aborted
    BY <1>1 DEF LiveInv
  <1>6. PageInv' /\ Locked'
    BY <1>1, <1>2, <1>3, StopMoves
  <1>7. LiveInv'
    BY <1>1, <1>3, <1>4, <1>5 DEF LiveInv
  <1>8. QED
    BY <1>6, <1>7

LEMMA LiveTimerFired ==
  ASSUME PageInv, Locked, LiveInv, NEW c \in Live!Calls, Live!TimerFires(c)
  PROVE  PageInv' /\ Locked' /\ LiveInv'
  <1>1. /\ c \in timers /\ c \in pending /\ timers' = timers \ {c}
        /\ timedOut' = timedOut \cup {c} /\ aborted' = aborted \cup {c}
        /\ UNCHANGED <<hidden, remountDue, started, pending, active, screen, busyShown, phase, read>>
    BY DEF Live!TimerFires, Live!page, LiveInv
  <1>2. aborted' \subseteq Made
    BY <1>1 DEF PageInv, PageTypeOK
  <1>3. PageInv' /\ Locked'
    BY <1>1, <1>2, OtherMoves DEF PageInv, PageTypeOK
  <1>4. LiveInv'
    BY <1>1 DEF LiveInv
  <1>5. QED
    BY <1>3, <1>4

\* A call ends.  What is shown of it, if it is the active one, is a report that was
\* read within the cap, or an error.
LEMMA LiveSettled ==
  ASSUME PageInv, Locked, LiveInv, NEW c \in Live!Calls, NEW answer, Live!Settle(c, answer),
         active = c => /\ answer \in LiveScreens /\ answer.busy = FALSE
                       /\ \/ /\ answer.report = c /\ answer.error = "none"
                             /\ answer.status = "received" /\ phase[c] = "reading" /\ c \notin aborted
                          \/ /\ answer.report = None /\ answer.status = "failed"
                             /\ answer.error = "deadline" => c \in timedOut
  PROVE  PageInv' /\ Locked' /\ LiveInv'
  <1>1. /\ c \in pending /\ pending' = pending \ {c}
        /\ phase' = [phase EXCEPT ![c] = "ended"] /\ timers' = timers \ {c}
        /\ IF active = c THEN screen' = answer /\ active' = None
                         ELSE screen' = screen /\ active' = active
        /\ UNCHANGED <<hidden, remountDue, started, aborted, busyShown, read, timedOut>>
    BY DEF Live!Settle, Live!page, Live!None, None
  <1>2. /\ c \in Calls /\ phase'[c] = "ended"
        /\ \A k \in Calls \ {c} : phase'[k] = phase[k]
        /\ phase' \in [Calls -> {"none", "sent", "reading", "discarding", "ended"}]
    BY <1>1 DEF LiveInv, Live!Calls, Calls
  <1>3. \A k \in Calls : /\ k > started => phase'[k] = "none"
                         /\ phase'[k] \in {"none", "sent", "reading"} => read'[k] <= MaxBytes
    <2>1. c <= started /\ c \in Nat /\ started \in Nat
      BY <1>1 DEF PageInv, PageTypeOK, Made
    <2>2. QED
      BY <1>1, <1>2, <2>1 DEF LiveInv
  <1>4. timers' \subseteq pending'
    BY <1>1 DEF LiveInv
  <1>5. PageInv' /\ Locked'
    BY <1>1, SettleMoves
  <1>6. CASE active = c
    <2>1. c = started /\ c # None /\ active' = None /\ None \notin aborted'
      BY <1>1, <1>6 DEF PageInv, PageTypeOK, Made, None
    <2>2. phase[c] = "reading" => read[c] <= MaxBytes
      BY <1>2 DEF LiveInv
    <2>3. LiveInv'
      BY <1>1, <1>2, <1>3, <1>4, <1>6, <2>1, <2>2 DEF LiveInv
    <2>4. QED
      BY <1>5, <2>3
  <1>7. CASE active # c
    <2>1. screen.report # None => phase'[started] = "ended"
      <3>1. ASSUME screen.report # None  PROVE started \in Calls
        BY <3>1, MaxCallsAssumption DEF LiveInv, LiveScreens, PageInv, PageTypeOK, Calls, None
      <3>2. QED
        BY <1>2, <3>1 DEF LiveInv
    <2>2. LiveInv'
      BY <1>1, <1>2, <1>3, <1>4, <1>7, <2>1 DEF LiveInv
    <2>3. QED
      BY <1>5, <2>2
  <1>8. QED
    BY <1>6, <1>7

LEMMA LiveFailed ==
  ASSUME PageInv, Locked, LiveInv, NEW c \in Live!Calls, NEW why \in {"refusal", "network"},
         Live!Fails(c, why)
  PROVE  PageInv' /\ Locked' /\ LiveInv'
  <1> DEFINE answer == [screen EXCEPT !.error = IF c \in timedOut THEN "deadline" ELSE why,
                                      !.status = "failed", !.busy = FALSE]
  <1>1. Live!Settle(c, answer)
    BY DEF Live!Fails
  <1>2. /\ answer \in LiveScreens /\ answer.busy = FALSE /\ answer.report = screen.report
        /\ answer.status = "failed" /\ (answer.error = "deadline" => c \in timedOut)
    BY DEF LiveInv, LiveScreens
  <1>3. active = c => screen.report = None
    BY <1>1 DEF Live!Settle, LiveInv, PageInv, PageTypeOK, Made, None
  <1> HIDE DEF answer
  <1>4. QED
    BY <1>1, <1>2, <1>3, LiveSettled

\* The service answers, and the body comes in chunks.
LEMMA LiveReceived ==
  ASSUME PageInv, Locked, LiveInv, NEW c \in Live!Calls, Live!Headers(c) \/ Live!Chunk(c)
  PROVE  PageInv' /\ Locked' /\ LiveInv'
  <1>1. /\ phase[c] \in {"sent", "reading"} /\ c \in Calls
        /\ UNCHANGED <<hidden, remountDue, started, pending, aborted, active, screen, busyShown,
                       timers, timedOut>>
    BY DEF Live!Headers, Live!Chunk, Live!pageVars, Live!page, Live!calls, Live!Calls, Calls
  <1>2. /\ phase' \in [Calls -> {"none", "sent", "reading", "discarding", "ended"}]
        /\ read' \in [Calls -> Nat]
        /\ \A k \in Calls \ {c} : phase'[k] = phase[k] /\ read'[k] = read[k]
        /\ phase'[c] \in {"reading", "discarding"}
        /\ phase'[c] = "reading" => read'[c] <= MaxBytes
    <2>1. CASE Live!Headers(c)
      BY <1>1, <2>1 DEF Live!Headers, LiveInv
    <2>2. CASE Live!Chunk(c)
      <3>1. /\ read' = [read EXCEPT ![c] = @ + 1]
            /\ phase' = [phase EXCEPT ![c] = IF read'[c] > MaxBytes THEN "discarding" ELSE @]
            /\ phase[c] = "reading"
        BY <2>2 DEF Live!Chunk
      <3>2. read[c] + 1 \in Nat /\ read'[c] = read[c] + 1
        BY <1>1, <3>1 DEF LiveInv
      <3>3. read' \in [Calls -> Nat] /\ \A k \in Calls \ {c} : read'[k] = read[k]
        BY <3>1, <3>2 DEF LiveInv
      <3>4. CASE read'[c] > MaxBytes
        BY <1>1, <3>1, <3>3, <3>4 DEF LiveInv
      <3>5. CASE ~(read'[c] > MaxBytes)
        BY <1>1, <3>1, <3>2, <3>3, <3>5, MaxBytesAssumption DEF LiveInv
      <3>6. QED
        BY <3>4, <3>5
    <2>3. QED
      BY <2>1, <2>2
  <1>3. c \in Nat /\ started \in Nat /\ ~(c > started)
    BY <1>1 DEF LiveInv, Calls, PageInv, PageTypeOK
  <1>4. screen.report # None => started # c /\ started \in Calls
    BY <1>1, MaxCallsAssumption
       DEF LiveInv, LiveScreens, PageInv, PageTypeOK, Calls, None
  <1>5. \A k \in Calls : /\ k > started' => phase'[k] = "none"
                         /\ phase'[k] \in {"none", "sent", "reading"} => read'[k] <= MaxBytes
    BY <1>1, <1>2, <1>3 DEF LiveInv
  <1>6. PageInv' /\ Locked'
    BY <1>1, OtherMoves DEF PageInv, PageTypeOK
  <1>7. LiveInv'
    BY <1>1, <1>2, <1>4, <1>5 DEF LiveInv
  <1>8. QED
    BY <1>6, <1>7

LEMMA LiveRendered ==
  ASSUME PageInv, Locked, LiveInv, Live!RenderState \/ Live!Restore,
         UNCHANGED <<phase, read, timers, timedOut>>
  PROVE  PageInv' /\ Locked' /\ LiveInv'
  <1>1. /\ UNCHANGED <<started, pending, aborted, active, screen>>
        /\ hidden' \in BOOLEAN /\ remountDue' \in BOOLEAN
        /\ remountDue' = remountDue \/ remountDue'
    BY DEF Live!RenderState, Live!Restore, Live!page, Live!calls, PageInv, PageTypeOK
  <1>2. busyShown' \in BOOLEAN
    BY DEF Live!RenderState, Live!Restore, PageInv, PageTypeOK, LiveInv, LiveScreens
  <1>3. PageInv' /\ Locked'
    BY <1>1, <1>2, OtherMoves DEF PageInv, PageTypeOK
  <1>4. LiveInv'
    BY <1>1 DEF LiveInv
  <1>5. QED
    BY <1>3, <1>4

LEMMA LiveKeeps ==
  ASSUME PageInv, Locked, LiveInv, Live!Next
  PROVE  PageInv' /\ Locked' /\ LiveInv'
  <1>1. ASSUME NEW c \in Live!Calls,
               Live!NotAnswered(c) \/ Live!Broken(c) \/ Live!Discarded(c) \/ Live!Ends(c)
        PROVE  PageInv' /\ Locked' /\ LiveInv'
    <2>1. CASE Live!Fails(c, "refusal") \/ Live!Fails(c, "network")
      BY <2>1, LiveFailed
    <2> DEFINE answer == [screen EXCEPT !.report = c, !.status = "received", !.busy = FALSE]
    <2>2. CASE Live!Settle(c, answer) /\ phase[c] = "reading" /\ c \notin aborted
      <3>0. c \in Nat
        BY DEF Live!Calls
      <3>1. /\ answer \in LiveScreens /\ answer.busy = FALSE
            /\ answer.report = c /\ answer.status = "received" /\ answer.error = screen.error
        BY <3>0 DEF LiveInv, LiveScreens
      <3>2. active = c => screen.error = "none"
        BY <2>2 DEF Live!Settle, LiveInv, PageInv, PageTypeOK, Made, None
      <3> HIDE DEF answer
      <3>3. QED
        BY <2>2, <3>1, <3>2, LiveSettled
    <2>3. QED
      BY <1>1, <2>1, <2>2 DEF Live!NotAnswered, Live!Broken, Live!Discarded, Live!Ends
  <1>2. CASE Live!Render \/ Live!PageEvent \/ Live!Reset
    BY <1>2, LiveRendered, LiveStopped DEF Live!Render, Live!PageEvent, Live!Reset
  <1>3. QED
    BY <1>1, <1>2, LiveCallMade, LiveStopped, LiveTimerFired, LiveReceived DEF Live!Next

-----------------------------------------------------------------------------
LEMMA PagesInvInit == Init => PagesInv
  <1> SUFFICES ASSUME Init  PROVE PagesInv
    OBVIOUS
  <1>1. ASSUME NEW blank, blank.busy = FALSE,
               Local!PageInit(blank) \/ Live!PageInit(blank)
        PROVE  PageInv /\ Locked
    <2>1. /\ hidden = FALSE /\ remountDue = TRUE /\ busyShown = FALSE
          /\ started = 0 /\ pending = {} /\ aborted = {} /\ active = None
      BY <1>1 DEF Local!PageInit, Live!PageInit, Local!None, Live!None, None
    <2>2. 0 \in 0..MaxCalls
      BY MaxCallsAssumption
    <2>3. QED
      BY <2>1, <2>2 DEF PageInv, PageTypeOK, Locked
  <1>2. CASE tool = "local" /\ Local!Init
    <2>1. Local!PageInit(Local!Blank) /\ file = "text" /\ Local!Blank.busy = FALSE
      BY <1>2 DEF Local!Init, Local!Blank
    <2>2. LocalInv
      BY <2>1 DEF Local!PageInit, Local!Blank, Local!None, None, LocalInv, LocalScreens,
                  Local!Failures
    <2>3. QED
      BY <1>1, <1>2, <2>1, <2>2 DEF PagesInv
  <1>3. CASE tool = "live" /\ Live!Init
    <2>1. Live!PageInit(Live!Blank) /\ Live!Unsent /\ Live!Blank.busy = FALSE
      BY <1>3 DEF Live!Init, Live!Blank
    <2>2. LiveInv
      BY <2>1, MaxBytesAssumption
         DEF Live!PageInit, Live!Unsent, Live!Blank, Live!None, None, LiveInv, LiveScreens,
             Live!Calls, Calls
    <2>3. QED
      BY <1>1, <1>3, <2>1, <2>2 DEF PagesInv
  <1>4. QED
    BY <1>2, <1>3 DEF Init

LEMMA PagesInvStep == PagesInv /\ [Next]_vars => PagesInv'
  <1> SUFFICES ASSUME PagesInv, [Next]_vars  PROVE PagesInv'
    OBVIOUS
  <1>1. CASE LocalStep
    BY <1>1, LocalKeeps DEF LocalStep, PagesInv
  <1>2. CASE LiveStep
    BY <1>2, LiveKeeps DEF LiveStep, PagesInv
  <1>3. CASE UNCHANGED vars
    BY <1>3 DEF vars, pageVars, page, calls, liveVars, PagesInv, PageInv, PageTypeOK, Made,
                Locked, LocalInv, LiveInv
  <1>4. QED
    BY <1>1, <1>2, <1>3 DEF Next

\* The page, and the screen of whichever hook it holds, stay as the invariant says
\* through every click, render, answer, timer and page event.
THEOREM PagesCorrect == Spec => []PagesInv
  BY PagesInvInit, PagesInvStep, PTL DEF Spec

\* A call is awaited with its form locked, or it has been told to stop.
THEOREM CallsAwaited == Spec => []AwaitedOrAborted
  <1>1. PagesInv => AwaitedOrAborted
    BY DEF PagesInv, PageInv, Locked, AwaitedOrAborted
  <1>2. QED
    BY <1>1, PagesCorrect, PTL

\* Neither hook shows a late answer, an answer the user withdrew, a result beside
\* an error or a report over the cap.
THEOREM ScreensTrue == Spec => []ScreenIsTrue
  <1>1. ASSUME LocalInv, PageInv  PROVE Local!ScreenIsTrue
    <2> DEFINE results == {screen.data, screen.fileData} \ {None}
    <2>1. results = {} \/ results = {started}
      BY <1>1 DEF LocalInv
    <2>2. results # {} => results = {started} /\ Cardinality(results) = 1
      BY <2>1, FS_Singleton
    <2>3. results # {} => started \notin aborted /\ screen.error = "none"
      BY <1>1 DEF LocalInv
    <2>4. screen.status = "complete" => results # {}
      BY <1>1 DEF LocalInv
    <2>5. \A c \in results \cup ({screen.progress} \ {None}) :
            c = started /\ (c \notin aborted \/ remountDue)
      BY <1>1, <2>2, <2>3 DEF LocalInv
    <2>6. screen.status \in Local!Failures => screen.error = "engine"
      BY <1>1 DEF LocalInv
    <2> HIDE DEF results
    <2>7. Local!Cardinality(results) = Cardinality(results)
      BY Zenon DEF Local!Cardinality, Cardinality
    <2>8. QED
      BY <2>2, <2>3, <2>4, <2>5, <2>6, <2>7 DEF Local!ScreenIsTrue, results, Local!None, None
  <1>2. LiveInv => Live!ScreenIsTrue
    BY DEF LiveInv, Live!ScreenIsTrue, Live!None, None
  <1>3. PagesInv => ScreenIsTrue
    BY <1>1, <1>2 DEF PagesInv, ScreenIsTrue
  <1>4. QED
    BY <1>3, PagesCorrect, PTL

\* The request the user waits for is only ever aborted by its own deadline.
THEOREM OwnTimers == Spec => []OwnTimerOnly
  <1>1. PagesInv => OwnTimerOnly
    BY DEF PagesInv, LiveInv, OwnTimerOnly, Live!OwnTimerOnly
  <1>2. QED
    BY <1>1, PagesCorrect, PTL
=============================================================================
