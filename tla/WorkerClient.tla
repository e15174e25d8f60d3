---------------------------- MODULE WorkerClient ----------------------------
(***************************************************************************)
(* The worker client of the browser tools (packages/tool-core/src/workers/ *)
(* index.ts) together with the workers it starts (workers/entry.ts,        *)
(* workers/dispatch.ts, and hashFileDirect of compute.ts).                 *)
(*                                                                         *)
(* A job is one call of dispatch().  Client and workers run in parallel    *)
(* and talk through a queue of messages per worker; on each side one event *)
(* handler runs at a time, so a handler is one step.  Every job here       *)
(* hashes a file, the kind of job that also reports progress; the two      *)
(* others post their result at once, which a file of no chunks does too.   *)
(***************************************************************************)
EXTENDS Integers, Sequences

CONSTANTS
  Jobs,      \* calls of dispatch()
  MaxChunks, \* bound of the model: longest file, in chunks of hashChunkBytes
  Careful    \* jobs whose worker keeps the protocol and whose caller never throws

ASSUME WorkerAssumption ==
  /\ MaxChunks \in Nat
  /\ Careful \subseteq Jobs

VARIABLES
  disposed,  \* the client is disposed
  active,    \* jobs whose abort closure is registered
  signal,    \* [Jobs -> {"live", "aborted"}]: context.signal
  outcome,   \* [Jobs -> Outcomes]: the promise; "idle" before the call
  worker,    \* [Jobs -> {"none", "running", "terminated"}]
  wired,     \* listeners are attached and the timer is armed
  inbox,     \* messages posted by the worker and not yet delivered
  progress,  \* progressCompleted, the last progress shown
  stage,     \* the worker: "waiting" for its job, "hashing", "done" or "failed"
  size,      \* chunks in the job's file
  hashed     \* chunks the worker has hashed

workerVars == <<disposed, active, signal, outcome, worker, wired, inbox, progress, stage, size, hashed>>

Outcomes == {"idle", "pending", "result", "ABORTED", "TIMEOUT", "rejected"}

\* A "fault" is an error event, or a message that is malformed, carries the
\* wrong job or tool, or contradicts the request.
Messages == [kind : {"progress", "complete", "fault"}, chunks : Nat]

Progress(n) == [kind |-> "progress", chunks |-> n]
Complete == [kind |-> "complete", chunks |-> 0]
Fault == [kind |-> "fault", chunks |-> 0]

Init ==
  /\ disposed = FALSE
  /\ active = {}
  /\ signal = [j \in Jobs |-> "live"]
  /\ outcome = [j \in Jobs |-> "idle"]
  /\ worker = [j \in Jobs |-> "none"]
  /\ wired = [j \in Jobs |-> FALSE]
  /\ inbox = [j \in Jobs |-> <<>>]
  /\ progress = [j \in Jobs |-> 0]
  /\ stage = [j \in Jobs |-> "waiting"]
  /\ size \in [Jobs -> 0..MaxChunks]
  /\ hashed = [j \in Jobs |-> 0]

workerSide == <<stage, size, hashed>>

-----------------------------------------------------------------------------
(* finish() and cleanup(), for the jobs in S.                              *)

\* Mutant of First: the last outcome stands.
Last(old, new) == new

\* The first outcome stands.
First(old, new) == IF old = "pending" THEN new ELSE old

\* Mutant of Cleanup: the worker is not terminated.
CleanupLeavesWorker(S) ==
  /\ wired' = [j \in Jobs |-> wired[j] /\ j \notin S]
  /\ active' = active \ S
  /\ UNCHANGED worker

Cleanup(S) ==
  /\ worker' = [j \in Jobs |-> IF j \in S THEN "terminated" ELSE worker[j]]
  /\ wired' = [j \in Jobs |-> wired[j] /\ j \notin S]
  /\ active' = active \ S

Finish(j, result) ==
  /\ outcome' = [outcome EXCEPT ![j] = First(@, result)]
  /\ IF outcome[j] = "pending" THEN Cleanup({j}) ELSE UNCHANGED <<worker, wired, active>>

-----------------------------------------------------------------------------
(* dispatch().                                                             *)

(* Disposed or cancelled before the call: no worker is created.            *)
DispatchAborted(j) ==
  /\ outcome[j] = "idle"
  /\ disposed \/ signal[j] = "aborted"
  /\ outcome' = [outcome EXCEPT ![j] = "ABORTED"]
  /\ UNCHANGED <<disposed, active, signal, worker, wired, inbox, progress, workerSide>>

(* The factory fails or returns a worker that already has a job: the call  *)
(* rejects and leaves that worker alone.                                   *)
DispatchNoWorker(j) ==
  /\ outcome[j] = "idle"
  /\ ~disposed /\ signal[j] = "live"
  /\ j \notin Careful
  /\ outcome' = [outcome EXCEPT ![j] = "rejected"]
  /\ UNCHANGED <<disposed, active, signal, worker, wired, inbox, progress, workerSide>>

(* A fresh worker gets the job; if the request cannot be cloned the job    *)
(* finishes in the same call.                                              *)
Dispatch(j, cloned) ==
  /\ outcome[j] = "idle"
  /\ ~disposed /\ signal[j] = "live"
  /\ cloned \/ j \notin Careful
  /\ IF cloned
     THEN /\ outcome' = [outcome EXCEPT ![j] = "pending"]
          /\ worker' = [worker EXCEPT ![j] = "running"]
          /\ wired' = [wired EXCEPT ![j] = TRUE]
          /\ active' = active \cup {j}
     ELSE /\ outcome' = [outcome EXCEPT ![j] = "rejected"]
          /\ Cleanup({j})
  /\ UNCHANGED <<disposed, signal, inbox, progress, workerSide>>

(* The factory itself cancels the job or disposes the client: the check    *)
(* after the registration finishes the job in the same call.               *)
DispatchStopped(j, cancels, disposes) ==
  /\ outcome[j] = "idle"
  /\ ~disposed /\ signal[j] = "live"
  /\ cancels \/ disposes
  /\ signal' = [signal EXCEPT ![j] = IF cancels THEN "aborted" ELSE @]
  /\ disposed' = disposes
  /\ LET stopped == {j} \cup (IF disposes THEN active ELSE {})
     IN /\ outcome' = [k \in Jobs |-> IF k \in stopped THEN "ABORTED" ELSE outcome[k]]
        /\ Cleanup(stopped)
  /\ UNCHANGED <<inbox, progress, workerSide>>

Abort(j) ==
  /\ signal[j] = "live"
  /\ signal' = [signal EXCEPT ![j] = "aborted"]
  /\ IF wired[j] THEN Finish(j, "ABORTED") ELSE UNCHANGED <<outcome, worker, wired, active>>
  /\ UNCHANGED <<disposed, inbox, progress, workerSide>>

\* Mutant of Timeout: the first progress disarms the timer.
TimeoutUntilProgress(j) ==
  /\ wired[j] /\ progress[j] = 0
  /\ Finish(j, "TIMEOUT")
  /\ UNCHANGED <<disposed, signal, inbox, progress, workerSide>>

Timeout(j) ==
  /\ wired[j]
  /\ Finish(j, "TIMEOUT")
  /\ UNCHANGED <<disposed, signal, inbox, progress, workerSide>>

Dispose ==
  /\ ~disposed
  /\ disposed' = TRUE
  /\ outcome' = [j \in Jobs |-> IF j \in active THEN First(outcome[j], "ABORTED") ELSE outcome[j]]
  /\ Cleanup(active)
  /\ UNCHANGED <<signal, inbox, progress, workerSide>>

-----------------------------------------------------------------------------
(* message(): one queued message of the worker of job j.                   *)

Message(j) == Head(inbox[j])

\* Mutant of Consistent: repeated progress is refused.
ConsistentStrict(j, m) == (m.chunks > progress[j] \/ m.chunks = 0) /\ m.chunks <= size[j]

Consistent(j, m) == m.chunks >= progress[j] /\ m.chunks <= size[j]

Received(j) ==
  /\ inbox[j] # <<>>
  /\ inbox' = [inbox EXCEPT ![j] = Tail(@)]

\* Mutant of DeliverLate: the listener stays attached after the job settled.
DeliverLateShown(j) ==
  /\ ~wired[j]
  /\ Received(j)
  /\ progress' = [progress EXCEPT ![j] =
                    IF Message(j).kind = "progress" THEN Message(j).chunks ELSE @]
  /\ UNCHANGED <<disposed, active, signal, outcome, worker, wired, workerSide>>

(* Nobody listens any more.                                                *)
DeliverLate(j) ==
  /\ ~wired[j]
  /\ Received(j)
  /\ UNCHANGED <<disposed, active, signal, outcome, worker, wired, progress, workerSide>>

(* Progress is shown through onProgress, which may cancel its own job or   *)
(* dispose the client before it returns or throws.                         *)
DeliverProgress(j, cancels, disposes, throws) ==
  /\ wired[j]
  /\ Received(j)
  /\ Message(j).kind = "progress" /\ Consistent(j, Message(j))
  /\ j \in Careful => ~throws
  /\ cancels => signal[j] = "live"
  /\ disposes => ~disposed
  /\ progress' = [progress EXCEPT ![j] = Message(j).chunks]
  /\ signal' = [signal EXCEPT ![j] = IF cancels THEN "aborted" ELSE @]
  /\ disposed' = (disposed \/ disposes)
  /\ LET stopped == (IF cancels THEN {j} ELSE {}) \cup (IF disposes THEN active ELSE {})
         failed == IF throws THEN {j} ELSE {}
         first == [k \in Jobs |-> IF k \in stopped THEN First(outcome[k], "ABORTED") ELSE outcome[k]]
     IN /\ outcome' = [k \in Jobs |-> IF k \in failed THEN First(first[k], "rejected") ELSE first[k]]
        /\ Cleanup(stopped \cup failed)
  /\ UNCHANGED workerSide

DeliverComplete(j) ==
  /\ wired[j]
  /\ Received(j)
  /\ Message(j).kind = "complete"
  /\ Finish(j, "result")
  /\ UNCHANGED <<disposed, signal, progress, workerSide>>

(* An error event, or a message the client refuses.                        *)
DeliverFault(j) ==
  /\ wired[j]
  /\ Received(j)
  /\ Message(j).kind = "fault" \/ (Message(j).kind = "progress" /\ ~Consistent(j, Message(j)))
  /\ Finish(j, "rejected")
  /\ UNCHANGED <<disposed, signal, progress, workerSide>>

-----------------------------------------------------------------------------
(* The worker of job j, until it is terminated.                            *)

Post(j, messages) == inbox' = [inbox EXCEPT ![j] = @ \o messages]

clientSide == <<disposed, active, signal, outcome, worker, wired, progress>>

WorkerStart(j) ==
  /\ worker[j] = "running" /\ stage[j] = "waiting"
  /\ stage' = [stage EXCEPT ![j] = "hashing"]
  /\ Post(j, <<Progress(0)>>)
  /\ UNCHANGED <<clientSide, size, hashed>>

WorkerChunk(j) ==
  /\ worker[j] = "running" /\ stage[j] = "hashing"
  /\ hashed[j] < size[j]
  /\ hashed' = [hashed EXCEPT ![j] = @ + 1]
  /\ Post(j, <<Progress(hashed[j] + 1)>>)
  /\ UNCHANGED <<clientSide, size, stage>>

WorkerComplete(j) ==
  /\ worker[j] = "running" /\ stage[j] = "hashing"
  /\ hashed[j] = size[j]
  /\ stage' = [stage EXCEPT ![j] = "done"]
  /\ Post(j, <<Progress(size[j]), Complete>>)
  /\ UNCHANGED <<clientSide, size, hashed>>

(* A chunk cannot be read: the worker throws from a timer.                 *)
WorkerFails(j) ==
  /\ worker[j] = "running" /\ stage[j] = "hashing"
  /\ stage' = [stage EXCEPT ![j] = "failed"]
  /\ Post(j, <<Fault>>)
  /\ UNCHANGED <<clientSide, size, hashed>>

(* A worker that breaks the protocol: what it posts is anything.           *)
WorkerMisbehaves(j, m) ==
  /\ worker[j] = "running" /\ stage[j] = "hashing"
  /\ j \notin Careful
  /\ stage' = [stage EXCEPT ![j] = "failed"]
  /\ Post(j, <<m>>)
  /\ UNCHANGED <<clientSide, size, hashed>>

Client(j) ==
  \/ DispatchAborted(j) \/ DispatchNoWorker(j)
  \/ \E cloned \in BOOLEAN : Dispatch(j, cloned)
  \/ \E cancels, disposes \in BOOLEAN : DispatchStopped(j, cancels, disposes)
  \/ Abort(j) \/ Timeout(j)
  \/ DeliverLate(j) \/ DeliverComplete(j) \/ DeliverFault(j)
  \/ \E cancels, disposes, throws \in BOOLEAN : DeliverProgress(j, cancels, disposes, throws)

Worker(j) ==
  \/ WorkerStart(j) \/ WorkerChunk(j) \/ WorkerComplete(j) \/ WorkerFails(j)
  \/ \E m \in {Fault, Complete} \cup {Progress(n) : n \in 0..size[j] + 1} : WorkerMisbehaves(j, m)

Next ==
  \/ \E j \in Jobs : Client(j) \/ Worker(j)
  \/ Dispose

(* Timers fire; nothing is assumed of a worker, which may loop for ever in *)
(* a regular expression.                                                   *)
Spec == Init /\ [][Next]_workerVars

FairSpec == Spec /\ \A j \in Jobs : WF_workerVars(Timeout(j))

-----------------------------------------------------------------------------
(* Properties.                                                             *)

\* No worker outlives its job and no job waits without one: the registered
\* aborts, the attached listeners, the running workers and the unsettled
\* promises are the same jobs after every interleaving, and there are none once
\* the client is disposed, from inside a callback too (index.ts:41-74, 121-128,
\* 166-169).
WorkersMatchJobs ==
  \A j \in Jobs :
    /\ j \in active <=> outcome[j] = "pending"
    /\ worker[j] = "running" <=> outcome[j] = "pending"
    /\ wired[j] <=> outcome[j] = "pending"
    /\ disposed => j \notin active

\* execution.ts:130-132: abort and dispose settle every outstanding job they
\* reach with ABORTED, also when the callback that cancelled then throws.
CancelMeansAborted ==
  [][\A j \in Jobs :
       /\ outcome[j] = "pending"
       /\ \/ signal'[j] # signal[j]
          \/ disposed' # disposed
       => outcome'[j] = "ABORTED"]_workerVars

\* The promise settles once, and progress is neither taken back nor shown after
\* it has settled, whatever messages are still queued (index.ts:57-66, 86-98).
SettledForGood ==
  [][\A j \in Jobs :
       /\ outcome[j] \notin {"idle", "pending"} => outcome'[j] = outcome[j]
       /\ outcome[j] # "pending" => progress'[j] = progress[j]
       /\ progress'[j] >= progress[j]]_workerVars

\* The client's checks never turn against a worker that keeps the protocol: its
\* job is rejected only when the worker itself failed, and a hash is reported
\* only for a file read to its end, with all of its progress shown first
\* (index.ts:86-118, compute.ts:28-50).
HonestJobsEndRight ==
  \A j \in Careful :
    /\ outcome[j] = "rejected" => stage[j] = "failed"
    /\ outcome[j] = "result" => hashed[j] = size[j] /\ progress[j] = size[j]

\* Every job settles, with a stuck worker too (index.ts:126).
EveryJobSettles == \A j \in Jobs : outcome[j] = "pending" ~> outcome[j] # "pending"
=============================================================================
