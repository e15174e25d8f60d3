------------------------------- MODULE Release -------------------------------
(***************************************************************************)
(* The release workflow (.github/workflows/deploy-manual.yml): three       *)
(* surfaces, the API, the public site and the workspace, are changed one   *)
(* after another by a job that may end at any step.                        *)
(*                                                                         *)
(* GitHub, Container Apps and Static Web Apps are external.  A revision of *)
(* the API becomes ready at some time or never, and serves only then.  A   *)
(* command that changes a surface may report a failure although it worked. *)
(* Others may change the API at any time.                                  *)
(***************************************************************************)
EXTENDS Naturals

CONSTANTS MaxRuns,      \* bound on the releases that are dispatched
          MaxChanges,   \* bound on the changes of the API
          Images,       \* digests in the registry
          Attempts      \* polls for readiness, 24 in the workflow

ASSUME ReleaseAssumption ==
    /\ MaxRuns \in Nat /\ MaxChanges \in Nat
    /\ Attempts \in Nat \ {0}

VARIABLES
    job,        \* where each run is, or how it ended
    image,      \* IMAGE_DIGEST of each run
    change,     \* the number of the run's change of the API, 0 before it
    attempt,    \* polls of the run so far
    changes,    \* how often the API was changed so far
    latest,     \* the API's template: its image and the number of its change
    old,        \* what serves until a new revision is ready
    ready,      \* the revision of `latest' is ready
    site, workspace     \* the change whose run uploaded them

vars == <<job, image, change, attempt, changes, latest, old, ready, site, workspace>>
api == <<changes, latest, old, ready>>
static == <<site, workspace>>

Runs == 1..MaxRuns
Unset == "unset"
Steps == {"checking", "updating", "polling", "probing", "site", "workspace"}
Ended == {"succeeded", "failed", "superseded"}

Init ==
    /\ job = [r \in Runs |-> "undispatched"] /\ image = [r \in Runs |-> Unset]
    /\ change = [r \in Runs |-> 0] /\ attempt = [r \in Runs |-> 0]
    /\ changes = 0
    /\ \E i \in Images : latest = [image |-> i, change |-> 0] /\ old = latest
    /\ ready = TRUE
    /\ site = 0 /\ workspace = 0

Serving == IF ready THEN latest ELSE old

-----------------------------------------------------------------------------
(* The concurrency group: one run at a time; of those that wait only the   *)
(* newest is kept, and the one at work is never cancelled.                 *)

Dispatch(r, i) ==
    /\ job[r] = "undispatched" /\ \A q \in 1..(r - 1) : job[q] # "undispatched"
    /\ job' = [q \in Runs |-> IF q = r THEN "pending"
                              ELSE IF job[q] = "pending" THEN "superseded" ELSE job[q]]
    /\ image' = [image EXCEPT ![r] = i]
    /\ UNCHANGED <<change, attempt, api, static>>

Goes(r, from, to) == job[r] = from /\ job' = [job EXCEPT ![r] = to]

\* Mutant of Begin: runs do not wait for each other.
BeginAtOnce(r) ==
    /\ Goes(r, "pending", "checking")
    /\ UNCHANGED <<image, change, attempt, api, static>>

Begin(r) ==
    /\ \A q \in Runs : job[q] \notin Steps
    /\ Goes(r, "pending", "checking")
    /\ UNCHANGED <<image, change, attempt, api, static>>

-----------------------------------------------------------------------------
(* The steps of a run                                                      *)

\* A check, a command or a probe fails, the reviewers refuse, the job is
\* cancelled or runs out of time.
Fails(r) ==
    /\ job[r] \in Steps
    /\ Goes(r, job[r], "failed")
    /\ UNCHANGED <<image, change, attempt, api, static>>

\* The configuration, the build with its tests, the image and the targets.
Checked(r) ==
    /\ Goes(r, "checking", "updating")
    /\ UNCHANGED <<image, change, attempt, api, static>>

\* Another template, of its image or only of its origins, is a new revision; the
\* same template is the revision that there is.
ChangeApi(i) ==
    /\ changes < MaxChanges /\ changes' = changes + 1
    /\ latest' = [image |-> i, change |-> changes']
    /\ \/ i = latest.image /\ UNCHANGED <<old, ready>>
       \/ old' = Serving /\ ready' = FALSE

Update(r) ==
    /\ Goes(r, "updating", "polling") \/ Goes(r, "updating", "failed")
    /\ ChangeApi(image[r])
    /\ change' = [change EXCEPT ![r] = changes']
    /\ UNCHANGED <<image, attempt, static>>

\* Mutant of Polled: polls that come to their end are taken for readiness.
PolledOut(r) ==
    /\ attempt' = [attempt EXCEPT ![r] = @ + 1]
    /\ \/ latest.image # image[r] /\ Goes(r, "polling", "failed")
       \/ /\ latest.image = image[r]
          /\ Goes(r, "polling", IF ready \/ attempt'[r] >= Attempts THEN "probing" ELSE "polling")
    /\ UNCHANGED <<image, change, api, static>>

\* The image has changed again, the latest revision is ready, or not yet.
Polled(r) ==
    /\ attempt' = [attempt EXCEPT ![r] = @ + 1]
    /\ \/ latest.image # image[r] /\ Goes(r, "polling", "failed")
       \/ latest.image = image[r] /\ ready /\ Goes(r, "polling", "probing")
       \/ /\ latest.image = image[r] /\ ~ready
          /\ Goes(r, "polling", IF attempt'[r] < Attempts THEN "polling" ELSE "failed")
    /\ UNCHANGED <<image, change, api, static>>

\* /healthz answers.
Probed(r) ==
    /\ Goes(r, "probing", "site")
    /\ UNCHANGED <<image, change, attempt, api, static>>

UploadSite(r) ==
    /\ Goes(r, "site", "workspace") \/ Goes(r, "site", "failed")
    /\ site' = change[r]
    /\ UNCHANGED <<image, change, attempt, api, workspace>>

UploadWorkspace(r) ==
    /\ Goes(r, "workspace", "succeeded") \/ Goes(r, "workspace", "failed")
    /\ workspace' = change[r]
    /\ UNCHANGED <<image, change, attempt, api, site>>

-----------------------------------------------------------------------------
(* The platform, and whoever else may change the API                       *)

BecomesReady ==
    /\ ~ready /\ ready' = TRUE
    /\ UNCHANGED <<job, image, change, attempt, changes, latest, old, static>>

ChangedByOthers(i) ==
    /\ ChangeApi(i)
    /\ UNCHANGED <<job, image, change, attempt, static>>

Next ==
    \/ \E r \in Runs :
          \/ \E i \in Images : Dispatch(r, i)
          \/ Begin(r) \/ Fails(r) \/ Checked(r) \/ Update(r) \/ Polled(r) \/ Probed(r)
          \/ UploadSite(r) \/ UploadWorkspace(r)
    \/ BecomesReady
    \/ \E i \in Images : ChangedByOthers(i)

Spec == Init /\ [][Next]_vars

-----------------------------------------------------------------------------
(* Properties                                                              *)

\* "API update, public upload and workspace upload are not atomic"
\* (docs/deployment.md:493), but wherever releases stop, and whoever else changes
\* the API, the surfaces are mixed in one way only: the site is never older than
\* the workspace, and the API that serves never older than the site.
MixedOneWay == workspace <= site /\ site <= Serving.change

\* A run that succeeded left all three surfaces as it wanted them, until somebody
\* changes the API again: the image that serves is the approved one, and site and
\* workspace come from this run.
SuccessIsWhole ==
    \A r \in Runs :
        job[r] = "succeeded" /\ changes = change[r] =>
            /\ Serving = [image |-> image[r], change |-> change[r]]
            /\ site = change[r] /\ workspace = change[r]

=============================================================================
