---------------------------- MODULE ReleaseProofs ----------------------------
(***************************************************************************)
(* MixedOneWay and SuccessIsWhole of Release, for any number of runs and   *)
(* changes, any images and any number of polls.                            *)
(***************************************************************************)
EXTENDS Release, TLAPS

Waiting == {"undispatched", "pending", "checking", "updating"}
Updated == {"polling", "probing", "site", "workspace"}
Verified == {"probing", "site", "workspace", "succeeded"}
Revision == [image : Images \cup {Unset}, change : Nat]

TypeOK ==
    /\ job \in [Runs -> {"undispatched", "pending"} \cup Steps \cup Ended]
    /\ image \in [Runs -> Images \cup {Unset}]
    /\ change \in [Runs -> Nat]
    /\ changes \in Nat
    /\ latest \in Revision /\ old \in Revision
    /\ ready \in BOOLEAN
    /\ site \in Nat /\ workspace \in Nat

\* The concurrency group, and what it gives: the run that has changed the API and
\* is still at work has made the newest change of all runs.
Exclusive == \A q, r \in Runs : job[q] \in Steps /\ job[r] \in Steps => q = r
Newest ==
    \A q, r \in Runs : job[q] \in Updated /\ q # r => change[r] < change[q]

\* Changes are numbered as they come.
Numbered ==
    /\ latest.change = changes /\ old.change <= changes
    /\ \A r \in Runs :
          /\ change[r] <= changes
          /\ job[r] \in Waiting => change[r] = 0
          /\ job[r] \in Updated \cup {"succeeded"} => change[r] > 0

\* How far the run at work has come.
Halfway ==
    \A r \in Runs :
        /\ job[r] \in Updated => site <= change[r]
        /\ job[r] \in Verified \cap Steps => change[r] <= Serving.change
        /\ job[r] = "workspace" => site = change[r]

\* What the last change of the API was for.
LastChange ==
    \A r \in Runs :
        change[r] > 0 /\ change[r] = changes =>
            /\ latest.image = image[r]
            /\ job[r] \in Verified => ready
            /\ job[r] = "succeeded" => site = change[r] /\ workspace = change[r]

IInv == TypeOK /\ Exclusive /\ Newest /\ Numbered /\ Halfway /\ LastChange /\ MixedOneWay

-----------------------------------------------------------------------------

\* However the API changes, the change gets the next number, and what serves is
\* as before or that change.
LEMMA ApiChanges ==
    ASSUME TypeOK, Numbered, NEW i \in Images \cup {Unset}, ChangeApi(i)
    PROVE  /\ latest' \in Revision /\ old' \in Revision /\ ready' \in BOOLEAN
           /\ changes' = changes + 1
           /\ latest'.change = changes' /\ latest'.image = i
           /\ old'.change <= changes'
           /\ Serving.change <= changes
           /\ Serving.change <= Serving'.change
<1>1. /\ changes' = changes + 1 /\ changes' \in Nat
      /\ latest' = [image |-> i, change |-> changes']
  BY DEF ChangeApi, TypeOK
<1>2. latest' \in Revision /\ latest'.change = changes' /\ latest'.image = i
  BY <1>1 DEF Revision
<1>3. Serving \in Revision /\ Serving.change <= changes
  BY DEF Serving, TypeOK, Numbered, Revision
<1>4. CASE UNCHANGED <<old, ready>>
  BY <1>1, <1>2, <1>3, <1>4 DEF Serving, TypeOK, Numbered, Revision
<1>5. CASE old' = Serving /\ ready' = FALSE
  <2>1. Serving' = Serving
    BY <1>5 DEF Serving
  <2>2. Serving.change \in Nat
    BY <1>3 DEF Revision
  <2>3. old' \in Revision /\ old'.change <= changes'
    BY <1>1, <1>3, <1>5, <2>2 DEF TypeOK
  <2>4. Serving.change <= Serving'.change
    BY <2>1, <2>2
  <2> QED  BY <1>1, <1>2, <1>3, <1>5, <2>3, <2>4
<1> QED  BY <1>4, <1>5 DEF ChangeApi

\* A run's own change of the API is the newest of all, and nobody else's.
LEMMA UpdateKeeps ==
    ASSUME IInv, NEW r \in Runs, Update(r)
    PROVE  IInv'
<1> USE DEF IInv
<1>1. /\ image[r] \in Images \cup {Unset} /\ ChangeApi(image[r])
      /\ change' = [change EXCEPT ![r] = changes']
      /\ UNCHANGED <<image, site, workspace>>
  BY DEF Update, TypeOK, static
<1>2. /\ job[r] = "updating"
      /\ \E to \in {"polling", "failed"} : job' = [job EXCEPT ![r] = to]
  BY DEF Update, Goes
<1>3. /\ latest' \in Revision /\ old' \in Revision /\ ready' \in BOOLEAN
      /\ changes' = changes + 1
      /\ latest'.change = changes' /\ latest'.image = image[r]
      /\ old'.change <= changes'
      /\ Serving.change <= changes /\ Serving.change <= Serving'.change
  BY <1>1, ApiChanges
<1>4. \A q \in Runs \ {r} : job[q] \notin Steps /\ job'[q] = job[q] /\ change'[q] = change[q]
  BY <1>1, <1>2 DEF Exclusive, Steps, TypeOK
<1>5. change'[r] = changes + 1 /\ job'[r] \in {"polling", "failed"}
  BY <1>1, <1>2, <1>3 DEF TypeOK
<1>6. TypeOK'
  BY <1>1, <1>2, <1>3, <1>5 DEF TypeOK, Steps, Ended
<1>7. Exclusive'
  BY <1>4 DEF Exclusive
<1>8. Newest' /\ Numbered'
  BY <1>3, <1>4, <1>5 DEF Newest, Numbered, Updated, Steps, Waiting, TypeOK
<1>9. MixedOneWay' /\ site <= changes
  <2>1. Serving \in Revision /\ Serving' \in Revision
    BY <1>3 DEF Serving, TypeOK
  <2> QED  BY <1>1, <1>3, <2>1 DEF MixedOneWay, TypeOK, Revision
<1>10. Halfway'
  BY <1>1, <1>4, <1>5, <1>9 DEF Halfway, Updated, Verified, Steps, TypeOK
<1>11. LastChange'
  BY <1>1, <1>3, <1>4, <1>5 DEF LastChange, Numbered, Verified, TypeOK
<1> QED  BY <1>6, <1>7, <1>8, <1>9, <1>10, <1>11

\* A change by others is newer than that of any run.
LEMMA ChangeByOthersKeeps ==
    ASSUME IInv, NEW i \in Images, ChangedByOthers(i)
    PROVE  IInv'
<1> USE DEF IInv
<1>1. ChangeApi(i) /\ UNCHANGED <<job, image, change, site, workspace>>
  BY DEF ChangedByOthers, static
<1>2. /\ latest' \in Revision /\ old' \in Revision /\ ready' \in BOOLEAN
      /\ changes' = changes + 1
      /\ latest'.change = changes'
      /\ old'.change <= changes'
      /\ Serving.change <= Serving'.change
  BY <1>1, ApiChanges
<1>3. Serving \in Revision /\ Serving' \in Revision
  BY <1>2 DEF Serving, TypeOK
<1>4. TypeOK' /\ Exclusive' /\ Newest'
  BY <1>1, <1>2 DEF TypeOK, Exclusive, Newest
<1>5. Numbered' /\ LastChange'
  BY <1>1, <1>2 DEF Numbered, LastChange, TypeOK
<1>6. Halfway' /\ MixedOneWay'
  BY <1>1, <1>2, <1>3 DEF Halfway, MixedOneWay, Revision, TypeOK
<1> QED  BY <1>4, <1>5, <1>6

\* The steps that neither change the API nor upload anything.
LEMMA ControlKeeps ==
    ASSUME IInv, NEW r \in Runs,
           \/ \E i \in Images : Dispatch(r, i)
           \/ Begin(r) \/ Fails(r) \/ Checked(r) \/ Polled(r) \/ Probed(r)
    PROVE  IInv'
<1> USE DEF IInv, TypeOK, Exclusive, Newest, Numbered, Halfway, LastChange, MixedOneWay,
            Serving, Steps, Ended, Waiting, Updated, Verified, Goes, api, static
<1>1. ASSUME NEW i \in Images, Dispatch(r, i)  PROVE IInv'
  BY <1>1 DEF Dispatch
<1>2. CASE Begin(r)  BY <1>2 DEF Begin
<1>3. CASE Fails(r)  BY <1>3 DEF Fails
<1>4. CASE Checked(r)  BY <1>4 DEF Checked
<1>5. CASE Polled(r)  BY <1>5 DEF Polled, Revision
<1>6. CASE Probed(r)  BY <1>6 DEF Probed
<1> QED  BY <1>1, <1>2, <1>3, <1>4, <1>5, <1>6

\* An upload comes from the run with the newest change, which was ready before; a
\* revision that becomes ready is the latest one.
LEMMA SurfacesKeep ==
    ASSUME IInv, BecomesReady \/ \E r \in Runs : UploadSite(r) \/ UploadWorkspace(r)
    PROVE  IInv'
<1> USE DEF IInv, TypeOK, Exclusive, Newest, Numbered, Halfway, LastChange, MixedOneWay,
            Serving, Revision, Steps, Ended, Waiting, Updated, Verified, Goes, api, static
<1>1. ASSUME NEW r \in Runs, UploadSite(r)  PROVE IInv'
  BY <1>1 DEF UploadSite
<1>2. ASSUME NEW r \in Runs, UploadWorkspace(r)  PROVE IInv'
  BY <1>2 DEF UploadWorkspace
<1>3. CASE BecomesReady  BY <1>3 DEF BecomesReady
<1> QED  BY <1>1, <1>2, <1>3

-----------------------------------------------------------------------------

THEOREM Inductive == Spec => []IInv
<1>1. Init => IInv
  BY DEF Init, IInv, TypeOK, Exclusive, Newest, Numbered, Halfway, LastChange, MixedOneWay,
         Serving, Revision, Steps, Ended, Updated, Verified, Waiting
<1>2. IInv /\ [Next]_vars => IInv'
  <2> SUFFICES ASSUME IInv, [Next]_vars  PROVE IInv'
    OBVIOUS
  <2>1. ASSUME NEW r \in Runs, Update(r)  PROVE IInv'
    BY <2>1, UpdateKeeps
  <2>2. ASSUME NEW i \in Images, ChangedByOthers(i)  PROVE IInv'
    BY <2>2, ChangeByOthersKeeps
  <2>3. ASSUME NEW r \in Runs,
               \/ \E i \in Images : Dispatch(r, i)
               \/ Begin(r) \/ Fails(r) \/ Checked(r) \/ Polled(r) \/ Probed(r)
        PROVE  IInv'
    BY <2>3, ControlKeeps
  <2>4. CASE BecomesReady \/ \E r \in Runs : UploadSite(r) \/ UploadWorkspace(r)
    BY <2>4, SurfacesKeep
  <2>5. CASE UNCHANGED vars
    BY <2>5 DEF vars, IInv, TypeOK, Exclusive, Newest, Numbered, Halfway, LastChange,
                MixedOneWay, Serving
  <2> QED  BY <2>1, <2>2, <2>3, <2>4, <2>5 DEF Next
<1> QED  BY <1>1, <1>2, PTL DEF Spec

\* However many releases are dispatched, wherever they stop and whoever else
\* changes the API, no surface is ever ahead of one that was to change before it.
THEOREM MixesAreOneWay == Spec => []MixedOneWay
BY Inductive, PTL DEF IInv

\* A release that succeeded has left every surface as approved, for as long as
\* the API is not changed again.
THEOREM SuccessesAreWhole == Spec => []SuccessIsWhole
<1>1. IInv => SuccessIsWhole
  <2> SUFFICES ASSUME IInv, NEW r \in Runs, job[r] = "succeeded", changes = change[r]
               PROVE  /\ Serving = [image |-> image[r], change |-> change[r]]
                      /\ site = change[r] /\ workspace = change[r]
    BY DEF SuccessIsWhole
  <2>1. change[r] > 0
    BY DEF IInv, Numbered
  <2>2. /\ latest.image = image[r] /\ ready
        /\ site = change[r] /\ workspace = change[r]
    BY <2>1 DEF IInv, LastChange, Verified
  <2>3. latest \in Revision /\ latest.change = change[r]
    BY DEF IInv, TypeOK, Numbered
  <2> QED  BY <2>2, <2>3 DEF Serving, Revision
<1> QED  BY <1>1, Inductive, PTL

=============================================================================
