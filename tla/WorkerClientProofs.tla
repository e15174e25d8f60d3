------------------------- MODULE WorkerClientProofs -------------------------
(***************************************************************************)
(* Proofs about WorkerClient: whatever the number of jobs, the length of   *)
(* their files and the messages their workers post.                        *)
(*                                                                         *)
(* The invariant that pairs workers with jobs is inductive with the types. *)
(* What an honest job ends with also rests on the trail of messages that   *)
(* its worker has left in the queue.                                       *)
(***************************************************************************)
EXTENDS WorkerClient, TLAPS

WorkerTypeOK ==
  /\ disposed \in BOOLEAN
  /\ active \in SUBSET Jobs
  /\ signal \in [Jobs -> {"live", "aborted"}]
  /\ outcome \in [Jobs -> Outcomes]
  /\ worker \in [Jobs -> {"none", "running", "terminated"}]
  /\ wired \in [Jobs -> BOOLEAN]
  /\ inbox \in [Jobs -> Seq(Messages)]
  /\ progress \in [Jobs -> Nat]
  /\ stage \in [Jobs -> {"waiting", "hashing", "done", "failed"}]
  /\ size \in [Jobs -> Nat]
  /\ hashed \in [Jobs -> Nat]

\* WorkersMatchJobs, of one job.
Matched(j) ==
  /\ j \in active <=> outcome[j] = "pending"
  /\ worker[j] = "running" <=> outcome[j] = "pending"
  /\ wired[j] <=> outcome[j] = "pending"
  /\ disposed => j \notin active

\* What the messages in the queue of an honest worker look like: progress that
\* never falls back and never runs ahead of the file, a fault only once the worker
\* failed, and its result last, behind the progress of the whole file.
Trail(j) ==
  LET q == inbox[j]
  IN /\ \A i \in 1..Len(q) : q[i].kind = "progress" =>
          /\ progress[j] <= q[i].chunks /\ q[i].chunks <= hashed[j]
          /\ \A k \in 1..i : q[k].kind = "progress" => q[k].chunks <= q[i].chunks
     /\ \A i \in 1..Len(q) : q[i].kind = "fault" => stage[j] = "failed"
     /\ \A i \in 1..Len(q) : q[i].kind = "complete" =>
          /\ stage[j] = "done" /\ i = Len(q)
          /\ wired[j] => IF i = 1 THEN progress[j] = size[j] ELSE q[i - 1] = Progress(size[j])

Honest(j) ==
  /\ Trail(j)
  /\ progress[j] <= hashed[j] /\ hashed[j] <= size[j]
  /\ stage[j] = "waiting" => inbox[j] = <<>> /\ progress[j] = 0
  /\ stage[j] = "done" => hashed[j] = size[j]
  /\ outcome[j] = "idle" => stage[j] = "waiting"
  /\ outcome[j] = "rejected" => stage[j] = "failed"
  /\ outcome[j] = "result" => hashed[j] = size[j] /\ progress[j] = size[j]

WorkerInv ==
  /\ WorkerTypeOK
  /\ \A j \in Jobs : Matched(j)
  /\ \A j \in Careful : Honest(j)

-----------------------------------------------------------------------------
(* What the helpers of the client do                                       *)

\* The jobs in S settle, the others stay as they are.
Settled(S) ==
  /\ Cleanup(S)
  /\ outcome' \in [Jobs -> Outcomes]
  /\ \A j \in Jobs : IF j \in S THEN outcome'[j] \notin {"idle", "pending"}
                                ELSE outcome'[j] = outcome[j]
  /\ disposed' \in BOOLEAN
  /\ disposed' => disposed \/ active \subseteq S

LEMMA SettledMatches ==
  ASSUME WorkerTypeOK, \A j \in Jobs : Matched(j), NEW S, Settled(S)
  PROVE  /\ active' \in SUBSET Jobs
         /\ worker' \in [Jobs -> {"none", "running", "terminated"}]
         /\ wired' \in [Jobs -> BOOLEAN]
         /\ \A j \in Jobs : Matched(j)'
         /\ \A j \in Jobs : wired'[j] => wired[j]
  <1>1. /\ active' = active \ S
        /\ worker' = [j \in Jobs |-> IF j \in S THEN "terminated" ELSE worker[j]]
        /\ wired' = [j \in Jobs |-> wired[j] /\ j \notin S]
    BY DEF Settled, Cleanup
  <1>2. /\ active' \in SUBSET Jobs
        /\ worker' \in [Jobs -> {"none", "running", "terminated"}]
    BY <1>1 DEF WorkerTypeOK
  <1>3. wired' \in [Jobs -> BOOLEAN]
    BY <1>1
  <1>4. ASSUME NEW j \in Jobs  PROVE Matched(j)'
    <2>1. CASE j \in S
      <3>1. outcome'[j] # "pending" /\ j \notin active' /\ worker'[j] = "terminated" /\ ~wired'[j]
        BY <1>1, <2>1 DEF Settled
      <3>2. QED
        BY <3>1 DEF Matched
    <2>2. CASE j \notin S
      <3>1. /\ outcome'[j] = outcome[j] /\ (j \in active' <=> j \in active)
            /\ worker'[j] = worker[j] /\ (wired'[j] <=> wired[j])
        BY <1>1, <2>2 DEF Settled
      <3>2. disposed' => disposed \/ j \notin active
        BY <2>2 DEF Settled
      <3>3. QED
        BY <3>1, <3>2 DEF Matched
    <2>3. QED
      BY <2>1, <2>2
  <1>5. \A j \in Jobs : wired'[j] => wired[j]
    BY <1>1
  <1>6. QED
    BY <1>2, <1>3, <1>4, <1>5

\* A job that a listener finishes is unsettled: finish() always has its effect.
LEMMA FinishSettles ==
  ASSUME WorkerTypeOK, NEW j \in Jobs, Matched(j), wired[j],
         NEW result \in Outcomes \ {"idle", "pending"},
         Finish(j, result), UNCHANGED disposed
  PROVE  /\ outcome[j] = "pending"
         /\ outcome' = [outcome EXCEPT ![j] = result]
         /\ Settled({j})
  <1>1. outcome[j] = "pending"
    BY DEF Matched
  <1>2. outcome' = [outcome EXCEPT ![j] = result] /\ Cleanup({j})
    BY <1>1 DEF Finish, First
  <1>3. QED
    BY <1>1, <1>2 DEF Settled, WorkerTypeOK

\* A job none of whose messages a step reads or posts stays honest.
LEMMA HonestFrame ==
  ASSUME NEW j \in Careful, Honest(j), wired'[j] => wired[j] \/ inbox[j] = <<>>,
         inbox'[j] = inbox[j], progress'[j] = progress[j],
         stage'[j] = stage[j], size'[j] = size[j], hashed'[j] = hashed[j],
         \/ outcome'[j] = outcome[j]
         \/ outcome'[j] \in {"pending", "ABORTED", "TIMEOUT"}
  PROVE  Honest(j)'
  <1>1. Trail(j)'
    <2>1. CASE inbox[j] = <<>>
      BY <2>1 DEF Trail
    <2>2. CASE wired'[j] => wired[j]
      BY <2>2 DEF Honest, Trail
    <2>3. QED
      BY <2>1, <2>2
  <1>2. QED
    BY <1>1 DEF Honest

\* The client's checks agree with an honest worker.
LEMMA HonestMessage ==
  ASSUME WorkerTypeOK, NEW j \in Jobs, Honest(j), Received(j)
  PROVE  /\ Message(j).kind = "progress" =>
              /\ Message(j).chunks \in Nat /\ Message(j).chunks <= hashed[j]
              /\ Consistent(j, Message(j))
         /\ Message(j).kind = "fault" => stage[j] = "failed"
         /\ Message(j).kind = "complete" /\ wired[j] =>
              hashed[j] = size[j] /\ progress[j] = size[j]
  <1>1. Message(j) = inbox[j][1] /\ 1 \in 1..Len(inbox[j]) /\ inbox[j] \in Seq(Messages)
    BY DEF Received, Message, WorkerTypeOK
  <1>2. Message(j) \in Messages
    BY <1>1
  <1>3. Message(j).chunks \in Nat
    BY <1>2 DEF Messages
  <1>4. /\ Message(j).kind = "progress" =>
             progress[j] <= Message(j).chunks /\ Message(j).chunks <= hashed[j]
        /\ Message(j).kind = "fault" => stage[j] = "failed"
        /\ Message(j).kind = "complete" =>
             stage[j] = "done" /\ (wired[j] => progress[j] = size[j])
    BY <1>1 DEF Honest, Trail
  <1>5. /\ hashed[j] <= size[j] /\ (stage[j] = "done" => hashed[j] = size[j])
        /\ progress[j] \in Nat /\ hashed[j] \in Nat /\ size[j] \in Nat
    BY DEF Honest, WorkerTypeOK
  <1>6. QED
    BY <1>3, <1>4, <1>5 DEF Consistent

\* Taking the first message off keeps the trail; if the job still listens, it was
\* progress and is now the progress shown.
LEMMA TrailTail ==
  ASSUME WorkerTypeOK, NEW j \in Jobs, Honest(j), Received(j),
         stage'[j] = stage[j], size'[j] = size[j], hashed'[j] = hashed[j],
         wired'[j] => wired[j] /\ Message(j).kind = "progress"
                              /\ progress'[j] = Message(j).chunks,
         \/ progress'[j] = progress[j]
         \/ Message(j).kind = "progress" /\ progress'[j] = Message(j).chunks
  PROVE  Trail(j)'
  <1> DEFINE q == inbox[j]
  <1>1. /\ q \in Seq(Messages) /\ Len(q) \in Nat /\ Len(q) >= 1
        /\ \A i \in 1..Len(q) : q[i] \in Messages
        /\ progress[j] \in Nat /\ size[j] \in Nat /\ hashed[j] \in Nat
    BY DEF Received, WorkerTypeOK
  <1>2. /\ Len(inbox'[j]) = Len(q) - 1
        /\ \A i \in 1..Len(q) - 1 : inbox'[j][i] = q[i + 1]
        /\ Message(j) = q[1]
    BY <1>1 DEF Received, Message, WorkerTypeOK
  <1>3. Trail(j)
    BY DEF Honest
  <1>4. ASSUME NEW i \in 1..Len(q) - 1, inbox'[j][i].kind = "progress"
        PROVE  /\ progress'[j] <= inbox'[j][i].chunks /\ inbox'[j][i].chunks <= hashed'[j]
               /\ \A k \in 1..i : inbox'[j][k].kind = "progress" =>
                                    inbox'[j][k].chunks <= inbox'[j][i].chunks
    <2>1. i + 1 \in 1..Len(q) /\ q[i + 1].kind = "progress" /\ 1 \in 1..(i + 1)
      BY <1>1, <1>2, <1>4
    <2>2. /\ progress[j] <= q[i + 1].chunks /\ q[i + 1].chunks <= hashed[j]
          /\ \A k \in 1..(i + 1) : q[k].kind = "progress" => q[k].chunks <= q[i + 1].chunks
      BY <1>3, <2>1 DEF Trail
    <2>3. ASSUME NEW k \in 1..i
          PROVE  k + 1 \in 1..(i + 1) /\ inbox'[j][k] = q[k + 1]
      <3>1. k \in 1..Len(q) - 1 /\ k + 1 \in 1..(i + 1)
        BY <1>1
      <3>2. QED
        BY <1>2, <3>1
    <2>4. progress'[j] <= q[i + 1].chunks
      BY <1>2, <2>1, <2>2
    <2>5. QED
      BY <1>2, <2>2, <2>3, <2>4
  <1>5. ASSUME NEW i \in 1..Len(q) - 1, inbox'[j][i].kind = "fault"
        PROVE  stage'[j] = "failed"
    BY <1>1, <1>2, <1>3, <1>5 DEF Trail
  <1>6. ASSUME NEW i \in 1..Len(q) - 1, inbox'[j][i].kind = "complete"
        PROVE  /\ stage'[j] = "done" /\ i = Len(q) - 1
               /\ wired'[j] => IF i = 1 THEN progress'[j] = size'[j]
                                        ELSE inbox'[j][i - 1] = Progress(size'[j])
    <2>1. i + 1 \in 1..Len(q) /\ q[i + 1].kind = "complete"
      BY <1>1, <1>2, <1>6
    <2>2. /\ stage[j] = "done" /\ i + 1 = Len(q)
          /\ wired[j] => q[i] = Progress(size[j])
      BY <1>1, <1>3, <2>1 DEF Trail
    <2>3. CASE i = 1
      BY <1>2, <2>2, <2>3 DEF Progress
    <2>4. CASE i # 1
      <3>1. i - 1 \in 1..Len(q) - 1 /\ inbox'[j][i - 1] = q[i]
        BY <1>1, <1>2, <2>4
      <3>2. QED
        BY <2>2, <2>4, <3>1
    <2>5. QED
      BY <2>2, <2>3, <2>4
  <1>7. QED
    BY <1>1, <1>2, <1>4, <1>5, <1>6 DEF Trail

\* What an honest worker posts behind its trail continues it.
LEMMA TrailPosted ==
  ASSUME WorkerTypeOK, NEW j \in Careful, Honest(j), stage[j] \in {"waiting", "hashing"},
         NEW m \in Messages, Post(j, <<m>>),
         UNCHANGED progress,
         hashed'[j] \in Nat, hashed[j] <= hashed'[j],
         \/ m.kind = "progress" /\ hashed[j] <= m.chunks /\ m.chunks <= hashed'[j]
         \/ m.kind = "fault" /\ stage'[j] = "failed"
  PROVE  Trail(j)'
  <1> DEFINE q == inbox[j]
  <1> USE WorkerAssumption
  <1>1. /\ q \in Seq(Messages) /\ Len(q) \in Nat
        /\ \A i \in 1..Len(q) : q[i] \in Messages
        /\ progress[j] \in Nat /\ hashed[j] \in Nat /\ progress[j] <= hashed[j] /\ j \in Jobs
    BY DEF WorkerTypeOK, Honest
  <1>2. /\ Len(inbox'[j]) = Len(q) + 1
        /\ \A i \in 1..Len(q) : inbox'[j][i] = q[i]
        /\ inbox'[j][Len(q) + 1] = m
    BY <1>1 DEF Post, WorkerTypeOK
  <1>3. Trail(j) /\ \A i \in 1..Len(q) : q[i].kind \notin {"fault", "complete"}
    BY DEF Honest, Trail
  <1>4. \A i \in 1..Len(q) :
          /\ q[i].kind = "progress" /\ progress[j] <= q[i].chunks /\ q[i].chunks <= hashed[j]
          /\ \A k \in 1..i : q[k].chunks <= q[i].chunks
          /\ q[i].chunks \in Nat
    <2>1. \A i \in 1..Len(q) : q[i].kind = "progress" /\ q[i].chunks \in Nat
      BY <1>1, <1>3 DEF Messages
    <2>2. \A i \in 1..Len(q) : \A k \in 1..i : k \in 1..Len(q)
      BY <1>1
    <2>3. QED
      BY <1>3, <2>1, <2>2 DEF Trail
  <1>5. ASSUME NEW i \in 1..Len(q) + 1, inbox'[j][i].kind = "progress"
        PROVE  /\ progress'[j] <= inbox'[j][i].chunks /\ inbox'[j][i].chunks <= hashed'[j]
               /\ \A k \in 1..i : inbox'[j][k].kind = "progress" =>
                                    inbox'[j][k].chunks <= inbox'[j][i].chunks
    <2>1. CASE i \in 1..Len(q)
      <3>1. \A k \in 1..i : k \in 1..Len(q) /\ inbox'[j][k] = q[k]
        BY <1>1, <1>2, <2>1
      <3>2. /\ progress[j] <= q[i].chunks /\ q[i].chunks <= hashed[j] /\ q[i].chunks \in Nat
            /\ \A k \in 1..i : q[k].chunks <= q[i].chunks
        BY <1>4, <2>1
      <3>3. q[i].chunks <= hashed'[j] /\ progress'[j] = progress[j] /\ inbox'[j][i] = q[i]
        BY <1>1, <1>2, <2>1, <3>2
      <3>4. QED
        BY <3>1, <3>2, <3>3
    <2>2. CASE i = Len(q) + 1
      <3>1. m.chunks \in Nat /\ hashed[j] <= m.chunks /\ m.chunks <= hashed'[j]
        BY <1>2, <1>5, <2>2 DEF Messages
      <3>2. inbox'[j][i] = m /\ progress'[j] = progress[j] /\ progress[j] <= m.chunks
        BY <1>1, <1>2, <2>2, <3>1
      <3>3. ASSUME NEW k \in 1..i  PROVE inbox'[j][k].chunks <= m.chunks
        <4>1. CASE k = i
          BY <3>1, <3>2, <4>1
        <4>2. CASE k # i
          <5>1. k \in 1..Len(q)
            BY <1>1, <2>2, <4>2
          <5>2. inbox'[j][k] = q[k] /\ q[k].chunks <= hashed[j] /\ q[k].chunks \in Nat
            BY <1>2, <1>4, <5>1
          <5>3. QED
            BY <1>1, <3>1, <5>2
        <4>3. QED
          BY <4>1, <4>2
      <3>4. QED
        BY <3>1, <3>2, <3>3
    <2>3. QED
      BY <1>1, <2>1, <2>2
  <1>6. ASSUME NEW i \in 1..Len(q) + 1
        PROVE  /\ inbox'[j][i].kind = "fault" => stage'[j] = "failed"
               /\ inbox'[j][i].kind # "complete"
    <2>1. CASE i \in 1..Len(q)
      BY <1>2, <1>3, <2>1
    <2>2. CASE i = Len(q) + 1
      BY <1>2, <2>2
    <2>3. QED
      BY <1>1, <2>1, <2>2
  <1>7. QED
    BY <1>2, <1>5, <1>6 DEF Trail

LEMMA TrailCompleted ==
  ASSUME WorkerTypeOK, NEW j \in Careful, Honest(j), WorkerComplete(j)
  PROVE  Trail(j)'
  <1> DEFINE q == inbox[j]
  <1> USE WorkerAssumption
  <1>0. /\ stage[j] = "hashing" /\ stage'[j] = "done" /\ hashed[j] = size[j]
        /\ progress'[j] = progress[j] /\ hashed'[j] = hashed[j] /\ size'[j] = size[j]
    BY DEF WorkerComplete, clientSide, WorkerTypeOK
  <1>1. /\ q \in Seq(Messages) /\ Len(q) \in Nat
        /\ \A i \in 1..Len(q) : q[i] \in Messages
        /\ progress[j] \in Nat /\ hashed[j] \in Nat /\ progress[j] <= hashed[j] /\ j \in Jobs
    BY DEF WorkerTypeOK, Honest
  <1>2. /\ Len(inbox'[j]) = Len(q) + 2
        /\ \A i \in 1..Len(q) : inbox'[j][i] = q[i]
        /\ inbox'[j][Len(q) + 1] = Progress(size[j]) /\ inbox'[j][Len(q) + 2] = Complete
    BY <1>1 DEF WorkerComplete, Post, WorkerTypeOK
  <1>3. Trail(j) /\ \A i \in 1..Len(q) : q[i].kind \notin {"fault", "complete"}
    BY <1>0 DEF Honest, Trail
  <1>4. ASSUME NEW i \in 1..Len(q) + 2
        PROVE  i \in 1..Len(q) \/ i = Len(q) + 1 \/ i = Len(q) + 2
    BY <1>1
  <1>5. ASSUME NEW i \in 1..Len(q) + 2, inbox'[j][i].kind = "progress"
        PROVE  /\ progress'[j] <= inbox'[j][i].chunks /\ inbox'[j][i].chunks <= hashed'[j]
               /\ \A k \in 1..i : inbox'[j][k].kind = "progress" =>
                                    inbox'[j][k].chunks <= inbox'[j][i].chunks
    <2>1. CASE i \in 1..Len(q)
      <3>1. \A k \in 1..i : k \in 1..Len(q) /\ inbox'[j][k] = q[k]
        BY <1>1, <1>2, <2>1
      <3>2. inbox'[j][i] = q[i] /\ q[i].kind = "progress"
        BY <1>2, <1>5, <2>1
      <3>3. /\ progress[j] <= q[i].chunks /\ q[i].chunks <= hashed[j]
            /\ \A k \in 1..i : q[k].kind = "progress" => q[k].chunks <= q[i].chunks
        BY <1>3, <2>1, <3>2 DEF Trail
      <3>4. QED
        BY <1>0, <3>1, <3>2, <3>3
    <2>2. CASE i = Len(q) + 1
      <3>1. \A k \in 1..Len(q) : q[k].kind = "progress" => q[k].chunks <= size[j]
        BY <1>0, <1>3 DEF Trail
      <3>2. inbox'[j][i].chunks = size[j]
        BY <1>2, <2>2 DEF Progress
      <3>3. ASSUME NEW k \in 1..i, inbox'[j][k].kind = "progress"
            PROVE  inbox'[j][k].chunks <= size[j]
        <4>1. CASE k = i
          BY <1>0, <1>1, <3>2, <4>1
        <4>2. CASE k # i
          <5>1. k \in 1..Len(q)
            BY <1>1, <2>2, <4>2
          <5>2. QED
            BY <1>2, <3>1, <3>3, <5>1
        <4>3. QED
          BY <4>1, <4>2
      <3>4. QED
        BY <1>0, <1>1, <3>2, <3>3
    <2>3. CASE i = Len(q) + 2
      BY <1>2, <1>5, <2>3 DEF Complete
    <2>4. QED
      BY <1>4, <2>1, <2>2, <2>3
  <1>6. ASSUME NEW i \in 1..Len(q) + 2
        PROVE  /\ inbox'[j][i].kind # "fault"
               /\ inbox'[j][i].kind = "complete" =>
                    i = Len(q) + 2 /\ i # 1 /\ inbox'[j][i - 1] = Progress(size[j])
    <2>1. CASE i \in 1..Len(q)
      BY <1>2, <1>3, <2>1
    <2>2. CASE i = Len(q) + 1
      BY <1>2, <2>2 DEF Progress
    <2>3. CASE i = Len(q) + 2
      BY <1>1, <1>2, <2>3 DEF Complete
    <2>4. QED
      BY <1>4, <2>1, <2>2, <2>3
  <1>7. QED
    BY <1>0, <1>2, <1>5, <1>6 DEF Trail

-----------------------------------------------------------------------------
(* The actions, one group after another                                    *)

\* Jobs settle without a message: by abort, dispose, a timeout or a failed call.
LEMMA SettledKeeps ==
  ASSUME WorkerInv, NEW S, Settled(S), UNCHANGED <<inbox, progress, workerSide>>,
         signal' \in [Jobs -> {"live", "aborted"}],
         \A j \in Careful : outcome'[j] = outcome[j] \/ outcome'[j] \in {"ABORTED", "TIMEOUT"}
  PROVE  WorkerInv'
  <1>1. /\ active' \in SUBSET Jobs
        /\ worker' \in [Jobs -> {"none", "running", "terminated"}]
        /\ wired' \in [Jobs -> BOOLEAN]
        /\ \A j \in Jobs : Matched(j)'
        /\ \A j \in Jobs : wired'[j] => wired[j]
    BY SettledMatches DEF WorkerInv
  <1>2. WorkerTypeOK'
    BY <1>1 DEF WorkerInv, WorkerTypeOK, Settled, workerSide
  <1>3. ASSUME NEW j \in Careful  PROVE Honest(j)'
    BY <1>1, HonestFrame, WorkerAssumption DEF WorkerInv, workerSide
  <1>4. QED
    BY <1>1, <1>2, <1>3 DEF WorkerInv

\* finish(), called by a listener that no message concerns.
LEMMA FinishKeeps ==
  ASSUME WorkerInv, NEW j \in Jobs, wired[j],
         NEW result \in {"ABORTED", "TIMEOUT"}, Finish(j, result),
         UNCHANGED <<disposed, inbox, progress, workerSide>>,
         signal' \in [Jobs -> {"live", "aborted"}]
  PROVE  WorkerInv'
  <1>1. result \in Outcomes \ {"idle", "pending"}
    BY DEF Outcomes
  <1>2. outcome' = [outcome EXCEPT ![j] = result] /\ Settled({j})
    BY <1>1, FinishSettles DEF WorkerInv
  <1>3. \A k \in Careful : outcome'[k] = outcome[k] \/ outcome'[k] \in {"ABORTED", "TIMEOUT"}
    BY <1>2, WorkerAssumption DEF WorkerInv, WorkerTypeOK
  <1>4. QED
    BY <1>2, <1>3, SettledKeeps

\* The calls that end before a worker has the job.
LEMMA NotStartedKeeps ==
  ASSUME WorkerInv, NEW j \in Jobs, DispatchAborted(j) \/ DispatchNoWorker(j)
  PROVE  WorkerInv'
  <1>1. PICK result \in {"ABORTED", "rejected"} :
          /\ outcome[j] = "idle" /\ outcome' = [outcome EXCEPT ![j] = result]
          /\ j \in Careful => result = "ABORTED"
          /\ UNCHANGED <<disposed, active, signal, worker, wired, inbox, progress, workerSide>>
    BY DEF DispatchAborted, DispatchNoWorker
  <1>2. WorkerTypeOK'
    BY <1>1 DEF WorkerInv, WorkerTypeOK, Outcomes, workerSide
  <1>3. \A k \in Jobs : k # j => outcome'[k] = outcome[k]
    BY <1>1 DEF WorkerInv, WorkerTypeOK
  <1>4. outcome'[j] = result
    BY <1>1 DEF WorkerInv, WorkerTypeOK
  <1>5. ASSUME NEW k \in Jobs  PROVE Matched(k)'
    BY <1>1, <1>3, <1>4 DEF WorkerInv, Matched
  <1>6. ASSUME NEW k \in Careful  PROVE Honest(k)'
    BY <1>1, <1>3, <1>4, HonestFrame, WorkerAssumption DEF WorkerInv, workerSide
  <1>7. QED
    BY <1>2, <1>5, <1>6 DEF WorkerInv

LEMMA DispatchKeeps ==
  ASSUME WorkerInv, NEW j \in Jobs, NEW cloned \in BOOLEAN, Dispatch(j, cloned)
  PROVE  WorkerInv'
  <1> USE DEF WorkerInv
  <1>1. outcome[j] = "idle" /\ UNCHANGED <<disposed, signal, inbox, progress, workerSide>>
    BY DEF Dispatch
  <1>2. CASE cloned
    <2>1. /\ outcome' = [outcome EXCEPT ![j] = "pending"]
          /\ worker' = [worker EXCEPT ![j] = "running"]
          /\ wired' = [wired EXCEPT ![j] = TRUE]
          /\ active' = active \cup {j}
          /\ ~disposed
      BY <1>2 DEF Dispatch
    <2>2. WorkerTypeOK'
      BY <1>1, <2>1 DEF WorkerTypeOK, Outcomes, workerSide
    <2>3. \A k \in Jobs : k # j => /\ outcome'[k] = outcome[k] /\ worker'[k] = worker[k]
                                   /\ wired'[k] = wired[k] /\ (k \in active' <=> k \in active)
      BY <2>1 DEF WorkerTypeOK
    <2>4. outcome'[j] = "pending" /\ worker'[j] = "running" /\ wired'[j] = TRUE /\ j \in active'
      BY <2>1 DEF WorkerTypeOK
    <2>5. ASSUME NEW k \in Jobs  PROVE Matched(k)'
      <3>1. CASE k = j
        BY <1>1, <2>1, <2>4, <3>1 DEF Matched
      <3>2. CASE k # j
        BY <1>1, <2>3, <3>2 DEF Matched
      <3>3. QED
        BY <3>1, <3>2
    <2>6. ASSUME NEW k \in Careful  PROVE Honest(k)'
      <3>1. k = j => inbox[k] = <<>>
        BY <1>1 DEF Honest
      <3>2. /\ outcome'[k] = outcome[k] \/ outcome'[k] = "pending"
            /\ wired'[k] => wired[k] \/ inbox[k] = <<>>
        BY <2>3, <2>4, <3>1, WorkerAssumption
      <3>3. QED
        BY <1>1, <3>2, HonestFrame DEF workerSide
    <2>7. QED
      BY <2>2, <2>5, <2>6
  <1>3. CASE ~cloned
    <2>1. /\ outcome' = [outcome EXCEPT ![j] = "rejected"] /\ Cleanup({j}) /\ j \notin Careful
      BY <1>3 DEF Dispatch
    <2>2. Settled({j})
      BY <1>1, <2>1 DEF Settled, WorkerTypeOK, Outcomes
    <2>3. \A k \in Careful : outcome'[k] = outcome[k]
      BY <2>1, WorkerAssumption DEF WorkerTypeOK
    <2>4. signal' \in [Jobs -> {"live", "aborted"}]
      BY <1>1 DEF WorkerTypeOK
    <2>5. QED
      BY <1>1, <2>2, <2>3, <2>4, SettledKeeps
  <1>4. QED
    BY <1>2, <1>3

LEMMA DispatchStoppedKeeps ==
  ASSUME WorkerInv, NEW j \in Jobs, NEW cancels \in BOOLEAN, NEW disposes \in BOOLEAN,
         DispatchStopped(j, cancels, disposes)
  PROVE  WorkerInv'
  <1> DEFINE stopped == {j} \cup (IF disposes THEN active ELSE {})
  <1>1. /\ outcome' = [k \in Jobs |-> IF k \in stopped THEN "ABORTED" ELSE outcome[k]]
        /\ Cleanup(stopped)
        /\ disposed' = disposes
        /\ UNCHANGED <<inbox, progress, workerSide>>
    BY DEF DispatchStopped
  <1>2. signal' \in [Jobs -> {"live", "aborted"}]
    BY DEF DispatchStopped, WorkerInv, WorkerTypeOK
  <1>3. disposed' => active \subseteq stopped
    BY <1>1
  <1> HIDE DEF stopped
  <1>4. Settled(stopped)
    BY <1>1, <1>3 DEF Settled, WorkerInv, WorkerTypeOK, Outcomes
  <1>5. \A k \in Careful : outcome'[k] = outcome[k] \/ outcome'[k] = "ABORTED"
    BY <1>1, WorkerAssumption
  <1>6. QED
    BY <1>1, <1>2, <1>4, <1>5, SettledKeeps

LEMMA AbortKeeps ==
  ASSUME WorkerInv, NEW j \in Jobs, Abort(j)
  PROVE  WorkerInv'
  <1>1. /\ signal' \in [Jobs -> {"live", "aborted"}]
        /\ UNCHANGED <<disposed, inbox, progress, workerSide>>
    BY DEF Abort, WorkerInv, WorkerTypeOK
  <1>2. CASE wired[j]
    BY <1>1, <1>2, FinishKeeps DEF Abort
  <1>3. CASE ~wired[j]
    <2>1. UNCHANGED <<outcome, worker, wired, active>>
      BY <1>3 DEF Abort
    <2>2. WorkerTypeOK'
      BY <1>1, <2>1 DEF WorkerInv, WorkerTypeOK, workerSide
    <2>3. ASSUME NEW k \in Jobs  PROVE Matched(k)'
      BY <1>1, <2>1 DEF WorkerInv, Matched
    <2>4. ASSUME NEW k \in Careful  PROVE Honest(k)'
      BY <1>1, <2>1, HonestFrame DEF WorkerInv, workerSide
    <2>5. QED
      BY <2>2, <2>3, <2>4 DEF WorkerInv
  <1>4. QED
    BY <1>2, <1>3

LEMMA TimeoutKeeps ==
  ASSUME WorkerInv, NEW j \in Jobs, Timeout(j)
  PROVE  WorkerInv'
  BY FinishKeeps DEF Timeout, WorkerInv, WorkerTypeOK

LEMMA DisposeKeeps ==
  ASSUME WorkerInv, Dispose
  PROVE  WorkerInv'
  <1>1. /\ outcome' = [j \in Jobs |-> IF j \in active THEN First(outcome[j], "ABORTED")
                                                     ELSE outcome[j]]
        /\ Cleanup(active) /\ disposed' = TRUE
        /\ UNCHANGED <<signal, inbox, progress, workerSide>>
    BY DEF Dispose
  <1>2. \A j \in Jobs : outcome'[j] = IF j \in active THEN "ABORTED" ELSE outcome[j]
    BY <1>1 DEF WorkerInv, Matched, First
  <1>3. outcome' \in [Jobs -> Outcomes]
    BY <1>1 DEF WorkerInv, WorkerTypeOK, Outcomes, First
  <1>4. Settled(active)
    BY <1>1, <1>2, <1>3 DEF Settled
  <1>5. QED
    BY <1>1, <1>2, <1>4, SettledKeeps, WorkerAssumption DEF WorkerInv, WorkerTypeOK

\* A message is taken off the queue of job j, by a listener or by nobody.
LEMMA MessageKeeps ==
  ASSUME WorkerInv, NEW j \in Jobs, Received(j), UNCHANGED workerSide,
         WorkerTypeOK', \A k \in Jobs : Matched(k)',
         \A k \in Jobs : wired'[k] => wired[k],
         \A k \in Jobs \ {j} : /\ progress'[k] = progress[k]
                               /\ outcome'[k] = outcome[k] \/ outcome'[k] = "ABORTED",
         wired'[j] => Message(j).kind = "progress" /\ progress'[j] = Message(j).chunks,
         \/ progress'[j] = progress[j]
         \/ Message(j).kind = "progress" /\ progress'[j] = Message(j).chunks,
         j \in Careful =>
           \/ outcome'[j] = outcome[j] /\ (outcome[j] # "pending" => progress'[j] = progress[j])
           \/ outcome'[j] = "ABORTED"
           \/ outcome'[j] = "rejected" /\ stage[j] = "failed"
           \/ outcome'[j] = "result" /\ hashed[j] = size[j] /\ progress'[j] = size[j]
  PROVE  WorkerInv'
  <1> USE DEF WorkerInv
  <1>1. \A k \in Jobs : stage'[k] = stage[k] /\ size'[k] = size[k] /\ hashed'[k] = hashed[k]
    BY DEF workerSide
  <1>2. ASSUME NEW k \in Careful, k # j  PROVE Honest(k)'
    <2>1. inbox'[k] = inbox[k]
      BY <1>2, WorkerAssumption DEF Received, WorkerTypeOK
    <2>2. QED
      BY <1>1, <1>2, <2>1, HonestFrame, WorkerAssumption
  <1>3. ASSUME j \in Careful  PROVE Honest(j)'
    <2>1. Honest(j)
      BY <1>3
    <2>2. Trail(j)'
      BY <1>1, <2>1, TrailTail
    <2>3. progress'[j] <= hashed[j]
      BY <2>1, HonestMessage DEF Honest
    <2>4. stage[j] # "waiting"
      BY <2>1 DEF Honest, Received
    <2>5. QED
      BY <1>1, <1>3, <2>1, <2>2, <2>3, <2>4 DEF Honest
  <1>4. QED
    BY <1>2, <1>3

LEMMA DeliverLateKeeps ==
  ASSUME WorkerInv, NEW j \in Jobs, DeliverLate(j)
  PROVE  WorkerInv'
  <1>1. /\ ~wired[j] /\ Received(j)
        /\ UNCHANGED <<disposed, active, signal, outcome, worker, wired, progress, workerSide>>
    BY DEF DeliverLate
  <1>2. inbox' \in [Jobs -> Seq(Messages)]
    BY DEF DeliverLate, Received, WorkerInv, WorkerTypeOK
  <1>3. WorkerTypeOK'
    BY <1>1, <1>2 DEF WorkerInv, WorkerTypeOK, workerSide
  <1>4. \A k \in Jobs : Matched(k)'
    BY <1>1 DEF WorkerInv, Matched
  <1>5. QED
    BY <1>1, <1>3, <1>4, MessageKeeps

\* The listener finishes the job with the message it got.
LEMMA DeliverEndKeeps ==
  ASSUME WorkerInv, NEW j \in Jobs, DeliverComplete(j) \/ DeliverFault(j)
  PROVE  WorkerInv'
  <1> USE DEF WorkerInv
  <1>1. PICK result \in {"result", "rejected"} :
          /\ wired[j] /\ Received(j) /\ Finish(j, result)
          /\ result = "result" => Message(j).kind = "complete"
          /\ result = "rejected" =>
               \/ Message(j).kind = "fault"
               \/ Message(j).kind = "progress" /\ ~Consistent(j, Message(j))
          /\ UNCHANGED <<disposed, signal, progress, workerSide>>
    BY DEF DeliverComplete, DeliverFault
  <1>2. result \in Outcomes \ {"idle", "pending"}
    BY DEF Outcomes
  <1>3. /\ outcome[j] = "pending" /\ outcome' = [outcome EXCEPT ![j] = result]
        /\ Settled({j})
    BY <1>1, <1>2, FinishSettles
  <1>4. /\ active' \in SUBSET Jobs
        /\ worker' \in [Jobs -> {"none", "running", "terminated"}]
        /\ wired' \in [Jobs -> BOOLEAN]
        /\ \A k \in Jobs : Matched(k)'
        /\ \A k \in Jobs : wired'[k] => wired[k]
    BY <1>3, SettledMatches
  <1>5. inbox' \in [Jobs -> Seq(Messages)]
    BY <1>1 DEF Received, WorkerTypeOK
  <1>6. WorkerTypeOK'
    BY <1>1, <1>3, <1>4, <1>5 DEF WorkerTypeOK, Settled, workerSide
  <1>7. ~wired'[j] /\ outcome'[j] = result
    BY <1>3, <1>4 DEF Matched, WorkerTypeOK
  <1>8. j \in Careful =>
          /\ result = "rejected" => stage[j] = "failed"
          /\ result = "result" => hashed[j] = size[j] /\ progress[j] = size[j]
    BY <1>1, HonestMessage
  <1>9. \A k \in Jobs : k # j => outcome'[k] = outcome[k]
    BY <1>3 DEF WorkerTypeOK
  <1>10. \A k \in Jobs : progress'[k] = progress[k]
    BY <1>1
  <1>11. QED
    BY <1>1, <1>4, <1>6, <1>7, <1>8, <1>9, <1>10, MessageKeeps

LEMMA DeliverProgressKeeps ==
  ASSUME WorkerInv, NEW j \in Jobs, NEW cancels \in BOOLEAN, NEW disposes \in BOOLEAN,
         NEW throws \in BOOLEAN, DeliverProgress(j, cancels, disposes, throws)
  PROVE  WorkerInv'
  <1> USE DEF WorkerInv
  <1> DEFINE stopped == (IF cancels THEN {j} ELSE {}) \cup (IF disposes THEN active ELSE {})
             failed == IF throws THEN {j} ELSE {}
             first == [k \in Jobs |-> IF k \in stopped THEN First(outcome[k], "ABORTED")
                                                       ELSE outcome[k]]
  <1>1. /\ wired[j] /\ Received(j) /\ Message(j).kind = "progress"
        /\ j \in Careful => ~throws
        /\ progress' = [progress EXCEPT ![j] = Message(j).chunks]
        /\ signal' = [signal EXCEPT ![j] = IF cancels THEN "aborted" ELSE @]
        /\ disposed' = (disposed \/ disposes)
        /\ outcome' = [k \in Jobs |-> IF k \in failed THEN First(first[k], "rejected")
                                                      ELSE first[k]]
        /\ Cleanup(stopped \cup failed)
        /\ UNCHANGED workerSide
    BY DEF DeliverProgress
  <1>2. \A k \in stopped \cup failed : k \in Jobs /\ outcome[k] = "pending"
    BY <1>1 DEF Matched, WorkerTypeOK
  <1>3. ASSUME NEW k \in Jobs
        PROVE  outcome'[k] = IF k \in stopped THEN "ABORTED"
                             ELSE IF k \in failed THEN "rejected" ELSE outcome[k]
    BY <1>1, <1>2 DEF First
  <1>4. disposed' \in BOOLEAN /\ (disposed' => disposed \/ active \subseteq stopped)
    BY <1>1 DEF WorkerTypeOK
  <1>5. \A k \in failed : k \notin Careful
    BY <1>1
  <1>6. stopped \subseteq Jobs /\ failed \subseteq {j}
    BY DEF WorkerTypeOK
  <1>7. outcome' = [k \in Jobs |-> outcome'[k]]
    BY <1>1
  <1> HIDE DEF stopped, failed, first
  <1>8. outcome' \in [Jobs -> Outcomes]
    BY <1>3, <1>7 DEF WorkerTypeOK, Outcomes
  <1>9. Settled(stopped \cup failed)
    BY <1>1, <1>3, <1>4, <1>8 DEF Settled
  <1>10. /\ active' \in SUBSET Jobs
         /\ worker' \in [Jobs -> {"none", "running", "terminated"}]
         /\ wired' \in [Jobs -> BOOLEAN]
         /\ \A k \in Jobs : Matched(k)'
         /\ \A k \in Jobs : wired'[k] => wired[k]
    BY <1>9, SettledMatches
  <1>11. Message(j).chunks \in Nat
    <2>1. inbox[j] \in Seq(Messages) /\ inbox[j] # <<>>
      BY <1>1 DEF Received, WorkerTypeOK
    <2>2. Message(j) \in Messages
      BY <2>1 DEF Message
    <2>3. QED
      BY <2>2 DEF Messages
  <1>12. inbox' \in [Jobs -> Seq(Messages)]
    BY <1>1 DEF Received, WorkerTypeOK
  <1>13. WorkerTypeOK'
    BY <1>1, <1>4, <1>8, <1>10, <1>11, <1>12 DEF WorkerTypeOK, workerSide
  <1>14. /\ progress'[j] = Message(j).chunks
         /\ \A k \in Jobs \ {j} : progress'[k] = progress[k]
    BY <1>1 DEF WorkerTypeOK
  <1>15. \A k \in Jobs \ {j} : outcome'[k] = outcome[k] \/ outcome'[k] = "ABORTED"
    BY <1>3, <1>6
  <1>16. j \in Careful => /\ outcome[j] = "pending"
                          /\ outcome'[j] = outcome[j] \/ outcome'[j] = "ABORTED"
    BY <1>1, <1>3, <1>5 DEF Matched
  <1>17. QED
    BY <1>1, <1>10, <1>13, <1>14, <1>15, <1>16, MessageKeeps

\* A step of a running worker touches nothing but its own queue, stage and count.
LEMMA WorkerKeeps ==
  ASSUME WorkerInv, NEW j \in Jobs, Worker(j)
  PROVE  WorkerInv'
  <1> USE DEF WorkerInv
  <1>1. worker[j] = "running" /\ UNCHANGED <<clientSide, size>>
    BY DEF Worker, WorkerStart, WorkerChunk, WorkerComplete, WorkerFails, WorkerMisbehaves
  <1>2. outcome[j] = "pending"
    BY <1>1 DEF Matched
  <1>3. PICK messages \in Seq(Messages) : Post(j, messages)
    <2>1. \A n \in Nat : Progress(n) \in Messages
      BY DEF Progress, Messages
    <2>2. Fault \in Messages /\ Complete \in Messages
      BY DEF Fault, Complete, Messages
    <2>3. /\ \A m \in Messages : <<m>> \in Seq(Messages)
          /\ \A m, n \in Messages : <<m, n>> \in Seq(Messages)
      OBVIOUS
    <2>4. hashed[j] + 1 \in Nat /\ size[j] \in Nat /\ 0 \in Nat
      BY DEF WorkerTypeOK
    <2>5. CASE WorkerStart(j)
      <3>1. Post(j, <<Progress(0)>>) /\ <<Progress(0)>> \in Seq(Messages)
        BY <2>1, <2>3, <2>4, <2>5, Zenon DEF WorkerStart
      <3>2. QED
        BY <3>1, Zenon
    <2>6. CASE WorkerChunk(j)
      <3>1. Post(j, <<Progress(hashed[j] + 1)>>) /\ <<Progress(hashed[j] + 1)>> \in Seq(Messages)
        BY <2>1, <2>3, <2>4, <2>6, Zenon DEF WorkerChunk
      <3>2. QED
        BY <3>1, Zenon
    <2>7. CASE WorkerComplete(j)
      <3>1. /\ Post(j, <<Progress(size[j]), Complete>>)
            /\ <<Progress(size[j]), Complete>> \in Seq(Messages)
        BY <2>1, <2>2, <2>3, <2>4, <2>7, Zenon DEF WorkerComplete
      <3>2. QED
        BY <3>1, Zenon
    <2>8. CASE WorkerFails(j)
      <3>1. Post(j, <<Fault>>) /\ <<Fault>> \in Seq(Messages)
        BY <2>2, <2>3, <2>8, Zenon DEF WorkerFails
      <3>2. QED
        BY <3>1, Zenon
    <2>9. ASSUME NEW m \in {Fault, Complete} \cup {Progress(n) : n \in 0..size[j] + 1},
                 WorkerMisbehaves(j, m)
          PROVE  \E messages \in Seq(Messages) : Post(j, messages)
      <3>1. m \in Messages
        <4>1. 0..size[j] + 1 \subseteq Nat
          BY <2>4
        <4>2. QED
          BY <2>1, <2>2, <4>1
      <3>2. Post(j, <<m>>) /\ <<m>> \in Seq(Messages)
        BY <2>3, <2>9, <3>1, Zenon DEF WorkerMisbehaves
      <3>3. QED
        BY <3>2, Zenon
    <2>10. QED
      BY <2>5, <2>6, <2>7, <2>8, <2>9 DEF Worker
  <1>4. inbox' \in [Jobs -> Seq(Messages)]
    BY <1>3 DEF Post, WorkerTypeOK
  <1>5. /\ stage' \in [Jobs -> {"waiting", "hashing", "done", "failed"}]
        /\ hashed' \in [Jobs -> Nat]
    <2>1. \/ \E to \in {"hashing", "done", "failed"} : stage' = [stage EXCEPT ![j] = to]
          \/ UNCHANGED stage
      BY DEF Worker, WorkerStart, WorkerChunk, WorkerComplete, WorkerFails, WorkerMisbehaves
    <2>2. \/ hashed' = [hashed EXCEPT ![j] = @ + 1]
          \/ UNCHANGED hashed
      BY DEF Worker, WorkerStart, WorkerChunk, WorkerComplete, WorkerFails, WorkerMisbehaves
    <2>3. stage' \in [Jobs -> {"waiting", "hashing", "done", "failed"}]
      BY <2>1 DEF WorkerTypeOK
    <2>4. hashed \in [Jobs -> Nat] /\ hashed[j] + 1 \in Nat
      BY DEF WorkerTypeOK
    <2>5. hashed' \in [Jobs -> Nat]
      BY <2>2, <2>4
    <2>6. QED
      BY <2>3, <2>5
  <1>6. WorkerTypeOK'
    BY <1>1, <1>4, <1>5 DEF WorkerTypeOK, clientSide
  <1>7. \A k \in Jobs : Matched(k)'
    BY <1>1 DEF Matched, clientSide
  <1>8. ASSUME NEW k \in Careful, k # j  PROVE Honest(k)'
    <2>1. inbox'[k] = inbox[k]
      BY <1>3, <1>8, WorkerAssumption DEF Post, WorkerTypeOK
    <2>2. stage'[k] = stage[k] /\ hashed'[k] = hashed[k]
      BY <1>8, WorkerAssumption
         DEF Worker, WorkerStart, WorkerChunk, WorkerComplete, WorkerFails, WorkerMisbehaves,
             WorkerTypeOK
    <2>3. QED
      BY <1>1, <2>1, <2>2, HonestFrame DEF clientSide
  <1>9. ASSUME j \in Careful  PROVE Honest(j)'
    <2>1. /\ Honest(j) /\ progress[j] \in Nat /\ hashed[j] \in Nat /\ size[j] \in Nat
          /\ progress'[j] = progress[j] /\ outcome'[j] = outcome[j] /\ size'[j] = size[j]
          /\ UNCHANGED progress
      BY <1>1, <1>9 DEF clientSide, WorkerTypeOK
    <2>2. CASE WorkerStart(j)
      <3>1. /\ stage[j] = "waiting" /\ stage'[j] = "hashing" /\ hashed'[j] = hashed[j]
            /\ Post(j, <<Progress(0)>>)
        BY <2>2 DEF WorkerStart, WorkerTypeOK
      <3>2. inbox'[j] = <<Progress(0)>>
        BY <2>1, <3>1 DEF Honest, Post, WorkerTypeOK
      <3>3. /\ Len(inbox'[j]) = 1 /\ inbox'[j][1].kind = "progress" /\ inbox'[j][1].chunks = 0
            /\ progress[j] = 0
        BY <2>1, <3>1, <3>2 DEF Progress, Honest
      <3>4. Trail(j)'
        BY <2>1, <3>1, <3>3 DEF Trail
      <3>5. QED
        BY <1>2, <2>1, <3>1, <3>4 DEF Honest
    <2>3. CASE WorkerChunk(j)
      <3>1. /\ stage[j] = "hashing" /\ stage'[j] = "hashing" /\ hashed'[j] = hashed[j] + 1
            /\ hashed[j] < size[j] /\ Post(j, <<Progress(hashed[j] + 1)>>)
        BY <2>3 DEF WorkerChunk, WorkerTypeOK
      <3>2. /\ Progress(hashed[j] + 1) \in Messages
            /\ Progress(hashed[j] + 1).kind = "progress"
            /\ Progress(hashed[j] + 1).chunks = hashed[j] + 1
        BY <2>1 DEF Progress, Messages
      <3>3. Trail(j)'
        BY <1>9, <2>1, <3>1, <3>2, TrailPosted
      <3>4. QED
        BY <1>2, <2>1, <3>1, <3>3 DEF Honest
    <2>4. CASE WorkerComplete(j)
      <3>1. /\ stage'[j] = "done" /\ hashed'[j] = hashed[j] /\ hashed[j] = size[j]
        BY <2>4 DEF WorkerComplete, WorkerTypeOK
      <3>2. Trail(j)'
        BY <1>9, <2>1, <2>4, TrailCompleted
      <3>3. QED
        BY <1>2, <2>1, <3>1, <3>2 DEF Honest
    <2>5. CASE WorkerFails(j)
      <3>1. /\ stage[j] = "hashing" /\ stage'[j] = "failed" /\ hashed'[j] = hashed[j]
            /\ Post(j, <<Fault>>)
        BY <2>5 DEF WorkerFails, WorkerTypeOK
      <3>2. Fault \in Messages /\ Fault.kind = "fault"
        BY DEF Fault, Messages
      <3>3. Trail(j)'
        BY <1>9, <2>1, <3>1, <3>2, TrailPosted
      <3>4. QED
        BY <1>2, <2>1, <3>1, <3>3 DEF Honest
    <2>6. QED
      BY <1>9, <2>2, <2>3, <2>4, <2>5 DEF Worker, WorkerMisbehaves
  <1>10. QED
    BY <1>6, <1>7, <1>8, <1>9

-----------------------------------------------------------------------------
LEMMA WorkerInvInit == Init => WorkerInv
  <1> SUFFICES ASSUME Init  PROVE WorkerInv
    OBVIOUS
  <1>1. size \in [Jobs -> Nat] /\ inbox \in [Jobs -> Seq(Messages)]
    <2>1. size \in [Jobs -> 0..MaxChunks] /\ 0..MaxChunks \subseteq Nat
      BY DEF Init
    <2>2. inbox = [j \in Jobs |-> <<>>] /\ <<>> \in Seq(Messages)
      BY DEF Init
    <2>3. QED
      BY <2>1, <2>2
  <1>2. WorkerTypeOK
    BY <1>1 DEF Init, WorkerTypeOK, Outcomes
  <1>3. \A j \in Jobs : Matched(j)
    BY DEF Init, Matched
  <1>4. ASSUME NEW j \in Careful  PROVE Honest(j)
    <2>1. /\ inbox[j] = <<>> /\ progress[j] = 0 /\ hashed[j] = 0 /\ size[j] \in Nat
          /\ stage[j] = "waiting" /\ outcome[j] = "idle"
      BY <1>1, WorkerAssumption DEF Init
    <2>2. Trail(j)
      BY <2>1 DEF Trail
    <2>3. QED
      BY <2>1, <2>2 DEF Honest
  <1>5. QED
    BY <1>2, <1>3, <1>4 DEF WorkerInv

LEMMA WorkerInvStep == WorkerInv /\ [Next]_workerVars => WorkerInv'
  <1> SUFFICES ASSUME WorkerInv, [Next]_workerVars  PROVE WorkerInv'
    OBVIOUS
  <1>1. ASSUME NEW j \in Jobs, Client(j)  PROVE WorkerInv'
    BY <1>1, NotStartedKeeps, DispatchKeeps, DispatchStoppedKeeps, AbortKeeps, TimeoutKeeps,
       DeliverLateKeeps, DeliverEndKeeps, DeliverProgressKeeps DEF Client
  <1>2. ASSUME NEW j \in Jobs, Worker(j)  PROVE WorkerInv'
    BY <1>2, WorkerKeeps
  <1>3. CASE Dispose
    BY <1>3, DisposeKeeps
  <1>4. CASE UNCHANGED workerVars
    BY <1>4 DEF workerVars, WorkerInv, WorkerTypeOK, Matched, Honest, Trail
  <1>5. QED
    BY <1>1, <1>2, <1>3, <1>4 DEF Next

\* Jobs, workers, listeners and registered aborts stay paired, and the trail of
\* every honest worker stays in order, through every handler on either side.
THEOREM WorkerCorrect == Spec => []WorkerInv
  BY WorkerInvInit, WorkerInvStep, PTL DEF Spec

\* No worker outlives its job, no job waits without one, and a disposed client has
\* neither.
THEOREM WorkersPaired == Spec => []WorkersMatchJobs
  <1>1. WorkerInv => WorkersMatchJobs
    BY DEF WorkerInv, Matched, WorkersMatchJobs
  <1>2. QED
    BY <1>1, WorkerCorrect, PTL

\* The client never rejects the messages of an honest worker, and a hash it reports
\* is that of the whole file, shown to its end.
THEOREM HonestWorkersServed == Spec => []HonestJobsEndRight
  <1>1. WorkerInv => HonestJobsEndRight
    BY DEF WorkerInv, Honest, HonestJobsEndRight
  <1>2. QED
    BY <1>1, WorkerCorrect, PTL

-----------------------------------------------------------------------------
(* What no step may do                                                     *)

\* The two action properties, of one job.
Promised(j) ==
  /\ outcome[j] = "pending" /\ (signal'[j] # signal[j] \/ disposed' # disposed) =>
       outcome'[j] = "ABORTED"
  /\ outcome[j] \notin {"idle", "pending"} => outcome'[j] = outcome[j]
  /\ outcome[j] # "pending" => progress'[j] = progress[j]
  /\ progress'[j] >= progress[j]

LEMMA PromisedFrame ==
  ASSUME WorkerTypeOK, NEW j \in Jobs, progress'[j] = progress[j],
         \/ outcome'[j] = outcome[j] /\ signal'[j] = signal[j] /\ disposed' = disposed
         \/ outcome[j] = "idle"
         \/ /\ outcome[j] = "pending"
            /\ \/ outcome'[j] = "ABORTED"
               \/ signal'[j] = signal[j] /\ disposed' = disposed
         \/ outcome[j] # "pending" /\ outcome'[j] = outcome[j]
  PROVE  Promised(j)
  BY DEF Promised, WorkerTypeOK

LEMMA StepPromised ==
  ASSUME WorkerInv, [Next]_workerVars, NEW k \in Jobs
  PROVE  Promised(k)
  <1> USE DEF WorkerInv
  <1>1. ASSUME NEW j \in Jobs,
               \/ DispatchAborted(j) \/ DispatchNoWorker(j)
               \/ \E cloned \in BOOLEAN : Dispatch(j, cloned)
        PROVE  Promised(k)
    <2>1. /\ outcome[j] = "idle" /\ UNCHANGED <<disposed, signal, progress>>
          /\ \E result \in Outcomes : outcome' = [outcome EXCEPT ![j] = result]
      BY <1>1 DEF DispatchAborted, DispatchNoWorker, Dispatch, Outcomes
    <2>2. outcome'[k] = outcome[k] \/ outcome[k] = "idle"
      BY <2>1 DEF WorkerTypeOK
    <2>3. QED
      BY <2>1, <2>2, PromisedFrame
  <1>2. ASSUME NEW j \in Jobs, NEW cancels \in BOOLEAN, NEW disposes \in BOOLEAN,
               DispatchStopped(j, cancels, disposes)
        PROVE  Promised(k)
    <2> DEFINE stopped == {j} \cup (IF disposes THEN active ELSE {})
    <2>1. /\ outcome[j] = "idle" /\ ~disposed /\ disposed' = disposes
          /\ signal' = [signal EXCEPT ![j] = IF cancels THEN "aborted" ELSE @]
          /\ outcome' = [i \in Jobs |-> IF i \in stopped THEN "ABORTED" ELSE outcome[i]]
          /\ progress' = progress
      BY <1>2 DEF DispatchStopped
    <2>2. CASE k = j
      BY <2>1, <2>2, PromisedFrame
    <2>3. CASE k # j /\ k \in stopped
      <3>1. outcome[k] = "pending" /\ outcome'[k] = "ABORTED" /\ progress'[k] = progress[k]
        BY <2>1, <2>3 DEF Matched
      <3>2. QED
        BY <3>1 DEF Promised, WorkerTypeOK
    <2>4. CASE k # j /\ k \notin stopped
      <3>1. outcome'[k] = outcome[k] /\ signal'[k] = signal[k]
        BY <2>1, <2>4 DEF WorkerTypeOK
      <3>2. outcome[k] = "pending" => ~disposes
        BY <2>4 DEF Matched
      <3>3. QED
        BY <2>1, <3>1, <3>2, PromisedFrame DEF WorkerTypeOK
    <2>5. QED
      BY <2>2, <2>3, <2>4
  <1>3. ASSUME NEW j \in Jobs, Abort(j) \/ Timeout(j)
        PROVE  Promised(k)
    <2>1. /\ UNCHANGED <<disposed, progress>>
          /\ \A i \in Jobs \ {j} : signal'[i] = signal[i]
      BY <1>3 DEF Abort, Timeout, WorkerTypeOK
    <2>2. CASE wired[j]
      <3>1. PICK result \in {"ABORTED", "TIMEOUT"} :
              /\ Finish(j, result)
              /\ result = "TIMEOUT" => signal' = signal
        BY <1>3, <2>2 DEF Abort, Timeout
      <3>2. outcome[j] = "pending" /\ outcome' = [outcome EXCEPT ![j] = result]
        BY <2>1, <2>2, <3>1, FinishSettles DEF Outcomes
      <3>3. CASE k = j
        BY <2>1, <3>1, <3>2, <3>3, PromisedFrame DEF WorkerTypeOK
      <3>4. CASE k # j
        BY <2>1, <3>2, <3>4, PromisedFrame DEF WorkerTypeOK
      <3>5. QED
        BY <3>3, <3>4
    <2>3. CASE ~wired[j]
      <3>1. UNCHANGED outcome /\ outcome[j] # "pending"
        BY <1>3, <2>3 DEF Abort, Timeout, Matched
      <3>2. QED
        BY <2>1, <3>1, PromisedFrame
    <2>4. QED
      BY <2>2, <2>3
  <1>4. ASSUME Dispose  PROVE Promised(k)
    <2>1. /\ UNCHANGED <<signal, progress>>
          /\ outcome'[k] = IF k \in active THEN First(outcome[k], "ABORTED") ELSE outcome[k]
      BY <1>4 DEF Dispose
    <2>2. CASE outcome[k] = "pending"
      <3>1. outcome'[k] = "ABORTED" /\ progress'[k] = progress[k]
        BY <2>1, <2>2 DEF First, Matched
      <3>2. QED
        BY <2>2, <3>1 DEF Promised, WorkerTypeOK
    <2>3. CASE outcome[k] # "pending"
      BY <2>1, <2>3, PromisedFrame DEF First
    <2>4. QED
      BY <2>2, <2>3
  <1>5. ASSUME NEW j \in Jobs, DeliverLate(j) \/ Worker(j)
        PROVE  Promised(k)
    <2>1. UNCHANGED <<disposed, signal, outcome, progress>>
      BY <1>5 DEF DeliverLate, Worker, WorkerStart, WorkerChunk, WorkerComplete, WorkerFails,
                  WorkerMisbehaves, clientSide
    <2>2. QED
      BY <2>1, PromisedFrame
  <1>6. ASSUME NEW j \in Jobs, DeliverComplete(j) \/ DeliverFault(j)
        PROVE  Promised(k)
    <2>1. /\ UNCHANGED <<disposed, signal, progress>>
          /\ wired[j]
      BY <1>6 DEF DeliverComplete, DeliverFault
    <2>2. PICK result \in {"result", "rejected"} : Finish(j, result)
      BY <1>6 DEF DeliverComplete, DeliverFault
    <2>3. result \in Outcomes \ {"idle", "pending"}
      BY DEF Outcomes
    <2>4. outcome[j] = "pending" /\ outcome' = [outcome EXCEPT ![j] = result]
      BY <2>1, <2>2, <2>3, FinishSettles
    <2>5. k # j => outcome'[k] = outcome[k]
      BY <2>4 DEF WorkerTypeOK
    <2>6. QED
      BY <2>1, <2>4, <2>5, PromisedFrame
  <1>7. ASSUME NEW j \in Jobs, NEW cancels \in BOOLEAN, NEW disposes \in BOOLEAN,
               NEW throws \in BOOLEAN, DeliverProgress(j, cancels, disposes, throws)
        PROVE  Promised(k)
    <2> DEFINE stopped == (IF cancels THEN {j} ELSE {}) \cup (IF disposes THEN active ELSE {})
               failed == IF throws THEN {j} ELSE {}
               first == [i \in Jobs |-> IF i \in stopped THEN First(outcome[i], "ABORTED")
                                                         ELSE outcome[i]]
    <2>1. /\ wired[j] /\ Consistent(j, Message(j))
          /\ progress' = [progress EXCEPT ![j] = Message(j).chunks]
          /\ signal' = [signal EXCEPT ![j] = IF cancels THEN "aborted" ELSE @]
          /\ disposed' = (disposed \/ disposes)
          /\ outcome' = [i \in Jobs |-> IF i \in failed THEN First(first[i], "rejected")
                                                        ELSE first[i]]
      BY <1>7 DEF DeliverProgress
    <2>2. /\ outcome[j] = "pending" /\ \A i \in stopped \cup failed : outcome[i] = "pending"
      BY <2>1 DEF Matched, WorkerTypeOK
    <2>3. /\ k \in stopped => outcome'[k] = "ABORTED"
          /\ k \notin stopped \cup failed => outcome'[k] = outcome[k]
      BY <2>1, <2>2 DEF First
    <2>4. progress'[k] >= progress[k] /\ (k # j => progress'[k] = progress[k])
      BY <2>1 DEF Consistent, WorkerTypeOK
    <2>5. outcome[k] = "pending" /\ (signal'[k] # signal[k] \/ disposed' # disposed) =>
            k \in stopped
      BY <2>1 DEF Matched, WorkerTypeOK
    <2>6. QED
      BY <2>2, <2>3, <2>4, <2>5 DEF Promised
  <1>8. CASE UNCHANGED workerVars
    BY <1>8, PromisedFrame DEF workerVars
  <1>9. QED
    BY <1>1, <1>2, <1>3, <1>4, <1>5, <1>6, <1>7, <1>8 DEF Next, Client

\* Abort and dispose settle every unsettled job they reach with ABORTED, from
\* inside a callback that then throws, too.
THEOREM CancelAborts == Spec => CancelMeansAborted
  <1> DEFINE Aborts == \A j \in Jobs :
                         /\ outcome[j] = "pending"
                         /\ \/ signal'[j] # signal[j]
                            \/ disposed' # disposed
                         => outcome'[j] = "ABORTED"
  <1>1. WorkerInv /\ [Next]_workerVars => [Aborts]_workerVars
    BY StepPromised DEF Promised
  <1>2. QED
    BY <1>1, WorkerCorrect, PTL DEF Spec, CancelMeansAborted

\* A promise settles once; progress never falls back, and none is shown after it.
THEOREM SettledStays == Spec => SettledForGood
  <1> DEFINE Stays == \A j \in Jobs :
                        /\ outcome[j] \notin {"idle", "pending"} => outcome'[j] = outcome[j]
                        /\ outcome[j] # "pending" => progress'[j] = progress[j]
                        /\ progress'[j] >= progress[j]
  <1>1. WorkerInv /\ [Next]_workerVars => [Stays]_workerVars
    BY StepPromised DEF Promised
  <1>2. QED
    BY <1>1, WorkerCorrect, PTL DEF Spec, SettledForGood
=============================================================================
