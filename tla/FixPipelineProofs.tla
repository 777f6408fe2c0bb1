------------------------- MODULE FixPipelineProofs -------------------------
(***************************************************************************)
(* IInv is an inductive invariant of FixPipeline for every number of       *)
(* projects, errors, jobs, workers, attempts and pull requests, and for    *)
(* every bound on tries, kills and unreported writes.  One lemma per       *)
(* action shows that the action keeps it, one step per part of IInv.       *)
(***************************************************************************)
EXTENDS FixPipeline, FiniteSetTheorems, TLAPS

-----------------------------------------------------------------------------
(* Types of the values the actions build.                                  *)

\* The records of a job outside a worker are jobs.
LEMMA JobTypes ==
    /\ EndedJob \in Job
    /\ \A e \in Errors, n \in 1..MaxTries : QueuedJob(e, n) \in Job
  BY ConstantsAssumption DEF EndedJob, QueuedJob, IdleJob, InRedis, Job, JobState, Steps

\* Moving a job to another step changes its pc and nothing else.
LEMMA GotoType ==
    ASSUME jobs \in [Jobs -> Job], NEW j \in Jobs, NEW s \in JobState, Goto(j, s)
    PROVE  /\ jobs' \in [Jobs -> Job]
           /\ jobs'[j].pc = s
           /\ jobs'[j].error = jobs[j].error /\ jobs'[j].try = jobs[j].try
           /\ jobs'[j].worker = jobs[j].worker
           /\ jobs'[j].attempt = jobs[j].attempt /\ jobs'[j].pr = jobs[j].pr
           /\ jobs'[j].repo = jobs[j].repo
           /\ \A k \in Jobs : k # j => jobs'[k] = jobs[k]
  BY DEF Goto, Job

\* Giving a job to a worker.
LEMMA GotoWithWorker ==
    ASSUME jobs \in [Jobs -> Job], NEW j \in Jobs, NEW s \in JobState, NEW v \in Workers,
           jobs' = [jobs EXCEPT ![j].pc = s, ![j].worker = v]
    PROVE  /\ jobs' \in [Jobs -> Job]
           /\ jobs'[j].pc = s /\ jobs'[j].worker = v
           /\ jobs'[j].error = jobs[j].error /\ jobs'[j].try = jobs[j].try
           /\ jobs'[j].attempt = jobs[j].attempt /\ jobs'[j].pr = jobs[j].pr
           /\ jobs'[j].repo = jobs[j].repo
           /\ \A k \in Jobs : k # j => jobs'[k] = jobs[k]
  BY DEF Job

\* Writing the status and pr_url of one row keeps the type of attempts, and no
\* other row or column changes.
LEMMA WriteRow ==
    ASSUME attempts \in [Attempts -> AttemptRow], NEW a \in Attempts,
           NEW s \in AttemptStatus, NEW u \in Prs \cup {None},
           attempts' = [attempts EXCEPT ![a].status = s, ![a].url = u]
    PROVE  /\ attempts' \in [Attempts -> AttemptRow]
           /\ attempts'[a].status = s /\ attempts'[a].url = u
           /\ attempts'[a].error = attempts[a].error
           /\ \A b \in Attempts : b # a => attempts'[b] = attempts[b]
  BY DEF AttemptRow

\* The same for a write of the status alone.
LEMMA WriteStatus ==
    ASSUME attempts \in [Attempts -> AttemptRow], NEW a \in Attempts,
           NEW s \in AttemptStatus, attempts' = [attempts EXCEPT ![a].status = s]
    PROVE  /\ attempts' \in [Attempts -> AttemptRow]
           /\ attempts'[a].status = s /\ attempts'[a].url = attempts[a].url
           /\ attempts'[a].error = attempts[a].error
           /\ \A b \in Attempts : b # a => attempts'[b] = attempts[b]
  BY DEF AttemptRow

\* Requeueing interrupted jobs keeps the type of jobs: tries stay bounded.
LEMMA RequeuedType ==
    ASSUME jobs \in [Jobs -> Job], NEW js \in SUBSET Jobs,
           \A j \in js : jobs[j].error \in Errors /\ jobs[j].try # 0
    PROVE  Requeued(js) \in [Jobs -> Job]
<1>1. SUFFICES ASSUME NEW j \in Jobs PROVE Requeued(js)[j] \in Job
  BY DEF Requeued
<1>2. CASE j \in js /\ jobs[j].try < MaxTries
  <2>1. jobs[j].try + 1 \in 1..MaxTries
    BY <1>2, ConstantsAssumption DEF Job
  <2>2. QED BY <1>2, <2>1, JobTypes DEF Requeued
<1>3. CASE j \in js /\ ~(jobs[j].try < MaxTries)
  BY <1>3, JobTypes DEF Requeued
<1>4. CASE j \notin js
  BY <1>4 DEF Requeued
<1>5. QED BY <1>2, <1>3, <1>4

\* The contexts of jobs hold attempts.
LEMMA HeldByType ==
    ASSUME JobKnowledge, NEW js \in SUBSET Jobs
    PROVE  HeldBy(js) \subseteq Attempts
  BY DEF JobKnowledge, HeldBy

-----------------------------------------------------------------------------
(* Init and the steps.                                                     *)

\* The job goes on to prepare or is over.
LEMMA LoadErrorKeeps ==
    ASSUME IInv, NEW j \in Jobs, LoadError(j)
    PROVE  IInv'
<1>1. PICK s \in {"prepare", "finish"} : Goto(j, s)
  BY DEF LoadError
<1>2. jobs[j].pc = "load" /\ UNCHANGED <<database, github, dirs, faults>>
  BY DEF LoadError
<1>3. /\ jobs' \in [Jobs -> Job]
      /\ jobs'[j].pc = s
      /\ jobs'[j].error = jobs[j].error /\ jobs'[j].try = jobs[j].try
      /\ \A k \in Jobs : k # j => jobs'[k] = jobs[k]
  BY <1>1, GotoType DEF IInv, TypeOK, JobState, Steps
<1>4. jobs'[j].pc \notin Holding \cup {"queued"} /\ jobs'[j].error \in Errors /\ jobs'[j].try # 0
  BY <1>1, <1>2, <1>3 DEF IInv, JobKnowledge, Holding, Steps
<1>5. TypeOK'
  BY <1>1, <1>2, <1>3 DEF IInv, TypeOK, JobState, Steps, database, github,
     faults
<1>6. JobKnowledge'
  BY <1>2, <1>3, <1>4 DEF IInv, JobKnowledge, Holding, database, github
<1>7. HeldByOneJob'
  BY <1>1, <1>2, <1>3 DEF IInv, HeldByOneJob, Holding, database, github,
     faults
<1>8. OneHeadPerBranch'
  BY <1>1, <1>2, <1>3 DEF IInv, OneHeadPerBranch, database, github, faults
<1>9. AttemptsKnown'
  BY <1>1, <1>2, <1>3 DEF IInv, AttemptsKnown, TypeOK, AttemptRow, database,
     github, faults
<1>10. PrsKnown'
  BY <1>1, <1>2, <1>3 DEF IInv, PrsKnown, database, github
<1>11. FixAttemptedHasPr'
  BY <1>1, <1>2, <1>3 DEF IInv, FixAttemptedHasPr, PrsKnown, database, github,
     faults
<1>12. MergedWasMerged'
  BY <1>1, <1>2, <1>3 DEF IInv, MergedWasMerged, AttemptsKnown, Rows,
     database, github, faults
<1>13. FoundKnown'
  BY DEF IInv, FoundKnown, TypeOK, LoadError, database, github, faults
<1>14. QED
  BY <1>5, <1>6, <1>7, <1>8, <1>9, <1>10, <1>11, <1>12, <1>13 DEF IInv

\* A skipped job leaves nothing behind.
LEMMA SkipOrAbortKeeps ==
    ASSUME IInv, NEW j \in Jobs, SkipOrAbort(j)
    PROVE  IInv'
<1>1. jobs' \in [Jobs -> Job]
  BY GotoType DEF IInv, TypeOK, JobKnowledge, AttemptsKnown, Steps, Holding,
     JobState, SkipOrAbort
<1>2. TypeOK'
  BY <1>1 DEF IInv, TypeOK, JobState, Steps, SkipOrAbort, database, github,
     faults
<1>3. JobKnowledge'
  BY ConstantsAssumption DEF IInv, JobKnowledge, Holding, Steps, SkipOrAbort,
     database, github, Goto
<1>4. HeldByOneJob'
  BY ConstantsAssumption DEF IInv, HeldByOneJob, Holding, SkipOrAbort,
     database, github, faults, Goto
<1>5. OneHeadPerBranch'
  BY DEF IInv, OneHeadPerBranch, SkipOrAbort, database, github, faults
<1>6. AttemptsKnown'
  BY DEF IInv, AttemptsKnown, TypeOK, AttemptRow, SkipOrAbort, database,
     github, faults
<1>7. PrsKnown'
  BY DEF IInv, PrsKnown, SkipOrAbort, database, github
<1>8. FixAttemptedHasPr'
  BY DEF IInv, FixAttemptedHasPr, PrsKnown, SkipOrAbort, database, github,
     faults
<1>9. MergedWasMerged'
  BY DEF IInv, MergedWasMerged, AttemptsKnown, Rows, SkipOrAbort, database,
     github, faults
<1>10. FoundKnown'
  BY DEF IInv, FoundKnown, TypeOK, SkipOrAbort, database, github, faults
<1>11. QED
  BY <1>2, <1>3, <1>4, <1>5, <1>6, <1>7, <1>8, <1>9, <1>10 DEF IInv

\* The new attempt was free, so no job holds it and no pull request names it.
LEMMA PrepareKeeps ==
    ASSUME IInv, NEW j \in Jobs, Prepare(j)
    PROVE  IInv'
<1>1. PICK a \in Attempts :
        /\ attempts[a].status = "free"
        /\ attempts' = [attempts EXCEPT ![a] = Attempt("pending", jobs[j].error, None)]
        /\ \/ /\ jobs' = [jobs EXCEPT ![j].pc = "mark", ![j].attempt = a,
                                      ![j].repo = repos[ProjectOf[jobs[j].error]]]
              /\ dirs' = dirs \cup {<<j, jobs[j].try>>}
           \/ Goto(j, "finish") /\ UNCHANGED dirs
        /\ cut' \subseteq cut \cup {a}
  BY DEF Prepare
<1>2. /\ jobs[j].pc = "prepare"
      /\ UNCHANGED <<projects, repos, errors, remote, prs, hooks, found, kills, unreported>>
  BY DEF Prepare, github
<1>3. jobs[j].error \in Errors /\ jobs[j].try \in 0..MaxTries /\ jobs[j].try # 0
  BY <1>2 DEF IInv, TypeOK, JobKnowledge, Job, Steps, JobState, Holding
<1>4. jobs[j].try \in 1..MaxTries
  BY <1>3, ConstantsAssumption
<1>5. /\ attempts'[a] = Attempt("pending", jobs[j].error, None)
      /\ attempts' \in [Attempts -> AttemptRow]
      /\ \A b \in Attempts : b # a => attempts'[b] = attempts[b]
  BY <1>1, <1>3 DEF IInv, TypeOK, AttemptRow, AttemptStatus, Attempt
<1>6. /\ jobs' \in [Jobs -> Job]
      /\ jobs'[j].pc \in {"mark", "finish"}
      /\ jobs'[j].error = jobs[j].error /\ jobs'[j].try = jobs[j].try
      /\ jobs'[j].pc = "mark" => jobs'[j].attempt = a /\ jobs'[j].repo \in Repos
      /\ \A k \in Jobs : k # j => jobs'[k] = jobs[k]
  <2>1. jobs \in [Jobs -> Job] /\ {"mark", "finish"} \subseteq JobState
    BY DEF IInv, TypeOK, JobState, Steps
  <2> DEFINE r == repos[ProjectOf[jobs[j].error]]
  <2>2. CASE jobs' = [jobs EXCEPT ![j].pc = "mark", ![j].attempt = a, ![j].repo = r]
    <3>1. r \in Repos
      BY <1>3, ConstantsAssumption DEF IInv, TypeOK
    <3> HIDE DEF r
    <3>2. /\ jobs' = [jobs EXCEPT ![j] = jobs'[j]]
          /\ jobs'[j] = [jobs[j] EXCEPT !.pc = "mark", !.attempt = a, !.repo = r]
      BY <2>1, <2>2
    <3>3. jobs[j] \in Job
      BY <2>1
    <3>4. /\ jobs'[j].pc = "mark" /\ jobs'[j].attempt = a /\ jobs'[j].repo = r
          /\ jobs'[j].error = jobs[j].error /\ jobs'[j].try = jobs[j].try
      BY <3>2, <3>3 DEF Job
    <3>5. jobs'[j] \in Job
      BY <2>1, <3>1, <3>2, <3>3 DEF Job
    <3>6. QED BY <2>1, <3>1, <3>2, <3>4, <3>5
  <2>3. CASE Goto(j, "finish")
    BY <2>1, <2>3, GotoType
  <2>4. QED BY <1>1, <2>2, <2>3
<1>7. dirs' \subseteq Jobs \X (1..MaxTries)
  BY <1>1, <1>4 DEF IInv, TypeOK
<1>8. \A k \in Jobs : jobs[k].pc \in Holding => jobs[k].attempt # a
  BY <1>1 DEF IInv, JobKnowledge
<1>9. TypeOK'
  BY <1>1, <1>2, <1>3, <1>5, <1>6, <1>7, <1>8 DEF IInv, TypeOK, JobState,
     Steps, Attempt, github
<1>10. JobKnowledge'
  BY <1>1, <1>2, <1>3, <1>5, <1>6, <1>7, <1>8 DEF IInv, JobKnowledge, Holding,
     Steps, HeldByOneJob, Attempt, github
<1>11. HeldByOneJob'
  BY <1>1, <1>2, <1>3, <1>5, <1>6, <1>7, <1>8 DEF IInv, HeldByOneJob, Holding,
     Attempt
<1>12. OneHeadPerBranch'
  BY <1>1, <1>2, <1>3, <1>5, <1>6, <1>7, <1>8 DEF IInv, OneHeadPerBranch,
     Attempt
<1>13. AttemptsKnown'
  BY <1>1, <1>2, <1>3, <1>5, <1>6, <1>7, <1>8, ConstantsAssumption DEF IInv,
     AttemptsKnown, TypeOK, AttemptRow, Attempt, github
<1>14. PrsKnown'
  BY <1>1, <1>2, <1>3, <1>5, <1>6, <1>7, <1>8 DEF IInv, PrsKnown, github
<1>15. FixAttemptedHasPr'
  BY <1>1, <1>2, <1>3, <1>5, <1>6, <1>7, <1>8 DEF IInv, FixAttemptedHasPr,
     PrsKnown, Attempt, github
<1>16. MergedWasMerged'
  BY <1>1, <1>2, <1>3, <1>5, <1>6, <1>7, <1>8 DEF IInv, MergedWasMerged,
     AttemptsKnown, Rows, Attempt, github
<1>17. FoundKnown'
  BY <1>1, <1>2, <1>5, ConstantsAssumption DEF IInv, FoundKnown
<1>18. QED
  BY <1>9, <1>10, <1>11, <1>12, <1>13, <1>14, <1>15, <1>16, <1>17 DEF IInv

\* Only the holder of the attempt marks it.
LEMMA MarkRunningKeeps ==
    ASSUME IInv, NEW j \in Jobs, MarkRunning(j)
    PROVE  IInv'
<1> DEFINE a == jobs[j].attempt
<1>1. a \in Attempts /\ attempts[a].status = "pending" /\ attempts[a].url = None
  BY DEF IInv, TypeOK, JobKnowledge, AttemptsKnown, Steps, Holding, JobState,
     MarkRunning
<1>2. attempts' = [attempts EXCEPT ![a].status = "running"]
  BY DEF MarkRunning
<1>3. /\ attempts' \in [Attempts -> AttemptRow]
      /\ attempts'[a].status = "running" /\ attempts'[a].url = attempts[a].url
      /\ attempts'[a].error = attempts[a].error
      /\ \A b \in Attempts : b # a => attempts'[b] = attempts[b]
  BY <1>1, <1>2, WriteStatus DEF IInv, TypeOK, AttemptStatus
<1>4. jobs' \in [Jobs -> Job] /\ jobs' = [jobs EXCEPT ![j].pc = "fix"]
  BY GotoType DEF IInv, TypeOK, Steps, JobState, MarkRunning, Goto
<1>5. TypeOK'
  BY <1>1, <1>3, <1>4 DEF IInv, TypeOK, JobState, Steps, MarkRunning,
     database, github, faults
<1>6. JobKnowledge'
  BY <1>1, <1>3, <1>4 DEF IInv, JobKnowledge, Holding, Steps, HeldByOneJob,
     MarkRunning, github
<1>7. HeldByOneJob'
  BY <1>1, <1>3, <1>4 DEF IInv, HeldByOneJob, Holding, MarkRunning
<1>8. OneHeadPerBranch'
  BY <1>1, <1>3, <1>4 DEF IInv, OneHeadPerBranch, MarkRunning, database,
     github, faults
<1>9. AttemptsKnown'
  <2>1. prs' = prs
    BY DEF MarkRunning, github
  <2> QED
    BY <1>1, <1>3, <2>1 DEF IInv, AttemptsKnown
<1>10. PrsKnown'
  BY <1>1, <1>3, <1>4 DEF IInv, PrsKnown, MarkRunning, github
<1>11. FixAttemptedHasPr'
  BY <1>1, <1>3, <1>4 DEF IInv, FixAttemptedHasPr, PrsKnown, MarkRunning,
     database, github, faults
<1>12. MergedWasMerged'
  BY <1>1, <1>3, <1>4 DEF IInv, MergedWasMerged, AttemptsKnown, Rows,
     MarkRunning, database, github, faults
<1>13. FoundKnown'
  BY <1>1, <1>3 DEF IInv, FoundKnown, MarkRunning, github
<1>14. QED
  BY <1>5, <1>6, <1>7, <1>8, <1>9, <1>10, <1>11, <1>12, <1>13 DEF IInv

\* Nothing shared changes.
LEMMA FixInCloneKeeps ==
    ASSUME IInv, NEW j \in Jobs, FixInClone(j)
    PROVE  IInv'
<1>1. jobs' \in [Jobs -> Job]
  BY GotoType DEF IInv, TypeOK, JobKnowledge, AttemptsKnown, Steps, Holding,
     JobState, FixInClone
<1>2. TypeOK'
  BY <1>1 DEF IInv, TypeOK, JobState, Steps, FixInClone, database, github,
     faults
<1>3. JobKnowledge'
  BY ConstantsAssumption DEF IInv, JobKnowledge, Holding, Steps, FixInClone,
     database, github, Goto
<1>4. HeldByOneJob'
  BY ConstantsAssumption DEF IInv, HeldByOneJob, Holding, FixInClone,
     database, github, faults, Goto
<1>5. OneHeadPerBranch'
  BY DEF IInv, OneHeadPerBranch, FixInClone, database, github, faults
<1>6. AttemptsKnown'
  BY DEF IInv, AttemptsKnown, TypeOK, AttemptRow, FixInClone, database,
     github, faults
<1>7. PrsKnown'
  BY DEF IInv, PrsKnown, FixInClone, database, github
<1>8. FixAttemptedHasPr'
  BY DEF IInv, FixAttemptedHasPr, PrsKnown, FixInClone, database, github,
     faults
<1>9. MergedWasMerged'
  BY DEF IInv, MergedWasMerged, AttemptsKnown, Rows, FixInClone, database,
     github, faults
<1>10. FoundKnown'
  BY DEF IInv, FoundKnown, TypeOK, FixInClone, database, github, faults
<1>11. QED
  BY <1>2, <1>3, <1>4, <1>5, <1>6, <1>7, <1>8, <1>9, <1>10 DEF IInv

\* A failed call changed nothing.
LEMMA StepFailsKeeps ==
    ASSUME IInv, NEW j \in Jobs, StepFails(j)
    PROVE  IInv'
<1>1. jobs' \in [Jobs -> Job]
  BY GotoType DEF IInv, TypeOK, JobKnowledge, AttemptsKnown, Steps, Holding,
     JobState, StepFails
<1>2. TypeOK'
  BY <1>1 DEF IInv, TypeOK, JobState, Steps, StepFails, database, github,
     faults
<1>3. JobKnowledge'
  BY ConstantsAssumption DEF IInv, JobKnowledge, Holding, Steps, StepFails,
     database, github, Goto
<1>4. HeldByOneJob'
  BY ConstantsAssumption DEF IInv, HeldByOneJob, Holding, StepFails, database,
     github, faults, Goto
<1>5. OneHeadPerBranch'
  BY DEF IInv, OneHeadPerBranch, StepFails, database, github, faults
<1>6. AttemptsKnown'
  BY DEF IInv, AttemptsKnown, TypeOK, AttemptRow, StepFails, database, github,
     faults
<1>7. PrsKnown'
  BY DEF IInv, PrsKnown, StepFails, database, github
<1>8. FixAttemptedHasPr'
  BY DEF IInv, FixAttemptedHasPr, PrsKnown, StepFails, database, github,
     faults
<1>9. MergedWasMerged'
  BY DEF IInv, MergedWasMerged, AttemptsKnown, Rows, StepFails, database,
     github, faults
<1>10. FoundKnown'
  BY DEF IInv, FoundKnown, TypeOK, StepFails, database, github, faults
<1>11. QED
  BY <1>2, <1>3, <1>4, <1>5, <1>6, <1>7, <1>8, <1>9, <1>10 DEF IInv

\* The branch was absent, so its only head is the attempt of this job.
LEMMA PushKeeps ==
    ASSUME IInv, NEW j \in Jobs, Push(j)
    PROVE  IInv'
<1> DEFINE new == [repo |-> jobs[j].repo, branch |-> BranchOf[jobs[j].error],
                   head |-> jobs[j].attempt]
<1>1. jobs' \in [Jobs -> Job]
  BY GotoType DEF Push, IInv, TypeOK, JobState, Steps
<1>2. jobs[j].error \in Errors /\ jobs[j].attempt \in Attempts /\ jobs[j].repo \in Repos
  BY DEF IInv, JobKnowledge, Steps, Holding, Push
<1>3. /\ remote' = remote \cup {new}
      /\ \A r \in remote : ~(r.repo = jobs[j].repo /\ r.branch = BranchOf[jobs[j].error])
  BY DEF Push, BranchOfJob, SameBranch, BranchName
<1>4. new \in Branch
  BY <1>2 DEF Branch, Branches
<1>5. /\ unreported' \in 0..MaxUnreported
      /\ UNCHANGED <<database, prs, hooks, found, dirs, kills, cut>>
  BY ConstantsAssumption DEF Push, IInv, TypeOK, Unreported, faults
<1>6. TypeOK'
  BY <1>1, <1>2, <1>3, <1>4, <1>5 DEF IInv, TypeOK, database, faults
<1>7. JobKnowledge'
  <2>1. UNCHANGED <<attempts, prs>> /\ jobs[j].pc = "push"
    BY <1>5 DEF Push, database
  <2>2. ASSUME NEW k \in Jobs
        PROVE  /\ jobs'[k].error = jobs[k].error /\ jobs'[k].attempt = jobs[k].attempt
               /\ jobs'[k].pr = jobs[k].pr /\ jobs'[k].try = jobs[k].try
               /\ jobs'[k].repo = jobs[k].repo
               /\ IF k = j THEN jobs'[k].pc \in {"open_pr", "failing"}
                  ELSE jobs'[k].pc = jobs[k].pc
    <3>1. Goto(j, "open_pr") \/ Goto(j, "failing")
      BY DEF Push
    <3>2. {"open_pr", "failing"} \subseteq JobState
      BY DEF JobState, Steps
    <3> QED
      BY <3>1, <3>2, GotoType DEF IInv, TypeOK
  <2> QED
    BY <1>2, <1>3, <2>1, <2>2 DEF IInv, JobKnowledge, Holding, Steps
<1>8. HeldByOneJob'
  BY ConstantsAssumption DEF IInv, HeldByOneJob, Holding, Push, Goto, Job,
     TypeOK
<1>9. OneHeadPerBranch'
  BY <1>3 DEF IInv, OneHeadPerBranch
<1>10. AttemptsKnown'
  BY DEF IInv, AttemptsKnown, Push, database
<1>11. PrsKnown'
  BY DEF IInv, PrsKnown, Push, database
<1>12. FixAttemptedHasPr'
  BY DEF IInv, FixAttemptedHasPr, PrsKnown, Push, database
<1>13. MergedWasMerged'
  BY DEF IInv, MergedWasMerged, Rows, Push, database
<1>14. FoundKnown'
  BY DEF IInv, FoundKnown, Push, database
<1>15. QED
  BY <1>6, <1>7, <1>8, <1>9, <1>10, <1>11, <1>12, <1>13, <1>14 DEF IInv

\* The head of the new pull request is what this job pushed.
LEMMA CreatePrKeeps ==
    ASSUME IInv, NEW j \in Jobs, CreatePr(j)
    PROVE  IInv'
<1> DEFINE new(r) == [state |-> "open", repo |-> r.repo, branch |-> r.branch,
                      head |-> r.head, by |-> jobs[j].attempt]
<1>1. PICK p \in Prs, r \in remote :
        /\ prs[p].state = "free"
        /\ r.repo = jobs[j].repo /\ r.branch = BranchOf[jobs[j].error]
        /\ prs' = [prs EXCEPT ![p] = new(r)]
        /\ \/ jobs' = [jobs EXCEPT ![j].pc = "record", ![j].pr = p]
           \/ Goto(j, "failing")
  BY DEF CreatePr, BranchOfJob, SameBranch, BranchName
<1>2. jobs[j].error \in Errors /\ jobs[j].attempt \in Attempts /\ jobs[j].pc = "open_pr"
  BY DEF IInv, TypeOK, JobKnowledge, AttemptsKnown, Steps, Holding, JobState,
     CreatePr
<1>3. [repo |-> jobs[j].repo, branch |-> BranchOf[jobs[j].error], head |-> jobs[j].attempt]
        \in remote
  BY <1>2 DEF IInv, JobKnowledge
<1>4. r.head = jobs[j].attempt /\ r \in Branch
  BY <1>1, <1>3 DEF IInv, TypeOK, OneHeadPerBranch
<1>5. /\ prs' \in [Prs -> PullRequest]
      /\ prs'[p] = new(r)
      /\ \A q \in Prs : q # p => prs'[q] = prs[q]
  BY <1>1, <1>2, <1>4 DEF IInv, TypeOK, PullRequest, PrState, Branch
<1>6. /\ jobs' \in [Jobs -> Job]
      /\ jobs'[j].pc \in {"record", "failing"}
      /\ jobs'[j].pc = "record" => jobs'[j].pr = p
      /\ jobs'[j].error = jobs[j].error /\ jobs'[j].try = jobs[j].try
      /\ jobs'[j].attempt = jobs[j].attempt /\ jobs'[j].repo = jobs[j].repo
      /\ \A k \in Jobs : k # j => jobs'[k] = jobs[k]
  <2>1. jobs \in [Jobs -> Job] /\ {"record", "failing"} \subseteq JobState
    BY DEF IInv, TypeOK, JobState, Steps
  <2>2. CASE jobs' = [jobs EXCEPT ![j].pc = "record", ![j].pr = p]
    BY <2>1, <2>2 DEF Job
  <2>3. CASE Goto(j, "failing")
    BY <2>1, <2>3, GotoType
  <2>4. QED BY <1>1, <2>2, <2>3
<1>7. /\ unreported' \in 0..MaxUnreported
      /\ UNCHANGED <<database, remote, hooks, found, dirs, kills, cut>>
  BY ConstantsAssumption DEF CreatePr, IInv, TypeOK, Unreported, faults
<1>8. TypeOK'
  BY <1>1, <1>2, <1>4, <1>5, <1>6, <1>7 DEF IInv, TypeOK, JobState, Steps,
     database
<1>9. JobKnowledge'
  BY <1>1, <1>2, <1>4, <1>5, <1>6, <1>7 DEF IInv, JobKnowledge, Holding,
     Steps, HeldByOneJob, database
<1>10. HeldByOneJob'
  BY <1>1, <1>2, <1>4, <1>5, <1>6, <1>7 DEF IInv, HeldByOneJob, Holding,
     database
<1>11. OneHeadPerBranch'
  BY <1>1, <1>2, <1>4, <1>5, <1>6, <1>7 DEF IInv, OneHeadPerBranch, database
<1>12. AttemptsKnown'
  BY <1>1, <1>2, <1>4, <1>5, <1>6, <1>7 DEF IInv, AttemptsKnown, TypeOK,
     AttemptRow, database
<1>13. PrsKnown'
  BY <1>1, <1>2, <1>4, <1>5, <1>6, <1>7 DEF IInv, PrsKnown, TypeOK,
     AttemptRow, JobKnowledge, Holding, database
<1>14. FixAttemptedHasPr'
  BY <1>1, <1>2, <1>4, <1>5, <1>6, <1>7 DEF IInv, FixAttemptedHasPr, PrsKnown,
     database
<1>15. MergedWasMerged'
  BY <1>1, <1>2, <1>4, <1>5, <1>6, <1>7 DEF IInv, MergedWasMerged,
     AttemptsKnown, Rows, database
<1>16. FoundKnown'
  BY <1>1, <1>5, <1>7 DEF IInv, FoundKnown, database
<1>17. QED
  BY <1>8, <1>9, <1>10, <1>11, <1>12, <1>13, <1>14, <1>15, <1>16 DEF IInv

\* The attempt gets the pull request its own job opened.
LEMMA RecordSuccessKeeps ==
    ASSUME IInv, NEW j \in Jobs, RecordSuccess(j)
    PROVE  IInv'
<1> DEFINE a == jobs[j].attempt
<1>1. /\ a \in Attempts /\ attempts[a].status = "running"
      /\ jobs[j].error \in Errors /\ attempts[a].error = jobs[j].error
      /\ jobs[j].pr \in Prs /\ prs[jobs[j].pr].state # "free"
      /\ prs[jobs[j].pr].by = a /\ prs[jobs[j].pr].head = a
      /\ prs[jobs[j].pr].branch = BranchOf[jobs[j].error]
  BY DEF IInv, TypeOK, JobKnowledge, AttemptsKnown, Steps, Holding, JobState,
     RecordSuccess
<1>2. attempts' = [attempts EXCEPT ![a].status = "success", ![a].url = jobs[j].pr]
  BY DEF RecordSuccess
<1>3. /\ attempts' \in [Attempts -> AttemptRow]
      /\ attempts'[a].status = "success" /\ attempts'[a].url = jobs[j].pr
      /\ attempts'[a].error = attempts[a].error
      /\ \A b \in Attempts : b # a => attempts'[b] = attempts[b]
  BY <1>1, <1>2, WriteRow DEF IInv, TypeOK, AttemptStatus
<1>4. PICK s \in {"finish", "failing"} : Goto(j, s)
  BY DEF RecordSuccess
<1>5. /\ jobs' \in [Jobs -> Job]
      /\ jobs'[j].pc = s
      /\ jobs'[j].error = jobs[j].error /\ jobs'[j].try = jobs[j].try
      /\ jobs'[j].attempt = jobs[j].attempt /\ jobs'[j].repo = jobs[j].repo
      /\ \A k \in Jobs : k # j => jobs'[k] = jobs[k]
  BY <1>4, GotoType DEF IInv, TypeOK, JobState, Steps
<1>6. jobs[j].pc = "record" /\ errors' = [errors EXCEPT ![jobs[j].error] = "fix_attempted"]
  BY <1>1 DEF RecordSuccess
<1>7. /\ unreported' \in 0..MaxUnreported
      /\ UNCHANGED <<projects, repos, remote, prs, hooks, found, dirs, kills, cut>>
  BY ConstantsAssumption DEF RecordSuccess, IInv, TypeOK, Unreported, faults,
     github
<1>8. TypeOK'
  BY <1>1, <1>3, <1>4, <1>5, <1>6, <1>7 DEF IInv, TypeOK, JobState, Steps,
     ErrorStatus
<1>9. JobKnowledge'
  <2>1. ASSUME NEW k \in Jobs, k # j, jobs[k].pc \in Holding
        PROVE  attempts'[jobs[k].attempt] = attempts[jobs[k].attempt]
    <3>1. jobs[j].pc \in Holding
      BY <1>6 DEF Holding
    <3> QED
      BY <1>1, <1>3, <2>1, <3>1 DEF IInv, HeldByOneJob, JobKnowledge
  <2>2. /\ jobs'[j].pc \in {"finish", "failing"} /\ jobs[j].attempt \in Attempts
        /\ attempts'[jobs[j].attempt].error = jobs[j].error
        /\ attempts'[jobs[j].attempt].status = "success"
    BY <1>1, <1>3, <1>4, <1>5
  <2>3. UNCHANGED <<remote, prs>>
    BY <1>7
  <2>4. jobs[j].error \in Errors /\ jobs[j].try # 0 /\ jobs[j].repo \in Repos
    BY <1>6 DEF IInv, JobKnowledge, Steps, Holding
  <2> HIDE DEF a
  <2> QED
    BY <1>5, <2>1, <2>2, <2>3, <2>4 DEF IInv, JobKnowledge, Holding, Steps
<1>10. HeldByOneJob'
  BY <1>1, <1>4, <1>5, <1>6 DEF IInv, HeldByOneJob, Holding
<1>11. OneHeadPerBranch'
  BY <1>1, <1>3, <1>4, <1>5, <1>6, <1>7 DEF IInv, OneHeadPerBranch
<1>12. AttemptsKnown'
  <2>1. AttemptsKnown /\ a \in Attempts /\ jobs[j].error # None
    BY <1>1, ConstantsAssumption DEF IInv
  <2>2. UNCHANGED prs
    BY <1>7
  <2>3. jobs[j].pr # None
    BY <1>1, ConstantsAssumption
  <2> HIDE DEF a
  <2>4. SUFFICES ASSUME NEW b \in Attempts
                 PROVE  /\ attempts'[b].status = "free" <=> attempts'[b].error = None
                        /\ attempts'[b].status \in {"free", "pending", "running", "failed"} =>
                              attempts'[b].url = None
                        /\ attempts'[b].status = "success" => attempts'[b].url # None
                        /\ attempts'[b].url # None =>
                              /\ prs[attempts'[b].url].state # "free"
                              /\ prs[attempts'[b].url].by = b
                              /\ prs[attempts'[b].url].head = b
                              /\ prs[attempts'[b].url].branch = BranchOf[attempts'[b].error]
    BY <2>2 DEF AttemptsKnown
  <2>5. CASE b = a
    BY <1>1, <1>3, <2>1, <2>3, <2>5
  <2>6. CASE b # a
    BY <1>3, <2>1, <2>6 DEF AttemptsKnown
  <2>7. QED BY <2>5, <2>6
<1>13. PrsKnown'
  BY <1>1, <1>3, <1>4, <1>5, <1>6, <1>7 DEF IInv, PrsKnown, JobKnowledge, Holding
<1>14. FixAttemptedHasPr'
  <2>1. SUFFICES ASSUME NEW e \in Errors, errors'[e] = "fix_attempted"
                 PROVE  \E p \in Prs : prs'[p].state # "free" /\ attempts'[prs'[p].by].error = e
    BY DEF FixAttemptedHasPr
  <2>2. CASE e = jobs[j].error
    BY <2>2, <1>1, <1>3, <1>7
  <2>3. CASE e # jobs[j].error
    <3>1. errors[e] = "fix_attempted"
      BY <2>1, <2>3, <1>6 DEF IInv, TypeOK
    <3>2. PICK p \in Prs : prs[p].state # "free" /\ attempts[prs[p].by].error = e
      BY <3>1 DEF IInv, FixAttemptedHasPr
    <3>3. prs[p].by \in Attempts
      BY <3>2 DEF IInv, PrsKnown
    <3>4. QED BY <3>2, <3>3, <1>1, <1>3, <1>7
  <2>4. QED BY <2>2, <2>3
<1>15. MergedWasMerged'
  BY <1>1, <1>3, <1>4, <1>5, <1>6, <1>7 DEF IInv, MergedWasMerged,
     AttemptsKnown, Rows
<1>16. FoundKnown'
  BY <1>1, <1>3, <1>7 DEF IInv, FoundKnown
<1>17. QED
  BY <1>8, <1>9, <1>10, <1>11, <1>12, <1>13, <1>14, <1>15, <1>16 DEF IInv

\* The row is either as it was or FAILED without a pr_url.
LEMMA RecordFailureKeeps ==
    ASSUME IInv, NEW j \in Jobs, RecordFailure(j)
    PROVE  IInv'
<1> DEFINE a == jobs[j].attempt
<1>1. a \in Attempts /\ jobs[j].pc = "failing" /\ attempts[a].status # "free"
  BY DEF IInv, TypeOK, JobKnowledge, AttemptsKnown, Steps, Holding, JobState,
     RecordFailure
<1>2. /\ attempts' \in [Attempts -> AttemptRow]
      /\ \/ attempts'[a] = attempts[a]
         \/ attempts'[a].status = "failed" /\ attempts'[a].url = None
      /\ attempts'[a].error = attempts[a].error
      /\ \A b \in Attempts : b # a => attempts'[b] = attempts[b]
  BY <1>1, WriteRow DEF IInv, TypeOK, AttemptStatus, RecordFailure
<1>3. jobs' \in [Jobs -> Job] /\ jobs' = [jobs EXCEPT ![j].pc = "finish"]
  BY GotoType DEF IInv, TypeOK, Steps, JobState, RecordFailure, Goto
<1>4. TypeOK'
  BY <1>1, <1>2, <1>3 DEF IInv, TypeOK, JobState, Steps, RecordFailure,
     database, github, faults
<1>5. JobKnowledge'
  BY <1>1, <1>2, <1>3 DEF IInv, JobKnowledge, Holding, Steps, HeldByOneJob,
     RecordFailure, github
<1>6. HeldByOneJob'
  BY <1>1, <1>2, <1>3 DEF IInv, HeldByOneJob, Holding, RecordFailure
<1>7. OneHeadPerBranch'
  BY <1>1, <1>2, <1>3 DEF IInv, OneHeadPerBranch, RecordFailure, database,
     github, faults
<1>8. AttemptsKnown'
  BY <1>1, <1>2, <1>3 DEF IInv, AttemptsKnown, TypeOK, AttemptRow,
     RecordFailure, database, github, faults
<1>9. PrsKnown'
  BY <1>1, <1>2, <1>3 DEF IInv, PrsKnown, RecordFailure, github
<1>10. FixAttemptedHasPr'
  BY <1>1, <1>2, <1>3 DEF IInv, FixAttemptedHasPr, PrsKnown, RecordFailure,
     database, github, faults
<1>11. MergedWasMerged'
  BY <1>1, <1>2, <1>3 DEF IInv, MergedWasMerged, AttemptsKnown, Rows,
     RecordFailure, database, github, faults
<1>12. FoundKnown'
  BY <1>1, <1>2 DEF IInv, FoundKnown, RecordFailure, github
<1>13. QED
  BY <1>4, <1>5, <1>6, <1>7, <1>8, <1>9, <1>10, <1>11, <1>12 DEF IInv

\* The job is over.
LEMMA FinishKeeps ==
    ASSUME IInv, NEW j \in Jobs, Finish(j)
    PROVE  IInv'
<1>1. TypeOK'
  BY JobTypes DEF IInv, TypeOK, JobState, Steps, Finish, database, github,
     faults
<1>2. JobKnowledge'
  BY ConstantsAssumption DEF IInv, JobKnowledge, Holding, Steps, Finish,
     database, github, InRedis, EndedJob
<1>3. HeldByOneJob'
  BY ConstantsAssumption DEF IInv, HeldByOneJob, Holding, Finish, InRedis,
     EndedJob
<1>4. OneHeadPerBranch'
  BY DEF IInv, OneHeadPerBranch, Finish, database, github, faults
<1>5. AttemptsKnown'
  BY DEF IInv, AttemptsKnown, TypeOK, AttemptRow, Finish, database, github,
     faults
<1>6. PrsKnown'
  BY DEF IInv, PrsKnown, Finish, database, github
<1>7. FixAttemptedHasPr'
  BY DEF IInv, FixAttemptedHasPr, PrsKnown, Finish, database, github, faults
<1>8. MergedWasMerged'
  BY DEF IInv, MergedWasMerged, AttemptsKnown, Rows, Finish, database, github,
     faults
<1>9. FoundKnown'
  BY DEF IInv, FoundKnown, TypeOK, Finish, database, github, faults
<1>10. QED
  BY <1>1, <1>2, <1>3, <1>4, <1>5, <1>6, <1>7, <1>8, <1>9 DEF IInv

\* The attempt of a cancelled job stays as it is.
LEMMA TimeoutKeeps ==
    ASSUME IInv, NEW j \in Jobs, Timeout(j)
    PROVE  IInv'
<1>1. TypeOK'
  <2>1. HeldBy({j}) \subseteq Attempts
    BY HeldByType DEF IInv
  <2>2. QED BY <2>1, JobTypes DEF IInv, TypeOK, Timeout, database, github
<1>2. JobKnowledge'
  BY ConstantsAssumption DEF IInv, JobKnowledge, Holding, Steps, Timeout,
     database, github, InRedis, EndedJob
<1>3. HeldByOneJob'
  BY ConstantsAssumption DEF IInv, HeldByOneJob, Holding, Timeout, InRedis,
     EndedJob
<1>4. OneHeadPerBranch'
  BY DEF IInv, OneHeadPerBranch, Timeout, database, github, faults
<1>5. AttemptsKnown'
  BY DEF IInv, AttemptsKnown, TypeOK, AttemptRow, Timeout, database, github,
     faults
<1>6. PrsKnown'
  BY DEF IInv, PrsKnown, Timeout, database, github
<1>7. FixAttemptedHasPr'
  BY DEF IInv, FixAttemptedHasPr, PrsKnown, Timeout, database, github, faults
<1>8. MergedWasMerged'
  BY DEF IInv, MergedWasMerged, AttemptsKnown, Rows, Timeout, database,
     github, faults
<1>9. FoundKnown'
  BY DEF IInv, FoundKnown, TypeOK, Timeout, database, github, faults
<1>10. QED
  BY <1>1, <1>2, <1>3, <1>4, <1>5, <1>6, <1>7, <1>8, <1>9 DEF IInv

\* A queued job knows its error only.
LEMMA TriggerFixKeeps ==
    ASSUME IInv, NEW j \in Jobs, NEW e \in Errors, TriggerFix(j, e)
    PROVE  IInv'
<1> USE DEF database, github, faults
<1>1. TypeOK'
  BY JobTypes, ConstantsAssumption DEF IInv, TypeOK, TriggerFix
<1>2. JobKnowledge'
  BY ConstantsAssumption DEF IInv, JobKnowledge, Holding, TriggerFix, InRedis,
     QueuedJob
<1>3. HeldByOneJob'
  BY ConstantsAssumption DEF IInv, HeldByOneJob, Holding, TriggerFix, InRedis,
     QueuedJob
<1>4. OneHeadPerBranch'
  BY DEF IInv, OneHeadPerBranch, TriggerFix
<1>5. AttemptsKnown'
  BY DEF IInv, AttemptsKnown, TypeOK, AttemptRow, TriggerFix
<1>6. PrsKnown'
  BY DEF IInv, PrsKnown, TypeOK, AttemptRow, JobKnowledge, Holding, TriggerFix
<1>7. FixAttemptedHasPr'
  BY DEF IInv, FixAttemptedHasPr, PrsKnown, TriggerFix
<1>8. MergedWasMerged'
  BY DEF IInv, MergedWasMerged, AttemptsKnown, Rows, TriggerFix
<1>9. FoundKnown'
  BY DEF IInv, FoundKnown, TypeOK, TriggerFix
<1>10. QED
  BY <1>1, <1>2, <1>3, <1>4, <1>5, <1>6, <1>7, <1>8, <1>9 DEF IInv

\* A delivered job knows its error only.
LEMMA DeliverKeeps ==
    ASSUME IInv, NEW j \in Jobs, NEW w \in Workers, Deliver(j, w)
    PROVE  IInv'
<1>1. jobs' = [jobs EXCEPT ![j].pc = "load", ![j].worker = w]
  BY DEF Deliver
<1>2. jobs' \in [Jobs -> Job]
  BY <1>1, GotoWithWorker DEF IInv, TypeOK, JobState, Steps
<1>3. TypeOK'
  BY <1>2 DEF IInv, TypeOK, Deliver, database, github, faults
<1>4. JobKnowledge'
  BY ConstantsAssumption DEF IInv, JobKnowledge, Holding, Steps, Deliver,
     database, github, Job, TypeOK
<1>5. HeldByOneJob'
  BY ConstantsAssumption DEF IInv, HeldByOneJob, Holding, Deliver, TypeOK
<1>6. OneHeadPerBranch'
  BY DEF IInv, OneHeadPerBranch, Deliver, database, github, faults
<1>7. AttemptsKnown'
  BY DEF IInv, AttemptsKnown, TypeOK, AttemptRow, Deliver, database, github,
     faults
<1>8. PrsKnown'
  BY DEF IInv, PrsKnown, Deliver, database, github
<1>9. FixAttemptedHasPr'
  BY DEF IInv, FixAttemptedHasPr, PrsKnown, Deliver, database, github, faults
<1>10. MergedWasMerged'
  BY DEF IInv, MergedWasMerged, AttemptsKnown, Rows, Deliver, database,
     github, faults
<1>11. FoundKnown'
  BY DEF IInv, FoundKnown, TypeOK, Deliver, database, github, faults
<1>12. QED
  BY <1>3, <1>4, <1>5, <1>6, <1>7, <1>8, <1>9, <1>10, <1>11 DEF IInv

\* Rows of a deleted project are gone, the others are as they were.
LEMMA DeleteProjectKeeps ==
    ASSUME IInv, NEW q \in Projects, DeleteProject(q)
    PROVE  IInv'
<1> USE DEF database, github, faults
<1>1. TypeOK'
  <2>1. attempts' \in [Attempts -> AttemptRow]
    BY DEF IInv, TypeOK, DeleteProject, AttemptRow, AttemptStatus
  <2>2. projects' \in [Projects -> ProjectState] /\ errors' \in [Errors -> ErrorStatus]
    BY DEF IInv, TypeOK, DeleteProject, ProjectState, ErrorStatus
  <2>3. QED BY <2>1, <2>2 DEF IInv, TypeOK, DeleteProject
<1>2. JobKnowledge'
  BY DEF IInv, JobKnowledge, Holding, Steps, HeldByOneJob, DeleteProject
<1>3. HeldByOneJob'
  BY DEF IInv, HeldByOneJob, Holding, DeleteProject
<1>4. OneHeadPerBranch'
  BY DEF IInv, OneHeadPerBranch, DeleteProject
<1>5. AttemptsKnown'
  BY ConstantsAssumption DEF IInv, AttemptsKnown, DeleteProject
<1>6. PrsKnown'
  BY DEF IInv, PrsKnown, TypeOK, AttemptRow, JobKnowledge, Holding,
     DeleteProject
<1>7. FixAttemptedHasPr'
  BY DEF IInv, FixAttemptedHasPr, PrsKnown, DeleteProject
<1>8. MergedWasMerged'
  BY DEF IInv, MergedWasMerged, AttemptsKnown, Rows, DeleteProject
<1>9. FoundKnown'
  BY DEF IInv, FoundKnown, TypeOK, DeleteProject
<1>10. QED
  BY <1>1, <1>2, <1>3, <1>4, <1>5, <1>6, <1>7, <1>8, <1>9 DEF IInv

\* No row of the pipeline changes.
LEMMA ChangeReadinessKeeps ==
    ASSUME IInv, NEW q \in Projects, ChangeReadiness(q)
    PROVE  IInv'
<1> USE DEF database, github, faults
<1>1. TypeOK'
  BY ConstantsAssumption DEF IInv, TypeOK, ChangeReadiness,
     ProjectState
<1>2. JobKnowledge'
  BY DEF IInv, JobKnowledge, Holding, Steps, HeldByOneJob, ChangeReadiness
<1>3. HeldByOneJob'
  BY DEF IInv, HeldByOneJob, Holding, ChangeReadiness
<1>4. OneHeadPerBranch'
  BY DEF IInv, OneHeadPerBranch, ChangeReadiness
<1>5. AttemptsKnown'
  BY DEF IInv, AttemptsKnown, TypeOK, AttemptRow, ChangeReadiness
<1>6. PrsKnown'
  BY DEF IInv, PrsKnown, TypeOK, AttemptRow, JobKnowledge, Holding,
     ChangeReadiness
<1>7. FixAttemptedHasPr'
  BY DEF IInv, FixAttemptedHasPr, PrsKnown, ChangeReadiness
<1>8. MergedWasMerged'
  BY DEF IInv, MergedWasMerged, AttemptsKnown, Rows, ChangeReadiness
<1>9. FoundKnown'
  BY DEF IInv, FoundKnown, TypeOK, ChangeReadiness
<1>10. QED
  BY <1>1, <1>2, <1>3, <1>4, <1>5, <1>6, <1>7, <1>8, <1>9 DEF IInv

\* Jobs keep the repository they read.
LEMMA EditProjectKeeps ==
    ASSUME IInv, NEW q \in Projects, NEW r \in Repos, EditProject(q, r)
    PROVE  IInv'
<1> USE DEF database, github, faults
<1>1. TypeOK'
  BY ConstantsAssumption DEF IInv, TypeOK, EditProject
<1>2. JobKnowledge'
  BY DEF IInv, JobKnowledge, Holding, Steps, HeldByOneJob, EditProject
<1>3. HeldByOneJob'
  BY DEF IInv, HeldByOneJob, Holding, EditProject
<1>4. OneHeadPerBranch'
  BY DEF IInv, OneHeadPerBranch, EditProject
<1>5. AttemptsKnown'
  BY DEF IInv, AttemptsKnown, TypeOK, AttemptRow, EditProject
<1>6. PrsKnown'
  BY DEF IInv, PrsKnown, TypeOK, AttemptRow, JobKnowledge, Holding,
     EditProject
<1>7. FixAttemptedHasPr'
  BY DEF IInv, FixAttemptedHasPr, PrsKnown, EditProject
<1>8. MergedWasMerged'
  BY DEF IInv, MergedWasMerged, AttemptsKnown, Rows, EditProject
<1>9. FoundKnown'
  BY DEF IInv, FoundKnown, TypeOK, EditProject
<1>10. QED
  BY <1>1, <1>2, <1>3, <1>4, <1>5, <1>6, <1>7, <1>8, <1>9 DEF IInv

\* Only the state of the pull request changes.
LEMMA MergePrKeeps ==
    ASSUME IInv, NEW p \in Prs, MergePr(p)
    PROVE  IInv'
<1> USE DEF database, github, faults
<1>1. TypeOK'
  <2>1. prs' = [prs EXCEPT ![p].state = "merged"] /\ prs' \in [Prs -> PullRequest]
    BY DEF IInv, TypeOK, MergePr, PullRequest, PrState
  <2>2. QED BY <2>1 DEF IInv, TypeOK, MergePr, HookState
<1>2. JobKnowledge'
  BY DEF IInv, JobKnowledge, Holding, Steps, HeldByOneJob, MergePr
<1>3. HeldByOneJob'
  BY DEF IInv, HeldByOneJob, Holding, MergePr
<1>4. OneHeadPerBranch'
  BY DEF IInv, OneHeadPerBranch, MergePr
<1>5. AttemptsKnown'
  BY DEF IInv, AttemptsKnown, TypeOK, AttemptRow, MergePr
<1>6. PrsKnown'
  BY DEF IInv, PrsKnown, TypeOK, AttemptRow, JobKnowledge, Holding, MergePr
<1>7. FixAttemptedHasPr'
  BY DEF IInv, FixAttemptedHasPr, PrsKnown, MergePr
<1>8. MergedWasMerged'
  BY DEF IInv, MergedWasMerged, AttemptsKnown, Rows, MergePr
<1>9. FoundKnown'
  BY DEF IInv, FoundKnown, TypeOK, MergePr
<1>10. QED
  BY <1>1, <1>2, <1>3, <1>4, <1>5, <1>6, <1>7, <1>8, <1>9 DEF IInv

\* Only the state of the pull request changes.
LEMMA ClosePrKeeps ==
    ASSUME IInv, NEW p \in Prs, ClosePr(p)
    PROVE  IInv'
<1> USE DEF database, github, faults
<1>1. prs' = [prs EXCEPT ![p].state = "closed"] /\ prs' \in [Prs -> PullRequest]
  BY DEF IInv, TypeOK, ClosePr, PullRequest, PrState
<1>2. TypeOK'
  BY <1>1 DEF IInv, TypeOK, ClosePr, HookState
<1>3. JobKnowledge'
  BY DEF IInv, JobKnowledge, Holding, Steps, HeldByOneJob, ClosePr
<1>4. HeldByOneJob'
  BY DEF IInv, HeldByOneJob, Holding, ClosePr
<1>5. OneHeadPerBranch'
  BY DEF IInv, OneHeadPerBranch, ClosePr
<1>6. AttemptsKnown'
  BY DEF IInv, AttemptsKnown, TypeOK, AttemptRow, ClosePr
<1>7. PrsKnown'
  BY DEF IInv, PrsKnown, TypeOK, AttemptRow, JobKnowledge, Holding, ClosePr
<1>8. FixAttemptedHasPr'
  BY DEF IInv, FixAttemptedHasPr, PrsKnown, ClosePr
<1>9. MergedWasMerged'
  BY DEF IInv, MergedWasMerged, AttemptsKnown, Rows, ClosePr
<1>10. FoundKnown'
  BY DEF IInv, FoundKnown, TypeOK, ClosePr
<1>11. QED
  BY <1>2, <1>3, <1>4, <1>5, <1>6, <1>7, <1>8, <1>9, <1>10 DEF IInv

\* No row of the pipeline changes.
LEMMA LoseWebhookKeeps ==
    ASSUME IInv, NEW p \in Prs, LoseWebhook(p)
    PROVE  IInv'
<1> USE DEF database, github, faults
<1>1. TypeOK'
  BY ConstantsAssumption DEF IInv, TypeOK, LoseWebhook, HookState
<1>2. JobKnowledge'
  BY DEF IInv, JobKnowledge, Holding, Steps, HeldByOneJob, LoseWebhook
<1>3. HeldByOneJob'
  BY DEF IInv, HeldByOneJob, Holding, LoseWebhook
<1>4. OneHeadPerBranch'
  BY DEF IInv, OneHeadPerBranch, LoseWebhook
<1>5. AttemptsKnown'
  BY DEF IInv, AttemptsKnown, TypeOK, AttemptRow, LoseWebhook
<1>6. PrsKnown'
  BY DEF IInv, PrsKnown, TypeOK, AttemptRow, JobKnowledge, Holding,
     LoseWebhook
<1>7. FixAttemptedHasPr'
  BY DEF IInv, FixAttemptedHasPr, PrsKnown, LoseWebhook
<1>8. MergedWasMerged'
  BY DEF IInv, MergedWasMerged, AttemptsKnown, Rows, LoseWebhook
<1>9. FoundKnown'
  BY DEF IInv, FoundKnown, TypeOK, LoseWebhook
<1>10. QED
  BY <1>1, <1>2, <1>3, <1>4, <1>5, <1>6, <1>7, <1>8, <1>9 DEF IInv

\* The attempt that is found was opened by this pull request, which is merged.
LEMMA FindAttemptKeeps ==
    ASSUME IInv, NEW p \in Prs, FindAttempt(p)
    PROVE  IInv'
<1>1. UNCHANGED <<projects, repos, errors, attempts, jobs, remote, prs, dirs, kills,
                  unreported, cut>>
  BY DEF FindAttempt, database, faults
<1>2. \/ /\ hooks' = [hooks EXCEPT ![p] = "ignored"] /\ found' = found
      \/ /\ hooks' = [hooks EXCEPT ![p] = "unmatched"] /\ found' = found
      \/ \E a \in Attempts :
            /\ prs[p].state = "merged"
            /\ attempts[a].url = p /\ attempts[a].status # "gone"
            /\ hooks' = [hooks EXCEPT ![p] = "found"]
            /\ found' = [found EXCEPT ![p] = a]
  BY DEF FindAttempt
<1>3. TypeOK'
  BY <1>1, <1>2 DEF IInv, TypeOK, HookState
<1>4. JobKnowledge' /\ HeldByOneJob' /\ OneHeadPerBranch'
  BY <1>1 DEF IInv, JobKnowledge, HeldByOneJob, OneHeadPerBranch
<1>5. AttemptsKnown' /\ PrsKnown' /\ FixAttemptedHasPr' /\ MergedWasMerged'
  BY <1>1 DEF IInv, AttemptsKnown, PrsKnown, FixAttemptedHasPr, MergedWasMerged, Rows
<1>6. FoundKnown'
  <2>1. ASSUME NEW q \in Prs, q # p, hooks'[q] = "found"
        PROVE  hooks[q] = "found" /\ found'[q] = found[q]
    BY <1>2, <2>1 DEF IInv, TypeOK
  <2>2. ASSUME hooks'[p] = "found"
        PROVE  /\ found'[p] \in Attempts /\ prs[p].state = "merged"
               /\ attempts[found'[p]].url = p /\ attempts[found'[p]].status # "gone"
    BY <1>2, <2>2 DEF IInv, TypeOK
  <2>3. \A a \in Attempts : attempts[a].url = p =>
          /\ prs[p].by = a /\ attempts[a].status \notin {"free", "pending", "running"}
    BY ConstantsAssumption DEF IInv, AttemptsKnown
  <2>4. QED BY <1>1, <2>1, <2>2, <2>3 DEF IInv, FoundKnown
<1>7. QED
  BY <1>3, <1>4, <1>5, <1>6 DEF IInv

\* Only the attempt of this merged pull request becomes MERGED, and no job that
\* still relies on it holds it.
LEMMA MarkMergedKeeps ==
    ASSUME IInv, NEW p \in Prs, MarkMerged(p)
    PROVE  IInv'
<1> DEFINE a == found[p]
<1>1. /\ a \in Attempts /\ prs[p].state = "merged" /\ prs[p].by = a
      /\ attempts[a].status \notin {"free", "pending", "running", "gone"}
      /\ attempts[a].url \in {None, p}
  BY DEF IInv, FoundKnown, MarkMerged
<1>2. /\ attempts' \in [Attempts -> AttemptRow]
      /\ attempts'[a].status = "merged" /\ attempts'[a].url = attempts[a].url
      /\ attempts'[a].error = attempts[a].error
      /\ \A b \in Attempts : b # a => attempts'[b] = attempts[b]
  BY <1>1, WriteStatus DEF IInv, TypeOK, MarkMerged, AttemptStatus
<1>3. /\ hooks' = [hooks EXCEPT ![p] = "matched"]
      /\ UNCHANGED <<projects, repos, errors, jobs, remote, prs, found, dirs, kills,
                     unreported, cut>>
  BY DEF MarkMerged, faults
<1> HIDE DEF a
<1>4. TypeOK'
  BY <1>2, <1>3 DEF IInv, TypeOK, HookState
<1>5. JobKnowledge'
  BY <1>1, <1>2, <1>3 DEF IInv, JobKnowledge, Holding
<1>6. HeldByOneJob' /\ OneHeadPerBranch'
  BY <1>3 DEF IInv, HeldByOneJob, OneHeadPerBranch
<1>7. AttemptsKnown'
  BY <1>1, <1>2, <1>3 DEF IInv, AttemptsKnown
<1>8. PrsKnown'
  BY <1>1, <1>2, <1>3 DEF IInv, PrsKnown
<1>9. FixAttemptedHasPr'
  BY <1>1, <1>2, <1>3 DEF IInv, FixAttemptedHasPr, PrsKnown
<1>10. MergedWasMerged'
  BY <1>1, <1>2, <1>3 DEF IInv, MergedWasMerged, Rows
<1>11. FoundKnown'
  BY <1>1, <1>2, <1>3 DEF IInv, FoundKnown, TypeOK
<1>12. QED
  BY <1>4, <1>5, <1>6, <1>7, <1>8, <1>9, <1>10, <1>11 DEF IInv

\* No job at open_pr loses the branch it pushed.
LEMMA DeleteBranchKeeps ==
    ASSUME IInv, NEW r \in remote, DeleteBranch(r)
    PROVE  IInv'
<1> USE DEF database, github, faults
<1>1. TypeOK'
  <2>1. prs' \in [Prs -> PullRequest]
    <3>1. ASSUME NEW p \in Prs PROVE prs'[p] \in PullRequest
      <4>1. prs'[p] = prs[p] \/ prs'[p] = [prs[p] EXCEPT !.state = "closed"]
        BY DEF DeleteBranch
      <4>2. prs[p] \in PullRequest
        BY DEF IInv, TypeOK
      <4>3. QED BY <4>1, <4>2 DEF PullRequest, PrState
    <3>2. prs' = [p \in Prs |-> prs'[p]]
      BY DEF DeleteBranch
    <3>3. QED BY <3>1, <3>2
  <2>2. hooks' \in [Prs -> HookState]
    BY DEF IInv, TypeOK, DeleteBranch, HookState
  <2>3. QED BY <2>1, <2>2 DEF IInv, TypeOK, DeleteBranch
<1>2. JobKnowledge'
  BY DEF IInv, JobKnowledge, Holding, Steps, HeldByOneJob, DeleteBranch
<1>3. HeldByOneJob'
  BY DEF IInv, HeldByOneJob, Holding, DeleteBranch
<1>4. OneHeadPerBranch'
  BY DEF IInv, OneHeadPerBranch, DeleteBranch
<1>5. AttemptsKnown'
  BY DEF IInv, AttemptsKnown, TypeOK, AttemptRow, DeleteBranch
<1>6. PrsKnown'
  BY DEF IInv, PrsKnown, TypeOK, AttemptRow, JobKnowledge, Holding,
     DeleteBranch
<1>7. FixAttemptedHasPr'
  BY DEF IInv, FixAttemptedHasPr, PrsKnown, DeleteBranch
<1>8. MergedWasMerged'
  BY ConstantsAssumption DEF IInv, MergedWasMerged, AttemptsKnown, Rows,
     DeleteBranch, AttemptRow, TypeOK
<1>9. FoundKnown'
  BY DEF IInv, FoundKnown, TypeOK, DeleteBranch
<1>10. QED
  BY <1>1, <1>2, <1>3, <1>4, <1>5, <1>6, <1>7, <1>8, <1>9 DEF IInv

\* An interrupted job forgets its attempt.
LEMMA ShutdownKeeps ==
    ASSUME IInv, NEW w \in Workers, Shutdown(w)
    PROVE  IInv'
<1>1. Running(w) \subseteq Jobs /\ \A j \in Running(w) : jobs[j].error \in Errors /\ jobs[j].try # 0
  BY DEF IInv, JobKnowledge, Running
<1>2. jobs' \in [Jobs -> Job]
  BY <1>1, RequeuedType DEF TypeOK, IInv, Shutdown
<1>3. TypeOK'
  <2>1. HeldBy(Running(w)) \subseteq Attempts
    BY <1>1, HeldByType DEF IInv
  <2>2. QED BY <1>2, <2>1, ConstantsAssumption DEF IInv, TypeOK, Shutdown, database, github
<1>4. JobKnowledge'
  BY ConstantsAssumption DEF IInv, JobKnowledge, Holding, Steps, Shutdown,
     Requeued, Running, database, github, Job, InRedis, QueuedJob, EndedJob,
     TypeOK
<1>5. HeldByOneJob'
  BY ConstantsAssumption DEF IInv, HeldByOneJob, Holding, Shutdown, Requeued,
     InRedis, QueuedJob, EndedJob
<1>6. OneHeadPerBranch'
  BY DEF IInv, OneHeadPerBranch, Shutdown, Requeued, Running, database,
     github, faults
<1>7. AttemptsKnown'
  BY DEF IInv, AttemptsKnown, Shutdown, database, github
<1>8. PrsKnown'
  BY DEF IInv, PrsKnown, Shutdown, database, github
<1>9. FixAttemptedHasPr'
  BY DEF IInv, FixAttemptedHasPr, Shutdown, database, github
<1>10. MergedWasMerged'
  BY DEF IInv, MergedWasMerged, Rows, Shutdown, database, github
<1>11. FoundKnown'
  BY DEF IInv, FoundKnown, TypeOK, Shutdown, database, github, faults
<1>12. QED
  BY <1>3, <1>4, <1>5, <1>6, <1>7, <1>8, <1>9, <1>10, <1>11 DEF IInv

\* An interrupted job forgets its attempt.
LEMMA KillKeeps ==
    ASSUME IInv, NEW w \in Workers, Kill(w)
    PROVE  IInv'
<1>1. Running(w) \subseteq Jobs /\ \A j \in Running(w) : jobs[j].error \in Errors /\ jobs[j].try # 0
  BY DEF IInv, JobKnowledge, Running
<1>2. jobs' \in [Jobs -> Job]
  BY <1>1, RequeuedType DEF TypeOK, IInv, Kill
<1>3. TypeOK'
  <2>1. HeldBy(Running(w)) \subseteq Attempts
    BY <1>1, HeldByType DEF IInv
  <2>2. QED BY <1>2, <2>1, ConstantsAssumption DEF IInv, TypeOK, Kill, database, github
<1>4. JobKnowledge'
  BY ConstantsAssumption DEF IInv, JobKnowledge, Holding, Steps, Kill,
     Requeued, Running, database, github, Job, InRedis, QueuedJob, EndedJob,
     TypeOK
<1>5. HeldByOneJob'
  BY ConstantsAssumption DEF IInv, HeldByOneJob, Holding, Kill, Requeued,
     InRedis, QueuedJob, EndedJob
<1>6. OneHeadPerBranch'
  BY DEF IInv, OneHeadPerBranch, Kill, Requeued, Running, database, github,
     faults
<1>7. AttemptsKnown'
  BY DEF IInv, AttemptsKnown, Kill, database, github
<1>8. PrsKnown'
  BY DEF IInv, PrsKnown, Kill, database, github
<1>9. FixAttemptedHasPr'
  BY DEF IInv, FixAttemptedHasPr, Kill, database, github
<1>10. MergedWasMerged'
  BY DEF IInv, MergedWasMerged, Rows, Kill, database, github
<1>11. FoundKnown'
  BY DEF IInv, FoundKnown, TypeOK, Kill, database, github, faults
<1>12. QED
  BY <1>3, <1>4, <1>5, <1>6, <1>7, <1>8, <1>9, <1>10, <1>11 DEF IInv

\* The initial state.
LEMMA InitHolds == ASSUME Init PROVE IInv
  BY ConstantsAssumption DEF Init, IInv, TypeOK, JobKnowledge, HeldByOneJob, OneHeadPerBranch, AttemptsKnown, PrsKnown, FoundKnown, FixAttemptedHasPr, MergedWasMerged, Rows, Attempt, FreePr, IdleJob, InRedis, Steps, Holding, JobState, ProjectState, ErrorStatus, AttemptStatus, PrState, HookState, AttemptRow, PullRequest, Job

\* Every step, stuttering included.
LEMMA NextKeeps == IInv /\ [Next]_vars => IInv'
<1>1. SUFFICES ASSUME IInv, [Next]_vars PROVE IInv'
  OBVIOUS
<1>2. ASSUME NEW j \in Jobs, JobStep(j) PROVE IInv'
  BY <1>1, <1>2, LoadErrorKeeps, SkipOrAbortKeeps, PrepareKeeps, MarkRunningKeeps,
     FixInCloneKeeps, StepFailsKeeps, PushKeeps, CreatePrKeeps, RecordSuccessKeeps,
     RecordFailureKeeps, FinishKeeps DEF JobStep
<1>3. CASE UNCHANGED vars
  BY <1>1, <1>3 DEF vars, IInv, TypeOK, JobKnowledge, HeldByOneJob, OneHeadPerBranch,
     AttemptsKnown, PrsKnown, FoundKnown, FixAttemptedHasPr, MergedWasMerged, Rows
<1>4. CASE Next
  BY <1>1, <1>2, <1>4, TimeoutKeeps, TriggerFixKeeps, DeliverKeeps, DeleteProjectKeeps,
     ChangeReadinessKeeps, EditProjectKeeps, MergePrKeeps, ClosePrKeeps, LoseWebhookKeeps,
     FindAttemptKeeps, MarkMergedKeeps, DeleteBranchKeeps, ShutdownKeeps, KillKeeps DEF Next
<1>5. QED BY <1>1, <1>3, <1>4

-----------------------------------------------------------------------------
(* The theorems.                                                           *)

\* IInv holds throughout every behaviour.
THEOREM Inductive == Spec => []IInv
<1>1. Init => IInv
  BY InitHolds
<1>2. IInv /\ [Next]_vars => IInv'
  BY NextKeeps
<1>3. QED BY <1>1, <1>2, PTL DEF Spec

\* Every variable keeps its type; no job is tried more than MaxTries times.
THEOREM TypeCorrect == Spec => []TypeOK
<1>1. IInv => TypeOK
  BY DEF IInv
<1>2. QED BY <1>1, Inductive, PTL

\* A recorded pull request was opened by the attempt that records it, from its
\* own commit, for its own error, under any number of duplicate jobs, retries,
\* crashes, timeouts, lost replies and branch deletions.
THEOREM RecordedPrCorrect == Spec => []RecordedPrIsOwn
<1>1. IInv => RecordedPrIsOwn
  BY DEF IInv, AttemptsKnown, RecordedPrIsOwn, Rows
<1>2. QED BY <1>1, Inductive, PTL

\* handle_pr_event never finds two attempts for one pr_url.
THEOREM UrlUnique == Spec => []UrlIsUnique
<1>1. IInv => UrlIsUnique
  BY DEF IInv, AttemptsKnown, UrlIsUnique, Rows
<1>2. QED BY <1>1, Inductive, PTL

\* FIX_ATTEMPTED means that a pull request was opened for the error.
THEOREM FixAttemptedCorrect == Spec => []FixAttemptedHasPr
<1>1. IInv => FixAttemptedHasPr
  BY DEF IInv
<1>2. QED BY <1>1, Inductive, PTL

\* MERGED means that GitHub merged the attempt's own pull request, also when the
\* failure of a commit that had taken effect was recorded before the merge was.
THEOREM MergedCorrect == Spec => []MergedWasMerged
<1>1. IInv => MergedWasMerged
  BY DEF IInv
<1>2. QED BY <1>1, Inductive, PTL

-----------------------------------------------------------------------------
(* One open pull request per error.                                        *)

\* The error of a row is written once: no step changes it or frees the row.
LEMMA RowKeepsItsError ==
    ASSUME IInv, Next, NEW a \in Attempts, attempts[a].status # "free"
    PROVE  attempts'[a].error = attempts[a].error
<1> USE DEF database
<1>1. attempts \in [Attempts -> AttemptRow]
  BY DEF IInv, TypeOK
<1>2. ASSUME NEW j \in Jobs, JobStep(j) PROVE attempts'[a].error = attempts[a].error
  <2>1. CASE Prepare(j)
    BY <2>1, <1>1 DEF Prepare
  <2>2. CASE MarkRunning(j)
    BY <2>2, <1>1 DEF MarkRunning, AttemptRow
  <2>3. CASE RecordSuccess(j)
    BY <2>3, <1>1 DEF RecordSuccess, AttemptRow
  <2>4. CASE RecordFailure(j)
    BY <2>4, <1>1 DEF RecordFailure, AttemptRow
  <2>5. CASE LoadError(j) \/ SkipOrAbort(j) \/ FixInClone(j) \/ StepFails(j)
    BY <2>5 DEF LoadError, SkipOrAbort, FixInClone, StepFails
  <2>6. CASE Push(j) \/ CreatePr(j) \/ Finish(j)
    BY <2>6 DEF Push, CreatePr, Finish
  <2>7. QED BY <1>2, <2>1, <2>2, <2>3, <2>4, <2>5, <2>6 DEF JobStep
<1>3. ASSUME NEW q \in Projects, DeleteProject(q) PROVE attempts'[a].error = attempts[a].error
  BY <1>1, <1>3 DEF DeleteProject, AttemptRow
<1>4. ASSUME NEW p \in Prs, MarkMerged(p) PROVE attempts'[a].error = attempts[a].error
  BY <1>1, <1>4 DEF MarkMerged, AttemptRow
<1>5. CASE \/ \E j \in Jobs, e \in Errors : TriggerFix(j, e)
           \/ \E q \in Projects : ChangeReadiness(q)
           \/ \E q \in Projects, r \in Repos : EditProject(q, r)
           \/ \E p \in Prs : MergePr(p) \/ ClosePr(p) \/ FindAttempt(p) \/ LoseWebhook(p)
           \/ \E r \in remote : DeleteBranch(r)
  BY <1>5 DEF TriggerFix, ChangeReadiness, EditProject, MergePr, ClosePr, FindAttempt,
     LoseWebhook, DeleteBranch
<1>6. CASE \/ \E j \in Jobs, w \in Workers : Deliver(j, w)
           \/ \E j \in Jobs : Timeout(j)
           \/ \E w \in Workers : Shutdown(w) \/ Kill(w)
  BY <1>6 DEF Deliver, Timeout, Shutdown, Kill
<1>7. QED BY <1>2, <1>3, <1>4, <1>5, <1>6 DEF Next

\* A pull request that is not open is never opened again, and none changes its
\* repository, its branch or its opener.
PrStays(p) ==
    /\ prs'[p].repo = prs[p].repo /\ prs'[p].branch = prs[p].branch /\ prs'[p].by = prs[p].by
    /\ prs'[p].state = "open" => prs[p].state = "open"
    /\ prs'[p].state = "free" <=> prs[p].state = "free"

\* Where the branch of a pull request must still be, with its attempt's head.
HeadOf(pr) == [repo |-> pr.repo, branch |-> pr.branch, head |-> pr.by]

HeadStays(p) ==
    prs'[p].state = "open" /\ HeadOf(prs[p]) \in remote => HeadOf(prs[p]) \in remote'

\* The steps before a job has opened its pull request.
Early == {"mark", "fix", "push", "open_pr"}

\* A job only gets there with an attempt it held there before, or a new one.
EarlyStays(k) ==
    jobs'[k].pc \in Early =>
        \/ jobs[k].pc \in Early /\ jobs'[k].attempt = jobs[k].attempt
        \/ /\ jobs'[k].attempt \in Attempts
           /\ attempts[jobs'[k].attempt].status = "free"

\* Steps of GitHub's users: they end pull requests, with or without the branch.
LEMMA PrsEnd ==
    ASSUME IInv, NEW q \in Prs,
           \/ \E p \in Prs : MergePr(p) \/ ClosePr(p)
           \/ \E r \in remote : DeleteBranch(r)
    PROVE  PrStays(q) /\ HeadStays(q) /\ jobs' = jobs
<1>1. prs \in [Prs -> PullRequest]
  BY DEF IInv, TypeOK
<1>2. ASSUME NEW p \in Prs, MergePr(p) \/ ClosePr(p) PROVE PrStays(q) /\ HeadStays(q) /\ jobs' = jobs
  BY <1>1, <1>2 DEF MergePr, ClosePr, PrStays, HeadStays, PullRequest
<1>3. ASSUME NEW r \in remote, DeleteBranch(r) PROVE PrStays(q) /\ HeadStays(q) /\ jobs' = jobs
  <2>1. /\ jobs' = jobs /\ remote' = remote \ {r}
        /\ IF prs[q].state = "open" /\ prs[q].repo = r.repo /\ prs[q].branch = r.branch
           THEN prs'[q] = [prs[q] EXCEPT !.state = "closed"]
           ELSE prs'[q] = prs[q]
    BY <1>3 DEF DeleteBranch
  <2>2. PrStays(q)
    BY <1>1, <2>1 DEF PrStays, PullRequest
  <2>3. HeadStays(q)
    <3>1. prs'[q].state = "open" => HeadOf(prs[q]) # r
      BY <1>1, <2>1 DEF HeadOf, PullRequest
    <3>2. QED BY <2>1, <3>1 DEF HeadStays
  <2>4. QED BY <2>1, <2>2, <2>3
<1>4. QED BY <1>2, <1>3

\* The steps of jobs but CreatePr leave the pull requests and their branches.
LEMMA JobStepApart ==
    ASSUME IInv, NEW j \in Jobs, JobStep(j), ~CreatePr(j)
    PROVE  prs' = prs /\ remote \subseteq remote' /\ \A k \in Jobs : EarlyStays(k)
<1> USE DEF github
<1>1. jobs \in [Jobs -> Job]
  BY DEF IInv, TypeOK
<1>2. CASE Prepare(j)
  BY <1>1, <1>2 DEF Prepare, Goto, EarlyStays, Early, Job
<1>3. CASE LoadError(j) \/ SkipOrAbort(j) \/ StepFails(j)
  <2>1. \E s \in {"prepare", "finish", "failing"} : jobs' = [jobs EXCEPT ![j].pc = s]
    BY <1>3 DEF LoadError, SkipOrAbort, StepFails, Goto
  <2>2. \A k \in Jobs : EarlyStays(k)
    BY <1>1, <2>1 DEF EarlyStays, Early, Job
  <2>3. UNCHANGED <<prs, remote>>
    BY <1>3 DEF LoadError, SkipOrAbort, StepFails
  <2>4. QED BY <2>2, <2>3
<1>4. CASE MarkRunning(j) \/ FixInClone(j) \/ Push(j)
  <2>1. jobs[j].pc \in Early /\ \E s \in {"fix", "push", "open_pr", "failing"} : jobs' = [jobs EXCEPT ![j].pc = s]
    BY <1>4 DEF MarkRunning, FixInClone, Push, Goto, Early
  <2>2. \A k \in Jobs : EarlyStays(k)
    BY <1>1, <2>1 DEF EarlyStays, Job
  <2>3. prs' = prs /\ remote \subseteq remote'
    BY <1>4 DEF MarkRunning, FixInClone, Push
  <2>4. QED BY <2>2, <2>3
<1>5. CASE RecordSuccess(j) \/ RecordFailure(j)
  <2>1. \E s \in {"finish", "failing"} : jobs' = [jobs EXCEPT ![j].pc = s]
    BY <1>5 DEF RecordSuccess, RecordFailure, Goto
  <2>2. \A k \in Jobs : EarlyStays(k)
    BY <1>1, <2>1 DEF EarlyStays, Early, Job
  <2>3. UNCHANGED <<prs, remote>>
    BY <1>5 DEF RecordSuccess, RecordFailure
  <2>4. QED BY <2>2, <2>3
<1>6. CASE Finish(j)
  BY <1>1, <1>6 DEF Finish, EndedJob, InRedis, EarlyStays, Early
<1>7. QED BY <1>2, <1>3, <1>4, <1>5, <1>6 DEF JobStep

\* So do the web process, arq and the loss of workers.
LEMMA OthersApart ==
    ASSUME IInv,
           \/ \E j \in Jobs, e \in Errors : TriggerFix(j, e)
           \/ \E q \in Projects : DeleteProject(q) \/ ChangeReadiness(q)
           \/ \E q \in Projects, r \in Repos : EditProject(q, r)
           \/ \E p \in Prs : FindAttempt(p) \/ MarkMerged(p) \/ LoseWebhook(p)
           \/ \E j \in Jobs, w \in Workers : Deliver(j, w)
           \/ \E j \in Jobs : Timeout(j)
           \/ \E w \in Workers : Shutdown(w) \/ Kill(w)
    PROVE  prs' = prs /\ remote' = remote /\ \A k \in Jobs : EarlyStays(k)
<1> USE DEF github
<1>1. jobs \in [Jobs -> Job]
  BY DEF IInv, TypeOK
<1>2. CASE \/ \E q \in Projects : DeleteProject(q) \/ ChangeReadiness(q)
           \/ \E q \in Projects, r \in Repos : EditProject(q, r)
           \/ \E p \in Prs : FindAttempt(p) \/ MarkMerged(p) \/ LoseWebhook(p)
  <2>1. UNCHANGED <<prs, remote, jobs>>
    BY <1>2 DEF DeleteProject, ChangeReadiness, EditProject, FindAttempt, MarkMerged, LoseWebhook
  <2>2. QED BY <2>1 DEF EarlyStays
<1>3. CASE \/ \E j \in Jobs, e \in Errors : TriggerFix(j, e)
           \/ \E j \in Jobs : Timeout(j)
  <2>1. UNCHANGED <<prs, remote>>
    BY <1>3 DEF TriggerFix, Timeout
  <2>2. PICK j \in Jobs : \/ \E e \in Errors : jobs' = [jobs EXCEPT ![j] = QueuedJob(e, 1)]
                          \/ jobs' = [jobs EXCEPT ![j] = EndedJob]
    BY <1>3 DEF TriggerFix, Timeout
  <2>3. \A k \in Jobs : jobs'[k] = jobs[k] \/ jobs'[k].pc \in {"queued", "done"}
    BY <1>1, <2>2 DEF QueuedJob, EndedJob, InRedis
  <2>4. QED BY <2>1, <2>3 DEF EarlyStays, Early
<1>4. CASE \E j \in Jobs, w \in Workers : Deliver(j, w)
  BY <1>1, <1>4 DEF Deliver, EarlyStays, Early, Job
<1>5. CASE \E w \in Workers : Shutdown(w) \/ Kill(w)
  <2>1. \A k \in Jobs : jobs'[k] = jobs[k] \/ jobs'[k].pc \in {"queued", "done"}
    BY <1>5 DEF Shutdown, Kill, Requeued, QueuedJob, EndedJob, InRedis
  <2>2. UNCHANGED <<prs, remote>>
    BY <1>5 DEF Shutdown, Kill
  <2>3. QED BY <2>1, <2>2 DEF EarlyStays, Early
<1>6. QED BY <1>2, <1>3, <1>4, <1>5

\* Steps that open no pull request keep PrsApart.
LEMMA ApartCarried ==
    ASSUME IInv, PrsApart, Next,
           \A p \in Prs : PrStays(p) /\ HeadStays(p),
           \A k \in Jobs : EarlyStays(k)
    PROVE  PrsApart'
<1>1. \A p \in Prs : prs[p].state # "free" =>
         /\ attempts'[prs[p].by].error = attempts[prs[p].by].error
         /\ attempts[prs[p].by].status # "free"
  BY RowKeepsItsError DEF IInv, PrsKnown
<1>2. ASSUME NEW p \in Prs, prs'[p].state # "free"
      PROVE  prs'[p].branch = BranchOf[attempts'[prs'[p].by].error]
  BY <1>1, <1>2 DEF PrsApart, PrStays
<1>3. ASSUME NEW p \in Prs, prs'[p].state = "open"
      PROVE  [repo |-> prs'[p].repo, branch |-> prs'[p].branch, head |-> prs'[p].by] \in remote'
  BY <1>3 DEF PrsApart, PrStays, HeadStays, HeadOf
<1>4. ASSUME NEW p \in Prs, NEW q \in Prs,
             prs'[p].state # "free", prs'[q].state # "free", prs'[p].by = prs'[q].by
      PROVE  p = q
  BY <1>4 DEF PrsApart, PrStays
<1>5. ASSUME NEW k \in Jobs, NEW p \in Prs, jobs'[k].pc \in Early, prs'[p].state # "free"
      PROVE  prs'[p].by # jobs'[k].attempt
  BY <1>1, <1>5 DEF PrsApart, PrStays, EarlyStays, Early
<1>6. QED BY <1>2, <1>3, <1>4, <1>5 DEF PrsApart, Early

\* A new pull request has the branch of its attempt's error, that branch has the
\* head this job pushed, and the attempt had no pull request before.
LEMMA CreatePrApart ==
    ASSUME IInv, PrsApart, Next, NEW j \in Jobs, CreatePr(j)
    PROVE  PrsApart'
<1> DEFINE a == jobs[j].attempt
           b == BranchOf[jobs[j].error]
<1>1. /\ jobs \in [Jobs -> Job] /\ prs \in [Prs -> PullRequest]
      /\ jobs[j].pc = "open_pr" /\ a \in Attempts
      /\ attempts[a].error = jobs[j].error
      /\ [repo |-> jobs[j].repo, branch |-> b, head |-> a] \in remote
  BY DEF CreatePr, IInv, TypeOK, JobKnowledge, Holding
<1>2. PICK p \in Prs, r \in remote :
        /\ prs[p].state = "free"
        /\ r.repo = jobs[j].repo /\ r.branch = b
        /\ prs' = [prs EXCEPT ![p] = [state |-> "open", repo |-> r.repo, branch |-> r.branch,
                                      head |-> r.head, by |-> a]]
  BY DEF CreatePr, BranchOfJob, SameBranch, BranchName
<1>3. /\ UNCHANGED <<attempts, remote>>
      /\ \A k \in Jobs : k # j => jobs'[k] = jobs[k]
      /\ jobs'[j].pc \in {"record", "failing"}
  BY <1>1 DEF CreatePr, Goto, Job, database
<1>4. /\ prs'[p].state = "open" /\ prs'[p].by = a
      /\ prs'[p].repo = jobs[j].repo /\ prs'[p].branch = b
      /\ \A q \in Prs : q # p => prs'[q] = prs[q]
  BY <1>1, <1>2
<1>5. \A q \in Prs : q # p /\ prs'[q].state # "free" => prs'[q].by # a
  BY <1>1, <1>4 DEF PrsApart
<1>6. \A k \in Jobs : jobs'[k].pc \in Early => k # j /\ jobs[k].pc \in Early /\ jobs[k].attempt # a
  BY <1>1, <1>3 DEF IInv, HeldByOneJob, Early, Holding
<1> HIDE DEF a, b
<1>7. ASSUME NEW q \in Prs, prs'[q].state # "free"
      PROVE  prs'[q].branch = BranchOf[attempts'[prs'[q].by].error]
  BY <1>1, <1>3, <1>4, <1>7 DEF PrsApart, b
<1>8. ASSUME NEW q \in Prs, prs'[q].state = "open"
      PROVE  [repo |-> prs'[q].repo, branch |-> prs'[q].branch, head |-> prs'[q].by] \in remote'
  BY <1>1, <1>3, <1>4, <1>8 DEF PrsApart
<1>9. ASSUME NEW q \in Prs, NEW s \in Prs,
             prs'[q].state # "free", prs'[s].state # "free", prs'[q].by = prs'[s].by
      PROVE  q = s
  BY <1>4, <1>5, <1>9 DEF PrsApart
<1>10. ASSUME NEW k \in Jobs, NEW q \in Prs, jobs'[k].pc \in Early, prs'[q].state # "free"
       PROVE  prs'[q].by # jobs'[k].attempt
  BY <1>3, <1>4, <1>6, <1>10 DEF PrsApart, Early
<1>11. QED BY <1>7, <1>8, <1>9, <1>10 DEF PrsApart, Early

\* Every step keeps PrsApart.
LEMMA PrsApartKeeps ==
    ASSUME IInv, PrsApart, Next
    PROVE  PrsApart'
<1>1. ASSUME prs' = prs, remote \subseteq remote', \A k \in Jobs : EarlyStays(k)
      PROVE  PrsApart'
  <2>1. \A p \in Prs : PrStays(p) /\ HeadStays(p)
    BY <1>1 DEF PrStays, HeadStays
  <2>2. QED BY <1>1, <2>1, ApartCarried
<1>2. ASSUME NEW j \in Jobs, JobStep(j) PROVE PrsApart'
  BY <1>1, <1>2, JobStepApart, CreatePrApart
<1>3. CASE \/ \E p \in Prs : MergePr(p) \/ ClosePr(p)
           \/ \E r \in remote : DeleteBranch(r)
  <2>1. (\A p \in Prs : PrStays(p) /\ HeadStays(p)) /\ (Prs # {} => jobs' = jobs)
    BY <1>3, PrsEnd
  <2>2. jobs' = jobs
    BY <1>3 DEF MergePr, ClosePr, DeleteBranch
  <2>3. \A k \in Jobs : EarlyStays(k)
    BY <2>2 DEF EarlyStays
  <2>4. QED BY <2>1, <2>3, ApartCarried
<1>4. CASE \/ \E j \in Jobs, e \in Errors : TriggerFix(j, e)
           \/ \E q \in Projects : DeleteProject(q) \/ ChangeReadiness(q)
           \/ \E q \in Projects, r \in Repos : EditProject(q, r)
           \/ \E p \in Prs : FindAttempt(p) \/ MarkMerged(p) \/ LoseWebhook(p)
           \/ \E j \in Jobs, w \in Workers : Deliver(j, w)
           \/ \E j \in Jobs : Timeout(j)
           \/ \E w \in Workers : Shutdown(w) \/ Kill(w)
  BY <1>1, <1>4, OthersApart
<1>5. QED BY <1>2, <1>3, <1>4 DEF Next

\* In a repository at most one pull request per error is open, however many jobs,
\* retries and duplicate triggers work on that error, whatever GitHub's users do
\* and however often the project moves from one repository to another and back.
THEOREM OneOpenPr == Spec => []OneOpenPrPerRepo
<1>1. Init => PrsApart
  BY DEF Init, PrsApart, FreePr
<1>2. IInv /\ PrsApart /\ [Next]_vars => PrsApart'
  <2>1. UNCHANGED vars /\ PrsApart => PrsApart'
    BY DEF vars, PrsApart
  <2>2. QED BY <2>1, PrsApartKeeps
<1>3. IInv /\ PrsApart => OneOpenPrPerRepo
  <2> SUFFICES ASSUME IInv, PrsApart, NEW p \in Prs, NEW q \in Prs,
                      prs[p].state = "open", prs[q].state = "open",
                      prs[p].repo = prs[q].repo,
                      attempts[prs[p].by].error = attempts[prs[q].by].error
               PROVE  p = q
    BY DEF OneOpenPrPerRepo
  <2>1. prs[p].branch = prs[q].branch
    BY DEF PrsApart
  <2>2. HeadOf(prs[p]) \in remote /\ HeadOf(prs[q]) \in remote
    BY DEF PrsApart, HeadOf
  <2>3. HeadOf(prs[p]) = HeadOf(prs[q])
    BY <2>1, <2>2 DEF IInv, OneHeadPerBranch, HeadOf
  <2>4. prs[p].by = prs[q].by
    BY <2>3 DEF HeadOf
  <2>5. QED BY <2>4 DEF PrsApart
<1>4. QED BY <1>1, <1>2, <1>3, Inductive, PTL DEF Spec

-----------------------------------------------------------------------------
(* Attempts in progress.                                                   *)

\* A step of a job leaves its attempt settled, with the job, or in cut.
LEMMA JobStepStrandsNone ==
    ASSUME IInv, OnlyInterruptionsStrand, NEW j \in Jobs, JobStep(j)
    PROVE  OnlyInterruptionsStrand'
<1>1. SUFFICES ASSUME NEW a \in Attempts, attempts'[a].status \in {"pending", "running"}
               PROVE  Held(a)' \/ a \in cut'
  BY DEF OnlyInterruptionsStrand
<1>2. jobs \in [Jobs -> Job] /\ attempts \in [Attempts -> AttemptRow] /\ cut \subseteq cut'
  BY DEF IInv, TypeOK, JobStep, LoadError, SkipOrAbort, Prepare, MarkRunning, FixInClone,
     StepFails, Push, CreatePr, RecordSuccess, RecordFailure, Finish, Unreported, faults
<1>3. ASSUME NEW k \in Jobs, k # j, jobs[k].pc \in Holding, jobs[k].attempt = a PROVE Held(a)'
  <2>1. jobs'[k] = jobs[k]
    BY <1>2, <1>3 DEF JobStep, LoadError, SkipOrAbort, Prepare, MarkRunning, FixInClone,
       StepFails, Push, CreatePr, RecordSuccess, RecordFailure, Finish, Goto
  <2>2. QED BY <1>3, <2>1 DEF Held
<1>4. ASSUME NEW s \in Holding, jobs' = [jobs EXCEPT ![j].pc = s], jobs[j].attempt = a
      PROVE  Held(a)'
  BY <1>2, <1>4 DEF Held, Job
<1>5. CASE Prepare(j)
  <2>1. PICK b \in Attempts :
          /\ attempts' = [attempts EXCEPT ![b] = Attempt("pending", jobs[j].error, None)]
          /\ \/ \E r : jobs' = [jobs EXCEPT ![j].pc = "mark", ![j].attempt = b, ![j].repo = r]
             \/ cut' = cut \cup {b}
    BY <1>5 DEF Prepare
  <2>2. CASE a = b
    BY <1>2, <2>1, <2>2 DEF Held, Holding, Job
  <2>3. CASE a # b
    <3>1. attempts[a].status \in {"pending", "running"} /\ jobs[j].pc \notin Holding
      BY <1>1, <1>2, <1>5, <2>1, <2>3 DEF Prepare, Holding
    <3>2. QED BY <1>2, <1>3, <3>1 DEF OnlyInterruptionsStrand, Held
  <2>4. QED BY <2>2, <2>3
<1>6. CASE LoadError(j) \/ SkipOrAbort(j) \/ Finish(j)
  <2>1. attempts' = attempts /\ jobs[j].pc \notin Holding
    BY <1>6 DEF LoadError, SkipOrAbort, Finish, database, Holding
  <2>2. QED BY <1>1, <1>2, <1>3, <2>1 DEF OnlyInterruptionsStrand, Held
<1>7. CASE MarkRunning(j) \/ FixInClone(j) \/ StepFails(j) \/ Push(j) \/ CreatePr(j)
  <2>1. attempts[a].status \in {"pending", "running"}
    <3>1. CASE MarkRunning(j)
      BY <1>1, <1>2, <3>1 DEF MarkRunning, IInv, JobKnowledge, AttemptRow, Holding
    <3>2. CASE FixInClone(j) \/ StepFails(j) \/ Push(j) \/ CreatePr(j)
      BY <1>1, <3>2 DEF FixInClone, StepFails, Push, CreatePr, database
    <3>3. QED BY <1>7, <3>1, <3>2
  <2>2. /\ jobs'[j].pc \in Holding /\ jobs'[j].attempt = jobs[j].attempt
    <3>1. \E s \in Holding : \/ jobs' = [jobs EXCEPT ![j].pc = s]
                             \/ \E p : jobs' = [jobs EXCEPT ![j].pc = s, ![j].pr = p]
      BY <1>7 DEF MarkRunning, FixInClone, StepFails, Push, CreatePr, Goto, Holding
    <3>2. QED BY <1>2, <3>1 DEF Job
  <2>3. QED BY <1>2, <1>3, <2>1, <2>2 DEF OnlyInterruptionsStrand, Held
<1>8. CASE RecordSuccess(j) \/ RecordFailure(j)
  <2>1. CASE a = jobs[j].attempt
    <3>1. ~RecordSuccess(j)
      BY <1>1, <1>2, <2>1 DEF RecordSuccess, AttemptRow
    <3>2. CASE attempts' = [attempts EXCEPT ![a].status = "failed", ![a].url = None]
      BY <1>1, <1>2, <3>2 DEF AttemptRow
    <3>3. RecordFailure(j)
      BY <1>8, <3>1
    <3>4. QED BY <2>1, <3>2, <3>3 DEF RecordFailure
  <2>2. CASE a # jobs[j].attempt
    <3>1. attempts[a].status \in {"pending", "running"}
      BY <1>1, <1>2, <1>8, <2>2 DEF RecordSuccess, RecordFailure
    <3>2. QED BY <1>2, <1>3, <2>2, <3>1 DEF OnlyInterruptionsStrand, Held
  <2>3. QED BY <2>1, <2>2
<1>9. QED BY <1>5, <1>6, <1>7, <1>8 DEF JobStep

\* Jobs that are cut short put their attempts into cut.
LEMMA InterruptionStrands ==
    ASSUME IInv, OnlyInterruptionsStrand, NEW js \in SUBSET Jobs,
           attempts' = attempts, cut' = cut \cup HeldBy(js),
           \A k \in Jobs \ js : jobs'[k] = jobs[k]
    PROVE  OnlyInterruptionsStrand'
<1>1. SUFFICES ASSUME NEW a \in Attempts, attempts[a].status \in {"pending", "running"}
               PROVE  Held(a)' \/ a \in cut'
  BY DEF OnlyInterruptionsStrand
<1>2. a \in cut => a \in cut'
  OBVIOUS
<1>3. ASSUME NEW k \in Jobs, jobs[k].pc \in Holding, jobs[k].attempt = a
      PROVE  Held(a)' \/ a \in cut'
  <2>1. CASE k \in js
    BY <1>3, <2>1 DEF HeldBy
  <2>2. CASE k \notin js
    BY <1>3, <2>2 DEF Held
  <2>3. QED BY <2>1, <2>2
<1>4. QED BY <1>1, <1>2, <1>3 DEF OnlyInterruptionsStrand, Held

\* The other steps settle or delete attempts, and take none from its job.
LEMMA OthersStrandNone ==
    ASSUME IInv, OnlyInterruptionsStrand, cut' = cut,
           \A a \in Attempts : attempts'[a].status \in {"pending", "running"} =>
              attempts[a].status \in {"pending", "running"},
           \A k \in Jobs : jobs[k].pc \in Holding => jobs'[k] = jobs[k]
    PROVE  OnlyInterruptionsStrand'
  BY DEF OnlyInterruptionsStrand, Held

\* Every step keeps it.
LEMMA StrandedStep ==
    ASSUME IInv, OnlyInterruptionsStrand, Next
    PROVE  OnlyInterruptionsStrand'
<1> USE DEF database
<1>1. jobs \in [Jobs -> Job] /\ attempts \in [Attempts -> AttemptRow]
  BY DEF IInv, TypeOK
<1>2. ASSUME NEW j \in Jobs, Timeout(j) PROVE OnlyInterruptionsStrand'
  <2>1. {j} \in SUBSET Jobs /\ attempts' = attempts /\ cut' = cut \cup HeldBy({j})
        /\ \A k \in Jobs \ {j} : jobs'[k] = jobs[k]
    BY <1>1, <1>2 DEF Timeout
  <2>2. QED BY <2>1, InterruptionStrands
<1>3. ASSUME NEW w \in Workers, Shutdown(w) \/ Kill(w) PROVE OnlyInterruptionsStrand'
  <2>1. Running(w) \in SUBSET Jobs /\ attempts' = attempts /\ cut' = cut \cup HeldBy(Running(w))
        /\ \A k \in Jobs \ Running(w) : jobs'[k] = jobs[k]
    BY <1>1, <1>3 DEF Shutdown, Kill, Requeued, Running
  <2>2. QED BY <2>1, InterruptionStrands
<1>4. ASSUME NEW j \in Jobs, JobStep(j) PROVE OnlyInterruptionsStrand'
  BY <1>4, JobStepStrandsNone
<1>5. ASSUME NEW j \in Jobs, (\E e \in Errors : TriggerFix(j, e)) \/ (\E w \in Workers : Deliver(j, w))
      PROVE  OnlyInterruptionsStrand'
  <2>1. UNCHANGED <<attempts, cut>> /\ jobs[j].pc \notin Holding
        /\ \A k \in Jobs : k # j => jobs'[k] = jobs[k]
    BY <1>1, <1>5 DEF TriggerFix, Deliver, Holding, faults
  <2>2. QED BY <2>1, OthersStrandNone
<1>6. CASE \/ \E q \in Projects : DeleteProject(q)
           \/ \E p \in Prs : MarkMerged(p)
  <2>1. UNCHANGED <<jobs, cut>>
    BY <1>6 DEF DeleteProject, MarkMerged, faults
  <2>2. \A a \in Attempts : attempts'[a].status \in {attempts[a].status, "gone", "merged"}
    <3>1. ASSUME NEW q \in Projects, DeleteProject(q), NEW a \in Attempts
          PROVE  attempts'[a].status \in {attempts[a].status, "gone"}
      BY <1>1, <3>1 DEF DeleteProject, AttemptRow
    <3>2. ASSUME NEW p \in Prs, MarkMerged(p), NEW a \in Attempts
          PROVE  attempts'[a].status \in {attempts[a].status, "merged"}
      BY <1>1, <3>2 DEF MarkMerged, AttemptRow
    <3>3. QED BY <1>6, <3>1, <3>2
  <2>3. QED BY <2>1, <2>2, OthersStrandNone
<1>7. CASE \/ \E q \in Projects : ChangeReadiness(q)
           \/ \E q \in Projects, r \in Repos : EditProject(q, r)
           \/ \E p \in Prs : MergePr(p) \/ ClosePr(p) \/ FindAttempt(p) \/ LoseWebhook(p)
           \/ \E r \in remote : DeleteBranch(r)
  <2>1. UNCHANGED <<attempts, jobs, cut>>
    BY <1>7 DEF ChangeReadiness, EditProject, MergePr, ClosePr, FindAttempt, LoseWebhook,
       DeleteBranch, faults
  <2>2. QED BY <2>1, OthersStrandNone
<1>8. QED BY <1>2, <1>3, <1>4, <1>5, <1>6, <1>7 DEF Next

\* Only a job that was cut short leaves its attempt PENDING or RUNNING: every
\* other way through run() writes an outcome, whatever the other jobs, GitHub and
\* the web process do meanwhile.
THEOREM StrandedOnlyByInterruption == Spec => []OnlyInterruptionsStrand
<1>1. Init => OnlyInterruptionsStrand
  BY DEF Init, OnlyInterruptionsStrand, Attempt
<1>2. IInv /\ OnlyInterruptionsStrand /\ [Next]_vars => OnlyInterruptionsStrand'
  <2>1. UNCHANGED vars /\ OnlyInterruptionsStrand => OnlyInterruptionsStrand'
    BY DEF vars, OnlyInterruptionsStrand, Held
  <2>2. QED BY <2>1, StrandedStep
<1>3. QED BY <1>1, <1>2, Inductive, PTL DEF Spec

-----------------------------------------------------------------------------
(* Clone directories.                                                      *)

\* A step of one job that stays in run() keeps its try, hence its clone.
LEMMA JobGoesOn ==
    ASSUME jobs \in [Jobs -> Job], NEW j \in Jobs, NEW s \in Steps,
           dirs \subseteq Jobs \X (1..MaxTries), jobs[j].pc \in Steps,
           jobs'[j].pc = s, jobs'[j].try = jobs[j].try,
           \A k \in Jobs : k # j => jobs'[k] = jobs[k],
           dirs' \subseteq dirs \cup {<<j, jobs[j].try>>}
    PROVE  LeftClones' \subseteq LeftClones
<1>1. SUFFICES ASSUME NEW d \in dirs', ~(jobs'[d[1]].pc \in Steps /\ jobs'[d[1]].try = d[2])
               PROVE  d \in LeftClones
  BY DEF LeftClones
<1>2. d \in dirs /\ d[1] \in Jobs
  BY <1>1
<1>3. jobs[d[1]].pc \in Steps => jobs[d[1]].try # d[2]
  BY <1>1, <1>2
<1>4. QED BY <1>2, <1>3 DEF LeftClones

\* Jobs that leave run() take the clones of their tries with them.
LEMMA JobLeaves ==
    ASSUME NEW js \in SUBSET Jobs,
           dirs \subseteq Jobs \X (1..MaxTries),
           \A k \in Jobs \ js : jobs'[k] = jobs[k],
           \A d \in dirs' : d \in dirs /\ \A j \in js : d # <<j, jobs[j].try>>
    PROVE  LeftClones' \subseteq LeftClones
<1>1. SUFFICES ASSUME NEW d \in dirs', ~(jobs'[d[1]].pc \in Steps /\ jobs'[d[1]].try = d[2])
               PROVE  d \in LeftClones
  BY DEF LeftClones
<1>2. d \in dirs /\ d[1] \in Jobs /\ d = <<d[1], d[2]>>
  OBVIOUS
<1>3. d[1] \in js => jobs[d[1]].try # d[2]
  BY <1>2
<1>4. d[1] \notin js => jobs'[d[1]] = jobs[d[1]]
  BY <1>2
<1>5. QED BY <1>1, <1>2, <1>3, <1>4 DEF LeftClones

\* The clones of a job outside run() are left already.
LEMMA JobOutside ==
    ASSUME NEW j \in Jobs, jobs[j].pc \notin Steps,
           dirs \subseteq Jobs \X (1..MaxTries),
           \A k \in Jobs : k # j => jobs'[k] = jobs[k], dirs' = dirs
    PROVE  LeftClones' \subseteq LeftClones
<1>1. SUFFICES ASSUME NEW d \in dirs, ~(jobs'[d[1]].pc \in Steps /\ jobs'[d[1]].try = d[2])
               PROVE  d \in LeftClones
  BY DEF LeftClones
<1>2. d[1] \in Jobs
  OBVIOUS
<1>3. QED BY <1>1, <1>2 DEF LeftClones

\* Where a step of run() leads to: a step on the same worker, with the same try,
\* and at most the clone of that try is new.
LEMMA JobStepGoesOn ==
    ASSUME TypeOK, NEW j \in Jobs, JobStep(j), ~Finish(j)
    PROVE  /\ jobs[j].pc \in Steps
           /\ \E s \in Steps : /\ jobs'[j].pc = s /\ jobs'[j].try = jobs[j].try
                               /\ jobs'[j].worker = jobs[j].worker
           /\ \A k \in Jobs : k # j => jobs'[k] = jobs[k]
           /\ dirs' \subseteq dirs \cup {<<j, jobs[j].try>>}
           /\ kills' = kills
<1> DEFINE Moves == \E s \in Steps : \/ jobs' = [jobs EXCEPT ![j].pc = s]
                                     \/ \E p \in Prs : jobs' = [jobs EXCEPT ![j].pc = s, ![j].pr = p]
<1>1. CASE LoadError(j) \/ SkipOrAbort(j)
  <2>1. Moves
    BY <1>1 DEF LoadError, SkipOrAbort, Goto, Steps
  <2>2. UNCHANGED <<dirs, kills>>
    BY <1>1 DEF LoadError, SkipOrAbort, faults
  <2>3. jobs[j].pc \in Steps
    BY <1>1 DEF LoadError, SkipOrAbort, Steps
  <2>4. QED BY <2>1, <2>2, <2>3 DEF TypeOK, Job
<1>2. CASE Prepare(j)
  <2>1. \E s \in {"mark", "finish"} : /\ jobs'[j].pc = s /\ jobs'[j].try = jobs[j].try
                                      /\ jobs'[j].worker = jobs[j].worker
    <3>1. CASE Goto(j, "finish")
      BY <3>1 DEF Goto, TypeOK, Job
    <3>2. CASE \E a \in Attempts : \E r :
                 jobs' = [jobs EXCEPT ![j].pc = "mark", ![j].attempt = a, ![j].repo = r]
      BY <3>2 DEF TypeOK, Job
    <3>3. QED BY <1>2, <3>1, <3>2 DEF Prepare
  <2>2. \A k \in Jobs : k # j => jobs'[k] = jobs[k]
    BY <1>2 DEF Prepare, Goto, TypeOK
  <2>3. kills' = kills /\ dirs' \subseteq dirs \cup {<<j, jobs[j].try>>}
    BY <1>2 DEF Prepare, faults
  <2>4. jobs[j].pc \in Steps /\ {"mark", "finish"} \subseteq Steps
    BY <1>2 DEF Prepare, Steps
  <2>5. QED BY <2>1, <2>2, <2>3, <2>4
<1>3. CASE MarkRunning(j) \/ FixInClone(j) \/ StepFails(j)
  <2>1. Moves
    BY <1>3 DEF MarkRunning, FixInClone, StepFails, Goto, Steps
  <2>2. UNCHANGED <<dirs, kills>>
    BY <1>3 DEF MarkRunning, FixInClone, StepFails, faults
  <2>3. jobs[j].pc \in Steps
    BY <1>3 DEF MarkRunning, FixInClone, StepFails, Steps
  <2>4. QED BY <2>1, <2>2, <2>3 DEF TypeOK, Job
<1>4. CASE Push(j) \/ CreatePr(j)
  <2>1. Moves
    BY <1>4 DEF Push, CreatePr, Goto, Steps
  <2>2. UNCHANGED <<dirs, kills>>
    BY <1>4 DEF Push, CreatePr, Unreported, faults
  <2>3. jobs[j].pc \in Steps
    BY <1>4 DEF Push, CreatePr, Steps
  <2>4. QED BY <2>1, <2>2, <2>3 DEF TypeOK, Job
<1>5. CASE RecordSuccess(j) \/ RecordFailure(j)
  <2>1. Moves
    BY <1>5 DEF RecordSuccess, RecordFailure, Goto, Steps
  <2>2. UNCHANGED <<dirs, kills>>
    BY <1>5 DEF RecordSuccess, RecordFailure, Unreported, faults
  <2>3. jobs[j].pc \in Steps
    BY <1>5 DEF RecordSuccess, RecordFailure, Steps
  <2>4. QED BY <2>1, <2>2, <2>3 DEF TypeOK, Job
<1>6. QED BY <1>1, <1>2, <1>3, <1>4, <1>5 DEF JobStep

\* Which steps leave clones: a killed worker's one for each of its jobs.
LEMMA ClonesStep ==
    ASSUME TypeOK, Next
    PROVE  \/ LeftClones' \subseteq LeftClones /\ kills' = kills
           \/ \E w \in Workers :
                 /\ LeftClones' \subseteq LeftClones \cup {<<j, jobs[j].try>> : j \in Running(w)}
                 /\ kills' = kills + 1
<1>1. dirs \subseteq Jobs \X (1..MaxTries) /\ jobs \in [Jobs -> Job]
  BY DEF TypeOK
<1>2. ASSUME NEW j \in Jobs, JobStep(j), ~Finish(j)
      PROVE  LeftClones' \subseteq LeftClones /\ kills' = kills
  <2>1. PICK s \in Steps : jobs'[j].pc = s /\ jobs'[j].try = jobs[j].try
    BY <1>2, JobStepGoesOn
  <2>2. QED BY <1>1, <1>2, <2>1, JobStepGoesOn, JobGoesOn
<1>3. ASSUME NEW j \in Jobs, Finish(j) \/ Timeout(j)
      PROVE  LeftClones' \subseteq LeftClones /\ kills' = kills
  <2>1. /\ \A k \in Jobs \ {j} : jobs'[k] = jobs[k]
        /\ \A d \in dirs' : d \in dirs /\ \A i \in {j} : d # <<i, jobs[i].try>>
        /\ kills' = kills
    BY <1>1, <1>3 DEF Finish, Timeout, faults
  <2>2. {j} \in SUBSET Jobs
    OBVIOUS
  <2>3. QED BY <1>1, <2>1, <2>2, JobLeaves
<1>4. ASSUME NEW w \in Workers, Shutdown(w)
      PROVE  LeftClones' \subseteq LeftClones /\ kills' = kills
  <2>1. Running(w) \in SUBSET Jobs
    BY DEF Running
  <2>2. \A k \in Jobs \ Running(w) : jobs'[k] = jobs[k]
    BY <1>4 DEF Shutdown, Requeued
  <2>3. /\ \A d \in dirs' : d \in dirs /\ \A i \in Running(w) : d # <<i, jobs[i].try>>
        /\ kills' = kills
    BY <1>4 DEF Shutdown, faults
  <2>4. QED BY <1>1, <2>1, <2>2, <2>3, JobLeaves
<1>5. ASSUME NEW w \in Workers, Kill(w)
      PROVE  /\ LeftClones' \subseteq LeftClones \cup {<<j, jobs[j].try>> : j \in Running(w)}
             /\ kills' = kills + 1
  <2>1. dirs' = dirs /\ kills' = kills + 1 /\ \A k \in Jobs \ Running(w) : jobs'[k] = jobs[k]
    BY <1>5 DEF Kill, Requeued
  <2>2. SUFFICES ASSUME NEW d \in dirs, ~(jobs'[d[1]].pc \in Steps /\ jobs'[d[1]].try = d[2]),
                        d \notin LeftClones
                 PROVE  \E j \in Running(w) : d = <<j, jobs[j].try>>
    BY <2>1 DEF LeftClones
  <2>3. d[1] \in Jobs /\ d = <<d[1], d[2]>>
    BY <1>1
  <2>4. jobs[d[1]].try = d[2] /\ jobs[d[1]].pc \in Steps
    BY <2>2 DEF LeftClones
  <2>5. d[1] \in Running(w)
    BY <2>1, <2>2, <2>3, <2>4
  <2>6. QED BY <2>3, <2>4, <2>5
<1>6. ASSUME NEW j \in Jobs, NEW e \in Errors, TriggerFix(j, e)
      PROVE  LeftClones' \subseteq LeftClones /\ kills' = kills
  <2>1. jobs[j].pc \notin Steps
    BY <1>6 DEF TriggerFix, Steps
  <2>2. (\A k \in Jobs : k # j => jobs'[k] = jobs[k]) /\ UNCHANGED <<dirs, kills>>
    BY <1>1, <1>6 DEF TriggerFix, faults
  <2>3. QED BY <1>1, <2>1, <2>2, JobOutside
<1>7. ASSUME NEW j \in Jobs, NEW w \in Workers, Deliver(j, w)
      PROVE  LeftClones' \subseteq LeftClones /\ kills' = kills
  <2>1. jobs[j].pc \notin Steps
    BY <1>7 DEF Deliver, Steps
  <2>2. (\A k \in Jobs : k # j => jobs'[k] = jobs[k]) /\ UNCHANGED <<dirs, kills>>
    BY <1>1, <1>7 DEF Deliver, faults
  <2>3. QED BY <1>1, <2>1, <2>2, JobOutside
<1>8. CASE \/ \E q \in Projects : DeleteProject(q) \/ ChangeReadiness(q)
           \/ \E q \in Projects, r \in Repos : EditProject(q, r)
           \/ \E p \in Prs : MergePr(p) \/ ClosePr(p)
           \/ \E p \in Prs : FindAttempt(p) \/ MarkMerged(p) \/ LoseWebhook(p)
           \/ \E r \in remote : DeleteBranch(r)
  <2>1. UNCHANGED <<jobs, dirs, kills>>
    BY <1>8 DEF DeleteProject, ChangeReadiness, EditProject, MergePr, ClosePr, FindAttempt,
       MarkMerged, LoseWebhook, DeleteBranch, faults
  <2>2. QED BY <2>1 DEF LeftClones
<1>9. QED BY <1>2, <1>3, <1>4, <1>5, <1>6, <1>7, <1>8 DEF Next

\* Who runs where: a worker only gets a job by Deliver.
LEMMA SlotsStep ==
    ASSUME TypeOK, Next
    PROVE  \A w \in Workers :
              \/ Running(w)' \subseteq Running(w)
              \/ /\ Cardinality(Running(w)) < Concurrency
                 /\ \E j \in Jobs : Running(w)' \subseteq Running(w) \cup {j}
<1>1. jobs \in [Jobs -> Job]
  BY DEF TypeOK
<1>2. SUFFICES ASSUME NEW w \in Workers
               PROVE  \/ Running(w)' \subseteq Running(w)
                      \/ /\ Cardinality(Running(w)) < Concurrency
                         /\ \E j \in Jobs : Running(w)' \subseteq Running(w) \cup {j}
  OBVIOUS
<1>3. ASSUME NEW j \in Jobs, JobStep(j), ~Finish(j) PROVE Running(w)' \subseteq Running(w)
  BY <1>3, JobStepGoesOn DEF Running
<1>4. ASSUME NEW j \in Jobs, Finish(j) \/ Timeout(j) PROVE Running(w)' \subseteq Running(w)
  BY <1>1, <1>4 DEF Finish, Timeout, Running, EndedJob, InRedis, Steps
<1>5. ASSUME NEW v \in Workers, Shutdown(v) \/ Kill(v) PROVE Running(w)' \subseteq Running(w)
  <2>1. \A k \in Jobs : jobs'[k] = jobs[k] \/ jobs'[k].pc \in {"queued", "done"}
    BY <1>5 DEF Shutdown, Kill, Requeued, QueuedJob, EndedJob, InRedis
  <2>2. QED BY <2>1 DEF Running, Steps
<1>6. ASSUME NEW j \in Jobs, NEW e \in Errors, TriggerFix(j, e)
      PROVE  Running(w)' \subseteq Running(w)
  BY <1>1, <1>6 DEF TriggerFix, QueuedJob, InRedis, Running, Steps
<1>7. ASSUME NEW j \in Jobs, NEW v \in Workers, Deliver(j, v)
      PROVE  \/ Running(w)' \subseteq Running(w)
             \/ /\ Cardinality(Running(w)) < Concurrency
                /\ Running(w)' \subseteq Running(w) \cup {j}
  <2>1. /\ jobs'[j].worker = v /\ \A k \in Jobs : k # j => jobs'[k] = jobs[k]
        /\ Cardinality(Running(v)) < Concurrency
    BY <1>1, <1>7 DEF Deliver, Job
  <2>2. QED BY <2>1 DEF Running
<1>8. CASE \/ \E q \in Projects : DeleteProject(q) \/ ChangeReadiness(q)
           \/ \E q \in Projects, r \in Repos : EditProject(q, r)
           \/ \E p \in Prs : MergePr(p) \/ ClosePr(p)
           \/ \E p \in Prs : FindAttempt(p) \/ MarkMerged(p) \/ LoseWebhook(p)
           \/ \E r \in remote : DeleteBranch(r)
  <2>1. jobs' = jobs
    BY <1>8 DEF DeleteProject, ChangeReadiness, EditProject, MergePr, ClosePr, FindAttempt,
       MarkMerged, LoseWebhook, DeleteBranch
  <2>2. QED BY <2>1 DEF Running
<1>9. QED BY <1>3, <1>4, <1>5, <1>6, <1>7, <1>8 DEF Next

\* No worker ever runs more jobs than it has slots.
THEOREM WorkersHaveSlots == Spec => []SlotsKept
<1>1. Init => SlotsKept
  <2> SUFFICES ASSUME Init, NEW w \in Workers
               PROVE  IsFiniteSet(Running(w)) /\ Cardinality(Running(w)) <= Concurrency
    BY DEF SlotsKept
  <2>1. Running(w) = {}
    BY DEF Init, Running, IdleJob, InRedis, Steps
  <2>2. QED BY <2>1, FS_EmptySet, ConstantsAssumption
<1>2. TypeOK /\ SlotsKept /\ [Next]_vars => SlotsKept'
  <2> SUFFICES ASSUME TypeOK, SlotsKept, [Next]_vars, NEW w \in Workers
               PROVE  IsFiniteSet(Running(w)') /\ Cardinality(Running(w)') <= Concurrency
    BY DEF SlotsKept
  <2>1. /\ IsFiniteSet(Running(w)) /\ Cardinality(Running(w)) <= Concurrency
        /\ Cardinality(Running(w)) \in Nat
    BY FS_CardinalityType DEF SlotsKept
  <2>2. CASE Running(w)' \subseteq Running(w)
    <3>1. IsFiniteSet(Running(w)') /\ Cardinality(Running(w)') <= Cardinality(Running(w))
      BY <2>1, <2>2, FS_Subset
    <3>2. Cardinality(Running(w)') \in Nat
      BY <3>1, FS_CardinalityType
    <3>3. QED BY <2>1, <3>1, <3>2, ConstantsAssumption
  <2>3. ASSUME NEW j \in Jobs, Running(w)' \subseteq Running(w) \cup {j},
               Cardinality(Running(w)) < Concurrency
        PROVE  IsFiniteSet(Running(w)') /\ Cardinality(Running(w)') <= Concurrency
    <3> DEFINE more == Running(w) \cup {j}
    <3>1. IsFiniteSet(more) /\ Cardinality(more) <= Cardinality(Running(w)) + 1
      BY <2>1, FS_AddElement
    <3>2. IsFiniteSet(Running(w)') /\ Cardinality(Running(w)') <= Cardinality(more)
      BY <2>3, <3>1, FS_Subset
    <3>3. Cardinality(more) \in Nat /\ Cardinality(Running(w)') \in Nat
      BY <3>1, <3>2, FS_CardinalityType
    <3>4. QED BY <2>1, <2>3, <3>1, <3>2, <3>3, ConstantsAssumption
  <2>4. CASE UNCHANGED vars
    BY <2>1, <2>4 DEF vars, Running
  <2>5. QED BY <2>2, <2>3, <2>4, SlotsStep
<1>3. QED BY <1>1, <1>2, TypeCorrect, PTL DEF Spec

\* However many jobs were tried again, cancelled or timed out: a clone without a
\* job in run() is one of the clones of a worker that was killed.
THEOREM ClonesRemoved == Spec => []OnlyKillsLeaveClones
<1> DEFINE Bounded == IsFiniteSet(LeftClones) /\ Cardinality(LeftClones) <= kills * Concurrency
<1>1. Init => Bounded
  <2> SUFFICES ASSUME Init PROVE Bounded
    OBVIOUS
  <2>1. LeftClones = {} /\ kills = 0
    BY DEF Init, LeftClones
  <2>2. QED BY <2>1, FS_EmptySet, ConstantsAssumption
<1>2. TypeOK /\ SlotsKept /\ Bounded /\ [Next]_vars => Bounded'
  <2> SUFFICES ASSUME TypeOK, SlotsKept, Bounded, [Next]_vars PROVE Bounded'
    OBVIOUS
  <2>1. /\ Cardinality(LeftClones) \in Nat /\ kills \in Nat /\ Concurrency \in Nat
        /\ kills * Concurrency \in Nat
    BY FS_CardinalityType, ConstantsAssumption DEF TypeOK
  <2>2. CASE LeftClones' \subseteq LeftClones /\ kills' = kills
    <3>1. IsFiniteSet(LeftClones') /\ Cardinality(LeftClones') <= Cardinality(LeftClones)
      BY <2>2, FS_Subset
    <3>2. Cardinality(LeftClones') \in Nat
      BY <3>1, FS_CardinalityType
    <3>3. QED BY <2>1, <2>2, <3>1, <3>2
  <2>3. ASSUME NEW w \in Workers, kills' = kills + 1,
               LeftClones' \subseteq LeftClones \cup {<<j, jobs[j].try>> : j \in Running(w)}
        PROVE  Bounded'
    <3> DEFINE lost == {<<j, jobs[j].try>> : j \in Running(w)}
               clone == [j \in Running(w) |-> <<j, jobs[j].try>>]
    <3>1. /\ IsFiniteSet(Running(w)) /\ Cardinality(Running(w)) <= Concurrency
          /\ Cardinality(Running(w)) \in Nat
      BY FS_CardinalityType DEF SlotsKept
    <3>2. clone \in Surjection(Running(w), lost)
      BY DEF Surjection
    <3>3. IsFiniteSet(lost) /\ Cardinality(lost) <= Cardinality(Running(w))
      BY <3>1, <3>2, FS_Surjection
    <3> HIDE DEF lost, clone
    <3>4. /\ IsFiniteSet(LeftClones \cup lost)
          /\ Cardinality(LeftClones \cup lost)
               = Cardinality(LeftClones) + Cardinality(lost) - Cardinality(LeftClones \cap lost)
      BY <3>3, FS_Union
    <3>5. IsFiniteSet(LeftClones \cap lost) /\ Cardinality(LeftClones \cap lost) \in Nat
      BY <3>3, FS_Intersection, FS_CardinalityType
    <3>6. IsFiniteSet(LeftClones') /\ Cardinality(LeftClones') <= Cardinality(LeftClones \cup lost)
      BY <2>3, <3>4, FS_Subset DEF lost
    <3>7. Cardinality(lost) \in Nat /\ Cardinality(LeftClones') \in Nat
      BY <3>3, <3>6, FS_CardinalityType
    <3>8. kills' * Concurrency = kills * Concurrency + Concurrency
      BY <2>1, <2>3
    <3>9. Cardinality(LeftClones') <= kills * Concurrency + Concurrency
      BY <2>1, <3>1, <3>3, <3>4, <3>5, <3>6, <3>7
    <3>10. QED BY <3>6, <3>8, <3>9
  <2>4. CASE UNCHANGED vars
    <3>1. LeftClones' = LeftClones /\ kills' = kills
      BY <2>4 DEF vars, LeftClones
    <3>2. QED BY <3>1
  <2>5. QED BY <2>2, <2>3, <2>4, ClonesStep
<1>3. Bounded => OnlyKillsLeaveClones
  BY DEF OnlyKillsLeaveClones
<1>4. QED BY <1>1, <1>2, <1>3, TypeCorrect, WorkersHaveSlots, PTL DEF Spec

-----------------------------------------------------------------------------
(* What a trigger can cost.                                                *)

\* Attempts come from Prepare only, one at a time.
LEMMA UsedStep ==
    ASSUME IInv, Next
    PROVE  \/ UsedAttempts' \subseteq UsedAttempts
           \/ \E j \in Jobs, a \in Attempts :
                 Prepare(j) /\ UsedAttempts' \subseteq UsedAttempts \cup {a}
<1> USE DEF database, UsedAttempts
<1>1. attempts \in [Attempts -> AttemptRow]
  BY DEF IInv, TypeOK
<1>2. ASSUME NEW j \in Jobs, JobStep(j), ~Prepare(j) PROVE UsedAttempts' \subseteq UsedAttempts
  <2>1. jobs[j].pc \in Holding => attempts[jobs[j].attempt].status # "free"
    BY DEF IInv, JobKnowledge
  <2>2. CASE MarkRunning(j)
    BY <1>1, <2>1, <2>2 DEF MarkRunning, Holding
  <2>3. CASE RecordSuccess(j)
    BY <1>1, <2>1, <2>3 DEF RecordSuccess, Holding
  <2>4. CASE RecordFailure(j)
    BY <1>1, <2>1, <2>4 DEF RecordFailure, Holding
  <2>5. CASE LoadError(j) \/ SkipOrAbort(j) \/ FixInClone(j) \/ StepFails(j)
    BY <2>5 DEF LoadError, SkipOrAbort, FixInClone, StepFails
  <2>6. CASE Push(j) \/ CreatePr(j) \/ Finish(j)
    BY <2>6 DEF Push, CreatePr, Finish
  <2>7. QED BY <1>2, <2>2, <2>3, <2>4, <2>5, <2>6 DEF JobStep
<1>3. ASSUME NEW j \in Jobs, Prepare(j)
      PROVE  \E a \in Attempts : UsedAttempts' \subseteq UsedAttempts \cup {a}
  BY <1>1, <1>3 DEF Prepare
<1>4. ASSUME NEW q \in Projects, DeleteProject(q) PROVE UsedAttempts' \subseteq UsedAttempts
  <2>1. \A a \in Attempts : attempts[a].error \in Errors => attempts[a].status # "free"
    BY ConstantsAssumption DEF IInv, AttemptsKnown
  <2>2. \A a \in Attempts : attempts'[a].status # "free" =>
           attempts[a].status # "free" \/ attempts[a].error \in Errors
    BY <1>1, <1>4 DEF DeleteProject
  <2>3. QED BY <2>1, <2>2
<1>5. ASSUME NEW p \in Prs, MarkMerged(p) PROVE UsedAttempts' \subseteq UsedAttempts
  <2>1. found[p] \in Attempts /\ attempts[found[p]].status # "free"
    BY <1>5 DEF IInv, FoundKnown, MarkMerged
  <2>2. QED BY <1>1, <1>5, <2>1 DEF MarkMerged
<1>6. CASE \/ \E j \in Jobs, e \in Errors : TriggerFix(j, e)
           \/ \E q \in Projects : ChangeReadiness(q)
           \/ \E q \in Projects, r \in Repos : EditProject(q, r)
           \/ \E p \in Prs : MergePr(p) \/ ClosePr(p) \/ FindAttempt(p) \/ LoseWebhook(p)
           \/ \E r \in remote : DeleteBranch(r)
  BY <1>6 DEF TriggerFix, ChangeReadiness, EditProject, MergePr, ClosePr, FindAttempt,
     LoseWebhook, DeleteBranch
<1>7. CASE \/ \E j \in Jobs, w \in Workers : Deliver(j, w)
           \/ \E j \in Jobs : Timeout(j)
           \/ \E w \in Workers : Shutdown(w) \/ Kill(w)
  BY <1>7 DEF Deliver, Timeout, Shutdown, Kill
<1>8. QED BY <1>2, <1>3, <1>4, <1>5, <1>6, <1>7 DEF Next

\* The tries of one job that are over or past the insert; TriesSpent is made of
\* them.
Spent(job, n) ==
    \/ job.pc = "done"
    \/ job.pc # "idle" /\ n < job.try
    \/ job.pc \in Holding \cup {"finish"} /\ n = job.try

\* Past the insert, a job stays past it until its try is over.
LEMMA NoSecondInsert ==
    ASSUME TypeOK, NEW j \in Jobs, JobStep(j), ~Finish(j),
           jobs[j].pc \in Holding \cup {"finish"}
    PROVE  jobs'[j].pc \in Holding \cup {"finish"}
<1>1. jobs \in [Jobs -> Job] /\ jobs[j].pc \notin {"load", "prepare"}
  BY DEF TypeOK, Holding
<1>2. CASE MarkRunning(j) \/ FixInClone(j) \/ StepFails(j)
  <2>1. \E s \in Holding : jobs' = [jobs EXCEPT ![j].pc = s]
    BY <1>2 DEF MarkRunning, FixInClone, StepFails, Goto, Holding
  <2>2. QED BY <1>1, <2>1 DEF Job
<1>3. CASE Push(j) \/ CreatePr(j)
  BY <1>1, <1>3 DEF Push, CreatePr, Goto, Holding, Job
<1>4. CASE RecordSuccess(j) \/ RecordFailure(j)
  <2>1. \E s \in Holding \cup {"finish"} : jobs' = [jobs EXCEPT ![j].pc = s]
    BY <1>4 DEF RecordSuccess, RecordFailure, Goto, Holding
  <2>2. QED BY <1>1, <2>1 DEF Job
<1>5. QED BY <1>1, <1>2, <1>3, <1>4 DEF JobStep, LoadError, SkipOrAbort, Prepare

\* A try that is spent stays so: a job that is tried again counts it.
LEMMA SpentStays ==
    ASSUME IInv, Next, NEW k \in Jobs, NEW n \in 1..MaxTries, Spent(jobs[k], n)
    PROVE  Spent(jobs'[k], n)
<1>1. /\ TypeOK /\ jobs \in [Jobs -> Job]
      /\ jobs[k].try \in 0..MaxTries /\ MaxTries \in Nat
  BY ConstantsAssumption DEF IInv, TypeOK, Job
<1>2. ASSUME NEW j \in Jobs, JobStep(j), ~Finish(j) PROVE Spent(jobs'[k], n)
  <2>1. CASE j # k
    BY <1>1, <1>2, <2>1, JobStepGoesOn
  <2>2. CASE j = k
    <3>1. /\ jobs[k].pc \in Steps /\ jobs'[k].pc \in Steps
          /\ jobs'[k].try = jobs[k].try
      BY <1>1, <1>2, <2>2, JobStepGoesOn
    <3>2. jobs[k].pc \in Holding \cup {"finish"} => jobs'[k].pc \in Holding \cup {"finish"}
      BY <1>1, <1>2, <2>2, NoSecondInsert
    <3>3. QED BY <3>1, <3>2 DEF Spent, Steps
  <2>3. QED BY <2>1, <2>2
<1>3. ASSUME NEW j \in Jobs, Finish(j) \/ Timeout(j) PROVE Spent(jobs'[k], n)
  <2>1. jobs' = [jobs EXCEPT ![j] = EndedJob]
    BY <1>3 DEF Finish, Timeout
  <2>2. jobs'[k] = jobs[k] \/ jobs'[k].pc = "done"
    BY <1>1, <2>1 DEF EndedJob, InRedis
  <2>3. QED BY <2>2 DEF Spent
<1>4. ASSUME NEW w \in Workers, Shutdown(w) \/ Kill(w) PROVE Spent(jobs'[k], n)
  <2>1. \/ jobs'[k] = jobs[k]
        \/ jobs'[k].pc = "done"
        \/ jobs[k].pc \in Steps /\ jobs'[k].pc = "queued" /\ jobs'[k].try = jobs[k].try + 1
    BY <1>4 DEF Shutdown, Kill, Requeued, QueuedJob, EndedJob, InRedis, Running
  <2>2. jobs[k].pc \in Steps => n <= jobs[k].try
    BY <1>1 DEF Spent, Steps
  <2>3. QED BY <1>1, <2>1, <2>2 DEF Spent
<1>5. ASSUME NEW j \in Jobs, NEW e \in Errors, TriggerFix(j, e) PROVE Spent(jobs'[k], n)
  <2>1. j # k
    BY <1>5 DEF TriggerFix, Spent, Holding
  <2>2. QED BY <1>1, <1>5, <2>1 DEF TriggerFix
<1>6. ASSUME NEW j \in Jobs, NEW w \in Workers, Deliver(j, w) PROVE Spent(jobs'[k], n)
  <2>1. CASE j # k
    BY <1>1, <1>6, <2>1 DEF Deliver
  <2>2. CASE j = k
    <3>1. jobs[k].pc = "queued" /\ jobs'[k].pc = "load" /\ jobs'[k].try = jobs[k].try
      BY <1>1, <1>6, <2>2 DEF Deliver, Job
    <3>2. QED BY <3>1 DEF Spent, Holding
  <2>3. QED BY <2>1, <2>2
<1>7. CASE \/ \E q \in Projects : DeleteProject(q) \/ ChangeReadiness(q)
           \/ \E q \in Projects, r \in Repos : EditProject(q, r)
           \/ \E p \in Prs : MergePr(p) \/ ClosePr(p)
           \/ \E p \in Prs : FindAttempt(p) \/ MarkMerged(p) \/ LoseWebhook(p)
           \/ \E r \in remote : DeleteBranch(r)
  BY <1>7 DEF DeleteProject, ChangeReadiness, EditProject, MergePr, ClosePr, FindAttempt,
     MarkMerged, LoseWebhook, DeleteBranch
<1>8. QED BY <1>2, <1>3, <1>4, <1>5, <1>6, <1>7 DEF Next

\* The insert of an attempt spends the try it belongs to.
LEMMA PrepareSpends ==
    ASSUME IInv, NEW j \in Jobs, Prepare(j)
    PROVE  <<j, jobs[j].try>> \in TriesSpent' \ TriesSpent
<1>1. /\ jobs[j].pc = "prepare" /\ jobs \in [Jobs -> Job]
      /\ jobs[j].try \in 0..MaxTries /\ jobs[j].try # 0
  BY DEF Prepare, IInv, TypeOK, Job, JobKnowledge, Steps
<1>2. <<j, jobs[j].try>> \in Jobs \X (1..MaxTries)
  BY <1>1, ConstantsAssumption
<1>3. jobs'[j].pc \in Holding \cup {"finish"} /\ jobs'[j].try = jobs[j].try
  BY <1>1 DEF Prepare, Goto, Holding, Job
<1>4. QED BY <1>1, <1>2, <1>3 DEF TriesSpent, Holding

\* With finitely many jobs, each of them has at most MaxTries tries.
LEMMA TriesFinite ==
    ASSUME IsFiniteSet(Jobs)
    PROVE  /\ IsFiniteSet(TriesSpent) /\ Cardinality(TriesSpent) \in Nat
           /\ Cardinality(TriesSpent) <= Cardinality(Triggered) * MaxTries
<1>1. /\ IsFiniteSet(Triggered) /\ IsFiniteSet(1..MaxTries) /\ Cardinality(1..MaxTries) = MaxTries
  BY FS_Subset, FS_Interval, ConstantsAssumption DEF Triggered
<1>2. /\ IsFiniteSet(Triggered \X (1..MaxTries))
      /\ Cardinality(Triggered \X (1..MaxTries)) = Cardinality(Triggered) * MaxTries
  BY <1>1, FS_Product
<1>3. TriesSpent \subseteq Triggered \X (1..MaxTries)
  BY DEF TriesSpent, Triggered, Holding
<1>4. QED BY <1>2, <1>3, FS_Subset, FS_CardinalityType

\* One element more, if it is one more.
LEMMA OneMore ==
    ASSUME NEW S, NEW x, IsFiniteSet(S)
    PROVE  IsFiniteSet(S \cup {x}) /\ Cardinality(S \cup {x}) <= Cardinality(S) + 1
<1>1. Cardinality(S) \in Nat
  BY FS_CardinalityType
<1>2. QED BY <1>1, FS_AddElement

\* With finitely many jobs there are never more attempts than tries were bought:
\* MaxTries for each job that was triggered.
THEOREM AttemptsBounded ==
    ASSUME IsFiniteSet(Jobs)
    PROVE  Spec => []AttemptsAreTries
<1>1. Init => AttemptsPaid
  <2> SUFFICES ASSUME Init PROVE AttemptsPaid
    OBVIOUS
  <2>1. UsedAttempts = {}
    BY DEF Init, UsedAttempts, Attempt
  <2>2. QED BY <2>1, FS_EmptySet, TriesFinite DEF AttemptsPaid
<1>2. IInv /\ AttemptsPaid /\ [Next]_vars => AttemptsPaid'
  <2> SUFFICES ASSUME IInv, AttemptsPaid, [Next]_vars PROVE AttemptsPaid'
    OBVIOUS
  <2>1. /\ IsFiniteSet(TriesSpent) /\ Cardinality(TriesSpent) \in Nat
        /\ IsFiniteSet(TriesSpent') /\ Cardinality(TriesSpent') \in Nat
        /\ IsFiniteSet(UsedAttempts) /\ Cardinality(UsedAttempts) \in Nat
        /\ Cardinality(UsedAttempts) <= Cardinality(TriesSpent)
    <3>1. IsFiniteSet(TriesSpent') /\ Cardinality(TriesSpent') \in Nat
      <4>1. IsFiniteSet(Jobs \X (1..MaxTries))
        <5>1. IsFiniteSet(1..MaxTries)
          BY FS_Interval, ConstantsAssumption
        <5>2. QED BY <5>1, FS_Product
      <4>2. TriesSpent' \subseteq Jobs \X (1..MaxTries)
        BY DEF TriesSpent
      <4>3. QED BY <4>1, <4>2, FS_Subset, FS_CardinalityType
    <3>2. QED BY <3>1, TriesFinite, FS_CardinalityType DEF AttemptsPaid
  <2>2. CASE Next
    <3>1. TriesSpent \subseteq TriesSpent'
      BY <2>2, SpentStays DEF TriesSpent, Spent
    <3>2. CASE UsedAttempts' \subseteq UsedAttempts
      <4>1. /\ IsFiniteSet(UsedAttempts') /\ Cardinality(UsedAttempts') <= Cardinality(UsedAttempts)
            /\ Cardinality(TriesSpent) <= Cardinality(TriesSpent')
        BY <2>1, <3>1, <3>2, FS_Subset
      <4>2. Cardinality(UsedAttempts') \in Nat
        BY <4>1, FS_CardinalityType
      <4>3. QED BY <2>1, <4>1, <4>2 DEF AttemptsPaid
    <3>3. ASSUME NEW j \in Jobs, NEW a \in Attempts, Prepare(j),
                 UsedAttempts' \subseteq UsedAttempts \cup {a}
          PROVE  AttemptsPaid'
      <4> DEFINE t == <<j, jobs[j].try>>
      <4>1. t \notin TriesSpent /\ TriesSpent \cup {t} \subseteq TriesSpent'
        BY <3>1, <3>3, PrepareSpends
      <4> HIDE DEF t
      <4>2. Cardinality(TriesSpent) + 1 <= Cardinality(TriesSpent')
        <5>1. Cardinality(TriesSpent \cup {t}) = Cardinality(TriesSpent) + 1
          BY <2>1, <4>1, FS_AddElement
        <5>2. QED BY <2>1, <4>1, <5>1, FS_Subset
      <4>3. /\ IsFiniteSet(UsedAttempts \cup {a})
            /\ Cardinality(UsedAttempts \cup {a}) <= Cardinality(UsedAttempts) + 1
        BY <2>1, OneMore
      <4>4. /\ IsFiniteSet(UsedAttempts')
            /\ Cardinality(UsedAttempts') <= Cardinality(UsedAttempts \cup {a})
        BY <3>3, <4>3, FS_Subset
      <4>5. Cardinality(UsedAttempts') \in Nat /\ Cardinality(UsedAttempts \cup {a}) \in Nat
        BY <4>3, <4>4, FS_CardinalityType
      <4>6. QED BY <2>1, <4>2, <4>3, <4>4, <4>5 DEF AttemptsPaid
    <3>4. QED BY <2>2, <3>2, <3>3, UsedStep
  <2>3. CASE UNCHANGED vars
    <3>1. UsedAttempts' = UsedAttempts /\ TriesSpent' = TriesSpent
      BY <2>3 DEF vars, UsedAttempts, TriesSpent
    <3>2. QED BY <3>1 DEF AttemptsPaid
  <2>4. QED BY <2>2, <2>3
<1>3. AttemptsPaid => AttemptsAreTries
  <2> SUFFICES ASSUME AttemptsPaid PROVE AttemptsAreTries
    OBVIOUS
  <2>1. /\ Cardinality(UsedAttempts) \in Nat /\ Cardinality(Triggered) * MaxTries \in Nat
    <3>1. IsFiniteSet(Triggered)
      BY FS_Subset DEF Triggered
    <3>2. QED BY <3>1, FS_CardinalityType, ConstantsAssumption DEF AttemptsPaid
  <2>2. QED BY <2>1, TriesFinite DEF AttemptsPaid, AttemptsAreTries
<1>4. QED BY <1>1, <1>2, <1>3, Inductive, PTL DEF Spec

-----------------------------------------------------------------------------
(* Jobs wind down.                                                         *)

\* Each step of run() leaves fewer steps of the same try, the longest way being
\* the one through every step.
LEMMA JobStepForward ==
    ASSUME TypeOK, NEW j \in Jobs, JobStep(j), ~Finish(j)
    PROVE  /\ jobs[j].pc \in Steps /\ jobs'[j].pc \in Steps
           /\ jobs'[j].try = jobs[j].try
           /\ StepsLeft(jobs'[j].pc) < StepsLeft(jobs[j].pc)
           /\ \A k \in Jobs : k # j => jobs'[k] = jobs[k]
<1>1. /\ jobs[j].pc \in Steps /\ jobs'[j].pc \in Steps
      /\ jobs'[j].try = jobs[j].try
      /\ \A k \in Jobs : k # j => jobs'[k] = jobs[k]
  BY JobStepGoesOn
<1>2. jobs \in [Jobs -> Job]
  BY DEF TypeOK
<1>3. CASE LoadError(j) \/ SkipOrAbort(j) \/ Prepare(j)
  <2>1. \/ jobs[j].pc = "load" /\ jobs'[j].pc \in {"prepare", "finish"}
        \/ jobs[j].pc = "prepare" /\ jobs'[j].pc \in {"mark", "finish"}
    <3>1. CASE LoadError(j) \/ SkipOrAbort(j)
      BY <1>2, <3>1 DEF LoadError, SkipOrAbort, Goto, Job
    <3>2. CASE Prepare(j)
      BY <1>2, <3>2 DEF Prepare, Goto, Job
    <3>3. QED BY <1>3, <3>1, <3>2
  <2>2. QED BY <1>1, <2>1 DEF StepsLeft
<1>4. CASE MarkRunning(j) \/ FixInClone(j) \/ StepFails(j)
  <2>1. \/ jobs[j].pc = "mark" /\ jobs'[j].pc = "fix"
        \/ jobs[j].pc = "fix" /\ jobs'[j].pc = "push"
        \/ jobs[j].pc \in {"mark", "fix", "push", "open_pr", "record"} /\ jobs'[j].pc = "failing"
    BY <1>2, <1>4 DEF MarkRunning, FixInClone, StepFails, Goto, Job
  <2>2. QED BY <1>1, <2>1 DEF StepsLeft
<1>5. CASE Push(j) \/ CreatePr(j)
  <2>1. \/ jobs[j].pc = "push" /\ jobs'[j].pc \in {"open_pr", "failing"}
        \/ jobs[j].pc = "open_pr" /\ jobs'[j].pc \in {"record", "failing"}
    BY <1>2, <1>5 DEF Push, CreatePr, Goto, Job
  <2>2. QED BY <1>1, <2>1 DEF StepsLeft
<1>6. CASE RecordSuccess(j) \/ RecordFailure(j)
  <2>1. \/ jobs[j].pc = "record" /\ jobs'[j].pc \in {"finish", "failing"}
        \/ jobs[j].pc = "failing" /\ jobs'[j].pc = "finish"
    BY <1>2, <1>6 DEF RecordSuccess, RecordFailure, Goto, Job
  <2>2. QED BY <1>1, <2>1 DEF StepsLeft
<1>7. QED BY <1>1, <1>3, <1>4, <1>5, <1>6 DEF JobStep

\* A step of run() has at least one step left; a job in the queue has all ten.
LEMMA StepsLeftBounds ==
    /\ \A pc \in Steps : StepsLeft(pc) \in 1..9
    /\ StepsLeft("queued") = 10
BY DEF StepsLeft, Steps

\* No step of the system raises the rank of a job that was triggered, and none
\* but a step that leaves the job alone keeps it.
LEMMA RankFalls ==
    ASSUME TypeOK, Next, NEW k \in Jobs, jobs[k].pc # "idle", jobs'[k] # jobs[k]
    PROVE  Rank(jobs'[k]) < Rank(jobs[k])
<1>1. /\ jobs \in [Jobs -> Job] /\ MaxTries \in Nat /\ jobs[k].try \in 0..MaxTries
  BY ConstantsAssumption DEF TypeOK, Job
<1>2. ASSUME NEW j \in Jobs, JobStep(j), ~Finish(j) PROVE Rank(jobs'[k]) < Rank(jobs[k])
  <2>1. j = k
    BY <1>2, JobStepForward
  <2>2. /\ jobs[k].pc \in Steps /\ jobs'[k].pc \in Steps
        /\ jobs'[k].try = jobs[k].try
        /\ StepsLeft(jobs'[k].pc) < StepsLeft(jobs[k].pc)
    BY <1>2, <2>1, JobStepForward
  <2>3. StepsLeft(jobs[k].pc) \in 1..9 /\ StepsLeft(jobs'[k].pc) \in 1..9
    BY <2>2, StepsLeftBounds
  <2>4. /\ Rank(jobs[k]) = (MaxTries - jobs[k].try) * 10 + StepsLeft(jobs[k].pc)
        /\ Rank(jobs'[k]) = (MaxTries - jobs[k].try) * 10 + StepsLeft(jobs'[k].pc)
    BY <2>2 DEF Rank, Steps
  <2>5. QED BY <1>1, <2>2, <2>3, <2>4
<1>3. ASSUME jobs[k].pc \in Steps, jobs'[k].pc = "done" PROVE Rank(jobs'[k]) < Rank(jobs[k])
  <2>1. StepsLeft(jobs[k].pc) \in 1..9
    BY <1>3, StepsLeftBounds
  <2>2. Rank(jobs[k]) = (MaxTries - jobs[k].try) * 10 + StepsLeft(jobs[k].pc)
    BY <1>3 DEF Rank, Steps
  <2>3. Rank(jobs'[k]) = 0
    BY <1>3 DEF Rank
  <2>4. QED BY <1>1, <2>1, <2>2, <2>3
<1>4. ASSUME jobs[k].pc \in Steps, jobs'[k].pc = "queued", jobs'[k].try = jobs[k].try + 1
      PROVE  Rank(jobs'[k]) < Rank(jobs[k])
  <2>1. StepsLeft(jobs[k].pc) \in 1..9 /\ StepsLeft("queued") = 10
    BY <1>4, StepsLeftBounds
  <2>2. Rank(jobs[k]) = (MaxTries - jobs[k].try) * 10 + StepsLeft(jobs[k].pc)
    BY <1>4 DEF Rank, Steps
  <2>3. Rank(jobs'[k]) = (MaxTries - (jobs[k].try + 1)) * 10 + 10
    BY <1>4, <2>1 DEF Rank
  <2>4. (MaxTries - (jobs[k].try + 1)) * 10 + 10 = (MaxTries - jobs[k].try) * 10
    BY <1>1
  <2>5. (MaxTries - jobs[k].try) * 10 \in Int
    BY <1>1
  <2>6. QED BY <2>1, <2>2, <2>3, <2>4, <2>5
<1>5. ASSUME NEW j \in Jobs, Finish(j) \/ Timeout(j) PROVE Rank(jobs'[k]) < Rank(jobs[k])
  <2>1. jobs[j].pc \in Steps /\ jobs' = [jobs EXCEPT ![j] = EndedJob]
    BY <1>5 DEF Finish, Timeout, Steps
  <2>2. jobs[k].pc \in Steps /\ jobs'[k].pc = "done"
    BY <1>1, <2>1 DEF EndedJob, InRedis
  <2>3. QED BY <1>3, <2>2
<1>6. ASSUME NEW w \in Workers, Shutdown(w) \/ Kill(w) PROVE Rank(jobs'[k]) < Rank(jobs[k])
  <2>1. \/ jobs[k].pc \in Steps /\ jobs'[k].pc = "done"
        \/ jobs[k].pc \in Steps /\ jobs'[k].pc = "queued" /\ jobs'[k].try = jobs[k].try + 1
    BY <1>6 DEF Shutdown, Kill, Requeued, QueuedJob, EndedJob, InRedis, Running
  <2>2. QED BY <1>3, <1>4, <2>1
<1>7. ASSUME NEW j \in Jobs, NEW e \in Errors, TriggerFix(j, e) PROVE FALSE
  BY <1>1, <1>7 DEF TriggerFix
<1>8. ASSUME NEW j \in Jobs, NEW w \in Workers, Deliver(j, w)
      PROVE  Rank(jobs'[k]) < Rank(jobs[k])
  <2>1. j = k
    BY <1>1, <1>8 DEF Deliver
  <2>2. jobs[k].pc = "queued" /\ jobs'[k].pc = "load" /\ jobs'[k].try = jobs[k].try
    BY <1>1, <1>8, <2>1 DEF Deliver, Job
  <2>3. /\ Rank(jobs[k]) = (MaxTries - jobs[k].try) * 10 + 10
        /\ Rank(jobs'[k]) = (MaxTries - jobs[k].try) * 10 + 9
    BY <2>2 DEF Rank, StepsLeft
  <2>4. QED BY <1>1, <2>3
<1>9. CASE \/ \E q \in Projects : DeleteProject(q) \/ ChangeReadiness(q)
           \/ \E q \in Projects, r \in Repos : EditProject(q, r)
           \/ \E p \in Prs : MergePr(p) \/ ClosePr(p)
           \/ \E p \in Prs : FindAttempt(p) \/ MarkMerged(p) \/ LoseWebhook(p)
           \/ \E r \in remote : DeleteBranch(r)
  BY <1>9 DEF DeleteProject, ChangeReadiness, EditProject, MergePr, ClosePr, FindAttempt,
     MarkMerged, LoseWebhook, DeleteBranch
<1>10. QED BY <1>2, <1>5, <1>6, <1>7, <1>8, <1>9 DEF Next

\* Every step that concerns a triggered job brings it closer to its end, which
\* is the part of QueuedJobEnds that needs no fairness.
THEOREM WindDown == Spec => JobsWindDown
<1>1. TypeOK /\ [Next]_vars => [\A j \in Jobs : ComesCloser(j)]_vars
  BY RankFalls DEF ComesCloser
<1>2. QED BY <1>1, TypeCorrect, PTL DEF Spec, JobsWindDown
=============================================================================
