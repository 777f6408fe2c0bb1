------------------------- MODULE FixRefinementProofs -------------------------
(***************************************************************************)
(* What holds of FixPipeline until a write is wrongly reported failed: an  *)
(* outcome, once written, is final.  Hence pr_url follows the status, and  *)
(* FixPipeline implements FixLifecycle if no such report ever comes: each  *)
(* of its steps is a step of the lifecycle or leaves all attempts and      *)
(* errors alone.                                                           *)
(***************************************************************************)
EXTENDS FixPipelineProofs

\* The except block is only reached with an attempt that is not settled yet.
FailingIsUnsettled ==
    \A j \in Jobs : jobs[j].pc = "failing" =>
        attempts[jobs[j].attempt].status \in {"pending", "running", "gone"}

\* Between the two statements of handle_pr_event the attempt keeps its outcome.
FoundIsSettled ==
    \A p \in Prs : hooks[p] = "found" =>
        /\ attempts[found[p]].status \in {"success", "merged", "gone"}
        /\ attempts[found[p]].url = p

MergedHasUrl == \A a \in Attempts : attempts[a].status = "merged" => attempts[a].url # None

OutcomesFinal == FailingIsUnsettled /\ FoundIsSettled /\ MergedHasUrl

ReportedTruly == IInv /\ unreported = 0 /\ OutcomesFinal

\* The steps that leave attempts and errors alone.
Stutter == UNCHANGED <<errors, attempts>>

\* A step after which still no write was reported failed reports none.
LEMMA NeverUnreported ==
    ASSUME ReportedTruly, unreported' = 0
    PROVE  ~Unreported
  BY DEF ReportedTruly, Unreported

-----------------------------------------------------------------------------
(* The except block is reached with an unsettled attempt.                  *)

\* No job runs yet, and nothing is merged.
LEMMA InitFinal == ASSUME Init PROVE OutcomesFinal
  BY DEF Init, OutcomesFinal, FailingIsUnsettled, FoundIsSettled, MergedHasUrl, IdleJob,
     InRedis, Attempt

\* A job enters the except block from a step at which its attempt is not settled,
\* and no other job writes that attempt.
LEMMA JobStepUnsettled ==
    ASSUME ReportedTruly, unreported' = 0, NEW j \in Jobs, JobStep(j)
    PROVE  FailingIsUnsettled'
<1>1. SUFFICES ASSUME NEW k \in Jobs, jobs'[k].pc = "failing"
               PROVE  attempts'[jobs'[k].attempt].status \in {"pending", "running", "gone"}
  BY DEF FailingIsUnsettled
<1>2. jobs \in [Jobs -> Job] /\ attempts \in [Attempts -> AttemptRow]
  BY DEF ReportedTruly, IInv, TypeOK
<1>3. CASE LoadError(j) \/ SkipOrAbort(j) \/ FixInClone(j) \/ Finish(j)
  BY <1>1, <1>2, <1>3 DEF ReportedTruly, OutcomesFinal, FailingIsUnsettled, LoadError, SkipOrAbort,
     FixInClone, Finish, Goto, Job, database,
     EndedJob, InRedis
<1>4. CASE StepFails(j)
  <2>1. jobs[j].pc \in {"mark", "fix", "push", "open_pr", "record"}
    BY <1>4 DEF StepFails
  <2>2. attempts[jobs[j].attempt].status \in {"pending", "running", "gone"}
    BY <2>1 DEF ReportedTruly, IInv, JobKnowledge
  <2>3. jobs'[k].attempt = jobs[k].attempt /\ (k # j => jobs'[k].pc = jobs[k].pc)
    BY <1>2, <1>4 DEF StepFails, Goto
  <2>4. attempts' = attempts
    BY <1>4 DEF StepFails, database
  <2>5. QED BY <1>1, <2>2, <2>3, <2>4 DEF ReportedTruly, OutcomesFinal, FailingIsUnsettled
<1>5. CASE Prepare(j)
  <2>1. PICK a \in Attempts :
          /\ attempts[a].status = "free"
          /\ attempts' = [attempts EXCEPT ![a] = Attempt("pending", jobs[j].error, None)]
    BY <1>5 DEF Prepare
  <2>2. k # j /\ jobs'[k] = jobs[k]
    BY <1>1, <1>2, <1>5 DEF Prepare, Goto, Job
  <2>3. jobs[k].attempt \in Attempts /\ jobs[k].attempt # a
    BY <1>1, <2>1, <2>2 DEF ReportedTruly, IInv, JobKnowledge, Holding
  <2>4. QED BY <1>1, <1>2, <2>1, <2>2, <2>3 DEF ReportedTruly, OutcomesFinal, FailingIsUnsettled
<1>6. CASE MarkRunning(j) \/ RecordSuccess(j) \/ RecordFailure(j)
  <2>1. jobs[j].pc \in Holding
    BY <1>6 DEF MarkRunning, RecordSuccess, RecordFailure, Holding
  <2>2. jobs' = [jobs EXCEPT ![j].pc = "fix"] \/ jobs' = [jobs EXCEPT ![j].pc = "finish"]
    BY <1>6, NeverUnreported DEF MarkRunning, RecordSuccess, RecordFailure, Goto
  <2>3. k # j /\ jobs'[k] = jobs[k]
    BY <1>1, <1>2, <2>2 DEF Job
  <2>4. jobs[k].attempt \in Attempts /\ jobs[k].attempt # jobs[j].attempt
    <3>1. jobs[k].pc \in Holding
      BY <1>1, <2>3 DEF Holding
    <3>2. jobs[k].attempt \in Attempts
      BY <3>1 DEF ReportedTruly, IInv, JobKnowledge
    <3> QED
      BY <2>1, <2>3, <3>1, <3>2 DEF ReportedTruly, IInv, HeldByOneJob
  <2>5. attempts'[jobs[k].attempt] = attempts[jobs[k].attempt]
    BY <1>2, <1>6, <2>4 DEF MarkRunning, RecordSuccess, RecordFailure
  <2>6. QED BY <1>1, <2>3, <2>5 DEF ReportedTruly, OutcomesFinal, FailingIsUnsettled
<1>7. CASE Push(j) \/ CreatePr(j)
  <2>1. attempts' = attempts
    BY <1>7 DEF Push, CreatePr, database
  <2>2. CASE Push(j)
    <3>1. jobs' = [jobs EXCEPT ![j].pc = "open_pr"]
      BY <2>2, NeverUnreported DEF Push, Goto
    <3>2. QED BY <1>1, <1>2, <2>1, <3>1 DEF ReportedTruly, OutcomesFinal, FailingIsUnsettled
  <2>3. CASE CreatePr(j)
    <3>1. PICK p \in Prs : jobs' = [jobs EXCEPT ![j].pc = "record", ![j].pr = p]
      BY <2>3, NeverUnreported DEF CreatePr, Goto
    <3>2. QED BY <1>1, <1>2, <2>1, <3>1 DEF ReportedTruly, OutcomesFinal, FailingIsUnsettled
  <2>4. QED BY <1>7, <2>2, <2>3
<1>8. QED BY <1>3, <1>4, <1>5, <1>6, <1>7 DEF JobStep

\* A merge concerns an attempt that is settled already.
LEMMA MarkUnsettled ==
    ASSUME ReportedTruly, NEW p \in Prs, MarkMerged(p)
    PROVE  FailingIsUnsettled'
<1>1. jobs' = jobs
  BY DEF MarkMerged
<1>2. /\ attempts[found[p]].status \in {"success", "merged"}
      /\ attempts' = [attempts EXCEPT ![found[p]].status = "merged"]
  BY DEF MarkMerged, ReportedTruly, OutcomesFinal, FoundIsSettled
<1>3. \A k \in Jobs : jobs[k].pc = "failing" => jobs[k].attempt # found[p]
  BY <1>2 DEF ReportedTruly, OutcomesFinal, FailingIsUnsettled
<1>4. QED BY <1>1, <1>2, <1>3 DEF ReportedTruly, OutcomesFinal, FailingIsUnsettled

\* A deleted attempt counts as unsettled.
LEMMA DeleteUnsettled ==
    ASSUME ReportedTruly, NEW q \in Projects, DeleteProject(q)
    PROVE  FailingIsUnsettled'
<1>1. jobs' = jobs
  BY DEF DeleteProject
<1>2. \A a \in Attempts : attempts'[a].status \in {attempts[a].status, "gone"}
  BY DEF DeleteProject, ReportedTruly, IInv, TypeOK, AttemptRow
<1>3. \A k \in Jobs : jobs[k].pc = "failing" => jobs[k].attempt \in Attempts
  BY DEF ReportedTruly, IInv, JobKnowledge, Holding
<1>4. QED BY <1>1, <1>2, <1>3 DEF ReportedTruly, OutcomesFinal, FailingIsUnsettled

\* The steps that change no attempt and move no job to the except block.
LEMMA OthersUnsettled ==
    ASSUME ReportedTruly, attempts' = attempts,
           \A k \in Jobs : jobs'[k].pc = "failing" => jobs'[k] = jobs[k]
    PROVE  FailingIsUnsettled'
  BY DEF ReportedTruly, OutcomesFinal, FailingIsUnsettled

\* Triggers, deliveries, timeouts, shutdowns, kills, GitHub and settings.
OtherStep ==
    \/ \E j \in Jobs, e \in Errors : TriggerFix(j, e)
    \/ \E q \in Projects : ChangeReadiness(q)
    \/ \E q \in Projects, r \in Repos : EditProject(q, r)
    \/ \E p \in Prs : MergePr(p) \/ ClosePr(p) \/ FindAttempt(p) \/ LoseWebhook(p)
    \/ \E r \in remote : DeleteBranch(r)
    \/ \E j \in Jobs, w \in Workers : Deliver(j, w)
    \/ \E j \in Jobs : Timeout(j)
    \/ \E w \in Workers : Shutdown(w) \/ Kill(w)

\* They leave attempts and errors alone and start no except block.
LEMMA OtherStepStutters ==
    ASSUME ReportedTruly, OtherStep
    PROVE  /\ Stutter
           /\ \A k \in Jobs : jobs'[k].pc = "failing" => jobs'[k] = jobs[k]
<1>1. jobs \in [Jobs -> Job]
  BY DEF ReportedTruly, IInv, TypeOK
<1>2. CASE \E j \in Jobs, e \in Errors : TriggerFix(j, e)
  BY <1>1, <1>2 DEF TriggerFix, QueuedJob, InRedis, Stutter, database
<1>3. CASE \/ \E q \in Projects : ChangeReadiness(q)
           \/ \E q \in Projects, r \in Repos : EditProject(q, r)
  BY <1>3 DEF ChangeReadiness, EditProject, Stutter
<1>4. CASE \E p \in Prs : MergePr(p) \/ ClosePr(p) \/ FindAttempt(p) \/ LoseWebhook(p)
  BY <1>4 DEF MergePr, ClosePr, FindAttempt, LoseWebhook, Stutter, database
<1>5. CASE \E r \in remote : DeleteBranch(r)
  BY <1>5 DEF DeleteBranch, Stutter, database
<1>6. CASE \E j \in Jobs, w \in Workers : Deliver(j, w)
  BY <1>1, <1>6 DEF Deliver, Stutter, database
<1>7. CASE \E j \in Jobs : Timeout(j)
  BY <1>1, <1>7 DEF Timeout, EndedJob, InRedis, Stutter, database
<1>8. CASE \E w \in Workers : Shutdown(w) \/ Kill(w)
  <2>1. PICK w \in Workers : jobs' = Requeued(Running(w)) /\ Stutter
    BY <1>8 DEF Shutdown, Kill, Stutter, database
  <2>2. QED BY <2>1 DEF Requeued, QueuedJob, EndedJob, InRedis
<1>9. QED BY <1>2, <1>3, <1>4, <1>5, <1>6, <1>7, <1>8, Zenon DEF OtherStep

\* Every step keeps the except block to unsettled attempts.
LEMMA NextUnsettled ==
    ASSUME ReportedTruly, unreported' = 0, [Next]_vars
    PROVE  FailingIsUnsettled'
<1>1. CASE \E j \in Jobs : JobStep(j)
  BY <1>1, JobStepUnsettled
<1>2. CASE \E p \in Prs : MarkMerged(p)
  BY <1>2, MarkUnsettled
<1>3. CASE \E q \in Projects : DeleteProject(q)
  BY <1>3, DeleteUnsettled
<1>4. CASE OtherStep
  BY <1>4, OtherStepStutters, OthersUnsettled DEF Stutter
<1>5. CASE UNCHANGED vars
  BY <1>5, OthersUnsettled DEF vars
<1>6. QED BY <1>1, <1>2, <1>3, <1>4, <1>5, Zenon DEF Next, OtherStep

-----------------------------------------------------------------------------
(* Outcomes are final.                                                     *)

\* A job writes no attempt that is settled, and none as MERGED.
LEMMA JobWritesUnsettled ==
    ASSUME ReportedTruly, NEW j \in Jobs, JobStep(j), NEW a \in Attempts,
           attempts'[a] # attempts[a]
    PROVE  /\ attempts[a].status \in {"free", "pending", "running"}
           /\ attempts'[a].status \in {"pending", "running", "success", "failed"}
<1>1. attempts \in [Attempts -> AttemptRow]
  BY DEF ReportedTruly, IInv, TypeOK
<1>2. CASE Prepare(j)
  BY <1>1, <1>2 DEF Prepare, Attempt
<1>3. CASE MarkRunning(j)
  BY <1>1, <1>3 DEF MarkRunning, ReportedTruly, IInv, JobKnowledge, Holding, AttemptRow
<1>4. CASE RecordSuccess(j)
  BY <1>1, <1>4 DEF RecordSuccess, ReportedTruly, IInv, JobKnowledge, Holding, AttemptRow
<1>5. CASE RecordFailure(j)
  <2>1. /\ attempts[jobs[j].attempt].status # "gone"
        /\ attempts' = [attempts EXCEPT ![jobs[j].attempt].status = "failed",
                                       ![jobs[j].attempt].url = None]
    BY <1>5 DEF RecordFailure
  <2>2. a = jobs[j].attempt
    BY <1>1, <2>1
  <2>3. attempts[a].status \in {"pending", "running", "gone"}
    BY <1>5, <2>2 DEF RecordFailure, ReportedTruly, OutcomesFinal, FailingIsUnsettled
  <2>4. attempts'[a].status = "failed"
    BY <1>1, <2>1, <2>2 DEF AttemptRow
  <2>5. QED BY <2>1, <2>2, <2>3, <2>4
<1>6. CASE \/ LoadError(j) \/ SkipOrAbort(j) \/ FixInClone(j) \/ StepFails(j)
           \/ Push(j) \/ CreatePr(j) \/ Finish(j)
  BY <1>6 DEF LoadError, SkipOrAbort, FixInClone, StepFails, Push, CreatePr, Finish, database
<1>7. QED BY <1>2, <1>3, <1>4, <1>5, <1>6 DEF JobStep

\* Jobs touch neither webhooks nor what their handlers found.
LEMMA JobStepFinal ==
    ASSUME ReportedTruly, NEW j \in Jobs, JobStep(j)
    PROVE  FoundIsSettled' /\ MergedHasUrl'
<1>1. UNCHANGED <<hooks, found>>
  BY DEF JobStep, LoadError, SkipOrAbort, Prepare, MarkRunning, FixInClone, StepFails, Push,
     CreatePr, RecordSuccess, RecordFailure, Finish, github
<1>2. ASSUME NEW p \in Prs, hooks[p] = "found"
      PROVE  /\ attempts'[found[p]].status \in {"success", "merged", "gone"}
             /\ attempts'[found[p]].url = p
  <2>1. /\ found[p] \in Attempts
        /\ attempts[found[p]].status \in {"success", "merged", "gone"}
        /\ attempts[found[p]].url = p
    BY <1>2 DEF ReportedTruly, IInv, FoundKnown, OutcomesFinal, FoundIsSettled
  <2>2. attempts'[found[p]] = attempts[found[p]]
    BY <2>1, JobWritesUnsettled
  <2>3. QED BY <2>1, <2>2
<1>3. ASSUME NEW a \in Attempts, attempts'[a].status = "merged"
      PROVE  attempts'[a].url # None
  BY <1>3, JobWritesUnsettled DEF ReportedTruly, OutcomesFinal, MergedHasUrl
<1>4. QED BY <1>1, <1>2, <1>3 DEF FoundIsSettled, MergedHasUrl

\* The handler of a merge finds an attempt with this pr_url.
LEMMA FindAttemptFinal ==
    ASSUME ReportedTruly, NEW p \in Prs, FindAttempt(p)
    PROVE  FoundIsSettled' /\ MergedHasUrl'
<1>1. attempts' = attempts
  BY DEF FindAttempt, database
<1>2. /\ hooks \in [Prs -> HookState] /\ found \in [Prs -> Attempts \cup {None}]
      /\ attempts \in [Attempts -> AttemptRow]
  BY DEF ReportedTruly, IInv, TypeOK
<1>3. \A q \in Prs : q # p => hooks'[q] = hooks[q] /\ found'[q] = found[q]
  BY <1>2 DEF FindAttempt
<1>4. ASSUME hooks'[p] = "found"
      PROVE  /\ attempts[found'[p]].status \in {"success", "merged"}
             /\ attempts[found'[p]].url = p
  <2>1. PICK a \in Attempts : /\ a \in {b \in Attempts : attempts[b].url = p /\ attempts[b].status # "gone"}
                              /\ found' = [found EXCEPT ![p] = a]
    BY <1>2, <1>4 DEF FindAttempt
  <2>2. attempts[a].url = p /\ attempts[a].status # "gone" /\ found'[p] = a
    BY <1>2, <2>1
  <2>3. attempts[a].status \in {"success", "merged"}
    BY <1>2, <2>2, ConstantsAssumption
       DEF ReportedTruly, IInv, AttemptsKnown, AttemptRow, AttemptStatus
  <2>4. QED BY <2>2, <2>3
<1>5. FoundIsSettled'
  BY <1>1, <1>3, <1>4 DEF ReportedTruly, OutcomesFinal, FoundIsSettled
<1>6. QED BY <1>1, <1>5 DEF ReportedTruly, OutcomesFinal, MergedHasUrl

\* The attempt marked MERGED still has its pr_url.
LEMMA MarkMergedFinal ==
    ASSUME ReportedTruly, NEW p \in Prs, MarkMerged(p)
    PROVE  FoundIsSettled' /\ MergedHasUrl'
<1> DEFINE a == found[p]
<1>1. /\ hooks \in [Prs -> HookState]
      /\ a \in Attempts /\ attempts[a].url = p
      /\ attempts \in [Attempts -> AttemptRow]
  BY DEF MarkMerged, ReportedTruly, IInv, TypeOK, FoundKnown, OutcomesFinal, FoundIsSettled
<1>2. /\ attempts'[a].status = "merged" /\ attempts'[a].url = p
      /\ \A b \in Attempts : b # a => attempts'[b] = attempts[b]
  BY <1>1 DEF MarkMerged, AttemptRow
<1>3. /\ found' = found
      /\ \A q \in Prs : hooks'[q] = "found" => hooks[q] = "found"
  BY <1>1 DEF MarkMerged
<1> HIDE DEF a
<1>4. FoundIsSettled'
  <2>1. SUFFICES ASSUME NEW q \in Prs, hooks[q] = "found"
                 PROVE  /\ attempts'[found[q]].status \in {"success", "merged", "gone"}
                        /\ attempts'[found[q]].url = q
    BY <1>3 DEF FoundIsSettled
  <2>2. /\ found[q] \in Attempts /\ attempts[found[q]].url = q
        /\ attempts[found[q]].status \in {"success", "merged", "gone"}
    BY <2>1 DEF ReportedTruly, IInv, FoundKnown, OutcomesFinal, FoundIsSettled
  <2>3. QED BY <1>1, <1>2, <2>2
<1>5. MergedHasUrl'
  BY <1>2, ConstantsAssumption DEF ReportedTruly, OutcomesFinal, MergedHasUrl
<1>6. QED BY <1>4, <1>5

\* Deletion changes no pr_url.
LEMMA DeleteFinal ==
    ASSUME ReportedTruly, NEW q \in Projects, DeleteProject(q)
    PROVE  FoundIsSettled' /\ MergedHasUrl'
<1>1. UNCHANGED <<hooks, found>>
  BY DEF DeleteProject, github
<1>2. \A a \in Attempts : /\ attempts'[a].status \in {attempts[a].status, "gone"}
                          /\ attempts'[a].url = attempts[a].url
  BY DEF DeleteProject, ReportedTruly, IInv, TypeOK, AttemptRow
<1>3. FoundIsSettled'
  <2>1. \A p \in Prs : hooks[p] = "found" => found[p] \in Attempts
    BY DEF ReportedTruly, IInv, FoundKnown
  <2>2. QED BY <1>1, <1>2, <2>1 DEF ReportedTruly, OutcomesFinal, FoundIsSettled
<1>4. MergedHasUrl'
  BY <1>2 DEF ReportedTruly, OutcomesFinal, MergedHasUrl
<1>5. QED BY <1>3, <1>4

\* The remaining steps start no handler.
LEMMA OthersFinal ==
    ASSUME ReportedTruly, OtherStep, ~ \E p \in Prs : FindAttempt(p)
    PROVE  FoundIsSettled' /\ MergedHasUrl'
<1>1. attempts' = attempts
  BY OtherStepStutters DEF Stutter
<1>2. hooks \in [Prs -> HookState]
  BY DEF ReportedTruly, IInv, TypeOK
<1>3. found' = found /\ \A p \in Prs : hooks'[p] = "found" => hooks[p] = "found"
  <2>1. CASE \/ \E j \in Jobs, e \in Errors : TriggerFix(j, e)
             \/ \E q \in Projects : ChangeReadiness(q)
             \/ \E q \in Projects, r \in Repos : EditProject(q, r)
             \/ \E j \in Jobs, w \in Workers : Deliver(j, w)
             \/ \E j \in Jobs : Timeout(j)
             \/ \E w \in Workers : Shutdown(w) \/ Kill(w)
    BY <2>1 DEF TriggerFix, ChangeReadiness, EditProject, Deliver, Timeout, Shutdown, Kill, github
  <2>2. CASE \/ \E p \in Prs : MergePr(p) \/ ClosePr(p) \/ LoseWebhook(p)
             \/ \E r \in remote : DeleteBranch(r)
    <3>1. ASSUME NEW p \in Prs, MergePr(p) \/ ClosePr(p) \/ LoseWebhook(p)
          PROVE  found' = found /\ \A q \in Prs : hooks'[q] = "found" => hooks[q] = "found"
      BY <1>2, <3>1 DEF MergePr, ClosePr, LoseWebhook
    <3>2. ASSUME NEW r \in remote, DeleteBranch(r)
          PROVE  found' = found /\ \A q \in Prs : hooks'[q] = "found" => hooks[q] = "found"
      BY <3>2 DEF DeleteBranch
    <3>3. QED BY <2>2, <3>1, <3>2
  <2>3. QED BY <2>1, <2>2 DEF OtherStep
<1>4. QED BY <1>1, <1>3 DEF ReportedTruly, OutcomesFinal, FoundIsSettled, MergedHasUrl

\* Every step keeps outcomes final, as long as no write is reported failed.
LEMMA NextFinal ==
    ASSUME ReportedTruly, unreported' = 0, [Next]_vars
    PROVE  OutcomesFinal'
<1>1. FailingIsUnsettled'
  BY NextUnsettled
<1>2. CASE \E j \in Jobs : JobStep(j)
  BY <1>1, <1>2, JobStepFinal DEF OutcomesFinal
<1>3. CASE \E p \in Prs : FindAttempt(p) \/ MarkMerged(p)
  BY <1>1, <1>3, FindAttemptFinal, MarkMergedFinal DEF OutcomesFinal
<1>4. CASE \E q \in Projects : DeleteProject(q)
  BY <1>1, <1>4, DeleteFinal DEF OutcomesFinal
<1>5. CASE OtherStep /\ ~ \E p \in Prs : FindAttempt(p)
  BY <1>1, <1>5, OthersFinal DEF OutcomesFinal
<1>6. CASE UNCHANGED vars
  BY <1>1, <1>6 DEF vars, ReportedTruly, OutcomesFinal, FoundIsSettled, MergedHasUrl
<1>7. QED BY <1>2, <1>3, <1>4, <1>5, <1>6, Zenon DEF Next, OtherStep

\* The count of such reports is never taken back.
LEMMA ReportsAreCounted ==
    ASSUME IInv, [Next]_vars, unreported' = 0
    PROVE  unreported = 0
<1>1. unreported \in Nat
  BY ConstantsAssumption DEF IInv, TypeOK
<1>2. CASE \E j \in Jobs : JobStep(j) \/ Timeout(j)
  <2>1. unreported' = unreported \/ Unreported
    BY <1>2 DEF JobStep, LoadError, SkipOrAbort, Prepare, MarkRunning, FixInClone, StepFails,
       Push, CreatePr, RecordSuccess, RecordFailure, Finish, Timeout, faults
  <2>2. QED BY <1>1, <2>1 DEF Unreported
<1>3. CASE \/ \E j \in Jobs, e \in Errors : TriggerFix(j, e)
           \/ \E q \in Projects : DeleteProject(q) \/ ChangeReadiness(q)
           \/ \E q \in Projects, r \in Repos : EditProject(q, r)
           \/ \E p \in Prs : MergePr(p) \/ ClosePr(p)
           \/ \E p \in Prs : FindAttempt(p) \/ MarkMerged(p) \/ LoseWebhook(p)
           \/ \E r \in remote : DeleteBranch(r)
  BY <1>3 DEF TriggerFix, DeleteProject, ChangeReadiness, EditProject, MergePr, ClosePr,
     FindAttempt, MarkMerged, LoseWebhook, DeleteBranch, faults
<1>4. CASE \/ \E j \in Jobs, w \in Workers : Deliver(j, w)
           \/ \E w \in Workers : Shutdown(w) \/ Kill(w)
  BY <1>4 DEF Deliver, Shutdown, Kill, faults
<1>5. CASE UNCHANGED vars
  BY <1>5 DEF vars
<1>6. QED BY <1>2, <1>3, <1>4, <1>5 DEF Next

\* Outcomes are final until a write is wrongly reported failed.
LEMMA FinalUntilUnreported == Spec => [](unreported = 0 => OutcomesFinal)
<1>1. Init => (unreported = 0 => OutcomesFinal)
  BY InitFinal
<1>2. IInv /\ (unreported = 0 => OutcomesFinal) /\ [Next]_vars =>
        (unreported = 0 => OutcomesFinal)'
  BY NextFinal, ReportsAreCounted DEF ReportedTruly
<1>3. QED BY <1>1, <1>2, Inductive, PTL DEF Spec

\* pr_url follows the status: none without SUCCESS or MERGED, always one with
\* SUCCESS, and one with MERGED unless a write was wrongly reported failed.
THEOREM UrlCorrect == Spec => []UrlFollowsStatus
<1>1. IInv /\ (unreported = 0 => OutcomesFinal) => UrlFollowsStatus
  <2> SUFFICES ASSUME IInv, unreported = 0 => OutcomesFinal, NEW a \in Rows
               PROVE  /\ attempts[a].url # None => attempts[a].status \in {"success", "merged"}
                      /\ attempts[a].status = "success" => attempts[a].url # None
                      /\ attempts[a].status = "merged" /\ attempts[a].url = None => unreported > 0
    BY DEF UrlFollowsStatus
  <2>1. /\ a \in Attempts /\ attempts[a].status \notin {"free", "gone"}
        /\ attempts[a].status \in AttemptStatus
    BY DEF Rows, IInv, TypeOK, AttemptRow
  <2>2. unreported \in Nat
    BY ConstantsAssumption DEF IInv, TypeOK
  <2>3. QED BY <2>1, <2>2 DEF IInv, AttemptsKnown, AttemptStatus, OutcomesFinal, MergedHasUrl
<1>2. QED BY <1>1, Inductive, FinalUntilUnreported, PTL

-----------------------------------------------------------------------------
(* Each step is a step of the lifecycle or none.                           *)

\* The refinement mapping of FixPipeline!Lifecycle.
status == [a \in Attempts |-> attempts[a].status]
subject == [a \in Attempts |-> attempts[a].error]

\* Initial states map to initial states.
LEMMA InitMaps == ASSUME Init PROVE Lifecycle!Init
  BY DEF Init, Attempt, Lifecycle!Init

\* A step that leaves attempts and errors alone is none of the lifecycle.
LEMMA StutterMaps ==
    ASSUME Stutter
    PROVE  UNCHANGED <<errors, status, subject>>
  BY DEF Stutter, status, subject

\* The insert of a PENDING attempt is Begin.
LEMMA PrepareMaps ==
    ASSUME ReportedTruly, NEW j \in Jobs, Prepare(j)
    PROVE  Lifecycle!Next
<1>0. PICK e \in Errors : e = jobs[j].error
  BY DEF Prepare, ReportedTruly, IInv, JobKnowledge, Steps
<1>1. PICK a \in Attempts :
        /\ attempts[a].status = "free"
        /\ attempts' = [attempts EXCEPT ![a] = Attempt("pending", e, None)]
  BY <1>0 DEF Prepare
<1>2. /\ errors[e] # "gone"
      /\ errors' = errors
      /\ attempts \in [Attempts -> AttemptRow]
  BY <1>0 DEF Prepare, ReportedTruly, IInv, TypeOK
<1>3. Lifecycle!Begin(a, e)
  BY <1>1, <1>2 DEF Lifecycle!Begin, Attempt
<1>4. QED BY <1>2, <1>3 DEF Lifecycle!Next

\* mark_fix_attempt_running is Run.
LEMMA MarkRunningMaps ==
    ASSUME ReportedTruly, NEW j \in Jobs, MarkRunning(j)
    PROVE  Lifecycle!Next
<1>0. PICK a \in Attempts : a = jobs[j].attempt
  BY DEF MarkRunning, ReportedTruly, IInv, JobKnowledge, Holding
<1>1. /\ attempts[a].status = "pending"
      /\ errors' = errors
      /\ attempts \in [Attempts -> AttemptRow]
      /\ attempts' = [attempts EXCEPT ![a].status = "running"]
  BY <1>0 DEF MarkRunning, ReportedTruly, IInv, TypeOK, JobKnowledge, Holding
<1>2. Lifecycle!Run(a)
  BY <1>1 DEF Lifecycle!Run, Lifecycle!Advance, AttemptRow
<1>3. QED BY <1>1, <1>2 DEF Lifecycle!Next

\* complete_fix_attempt(success=True) is Succeed.
LEMMA RecordSuccessMaps ==
    ASSUME ReportedTruly, NEW j \in Jobs, RecordSuccess(j)
    PROVE  Lifecycle!Next
<1>0. PICK a \in Attempts : a = jobs[j].attempt
  BY DEF RecordSuccess, ReportedTruly, IInv, JobKnowledge, Holding
<1>1. /\ attempts[a].status = "running"
      /\ errors' = [errors EXCEPT ![attempts[a].error] = "fix_attempted"]
      /\ attempts \in [Attempts -> AttemptRow]
      /\ attempts' = [attempts EXCEPT ![a].status = "success", ![a].url = jobs[j].pr]
  BY <1>0 DEF RecordSuccess, ReportedTruly, IInv, TypeOK, JobKnowledge, Holding
<1>2. Lifecycle!Succeed(a)
  BY <1>1 DEF Lifecycle!Succeed, Lifecycle!Advance, AttemptRow
<1>3. QED BY <1>1, <1>2 DEF Lifecycle!Next

\* complete_fix_attempt(success=False) is Fail, or changes nothing.
LEMMA RecordFailureMaps ==
    ASSUME ReportedTruly, NEW j \in Jobs, RecordFailure(j)
    PROVE  Lifecycle!Next \/ Stutter
<1>0. PICK a \in Attempts : a = jobs[j].attempt
  BY DEF RecordFailure, ReportedTruly, IInv, JobKnowledge, Holding
<1>1. /\ errors' = errors
      /\ attempts[a].status \in {"pending", "running", "gone"}
      /\ attempts \in [Attempts -> AttemptRow]
  BY <1>0 DEF RecordFailure, ReportedTruly, OutcomesFinal, FailingIsUnsettled, IInv, TypeOK, JobKnowledge, Holding
<1>2. CASE UNCHANGED attempts
  BY <1>1, <1>2 DEF Stutter
<1>3. CASE /\ attempts[a].status # "gone"
           /\ attempts' = [attempts EXCEPT ![a].status = "failed", ![a].url = None]
  <2>1. Lifecycle!Fail(a)
    BY <1>1, <1>3 DEF Lifecycle!Fail, Lifecycle!Advance, AttemptRow
  <2>2. QED BY <1>1, <2>1 DEF Lifecycle!Next
<1>4. QED BY <1>0, <1>2, <1>3 DEF RecordFailure

\* The UPDATE of handle_pr_event is Merge, or changes nothing.
LEMMA MarkMergedMaps ==
    ASSUME ReportedTruly, NEW p \in Prs, MarkMerged(p)
    PROVE  Lifecycle!Next \/ Stutter
<1>1. PICK a \in Attempts : a = found[p]
  BY DEF MarkMerged, ReportedTruly, IInv, FoundKnown
<1>2. /\ errors' = errors
      /\ attempts[a].status \in {"success", "merged"}
      /\ attempts \in [Attempts -> AttemptRow]
      /\ attempts' = [attempts EXCEPT ![a].status = "merged"]
  BY <1>1 DEF MarkMerged, ReportedTruly, IInv, TypeOK, OutcomesFinal, FoundIsSettled
<1>3. CASE attempts[a].status = "merged"
  BY <1>2, <1>3 DEF Stutter, AttemptRow
<1>4. CASE attempts[a].status = "success"
  <2>1. Lifecycle!Merge(a)
    BY <1>2, <1>4 DEF Lifecycle!Merge, Lifecycle!Advance, AttemptRow
  <2>2. QED BY <2>1 DEF Lifecycle!Next
<1>5. QED BY <1>2, <1>3, <1>4

\* The cascade of delete_project_action is Delete.
LEMMA DeleteMaps ==
    ASSUME ReportedTruly, NEW q \in Projects, DeleteProject(q)
    PROVE  Lifecycle!Next
<1> DEFINE es == {e \in Errors : ProjectOf[e] = q}
<1>1. attempts \in [Attempts -> AttemptRow] /\ errors \in [Errors -> ErrorStatus]
  BY DEF ReportedTruly, IInv, TypeOK
<1>2. errors' = [e \in Errors |-> IF e \in es THEN "gone" ELSE errors[e]]
  BY DEF DeleteProject
<1>3. \A a \in Attempts :
        /\ attempts'[a].status = IF attempts[a].error \in es THEN "gone" ELSE attempts[a].status
        /\ attempts'[a].error = attempts[a].error
  BY <1>1 DEF DeleteProject, AttemptRow
<1>4. Lifecycle!Delete(es)
  BY <1>2, <1>3 DEF Lifecycle!Delete
<1>5. QED BY <1>4 DEF Lifecycle!Next

\* Every step of the pipeline is a step of the lifecycle or none.
LEMMA StepMaps ==
    ASSUME ReportedTruly, unreported' = 0, [Next]_vars
    PROVE  Lifecycle!Next \/ UNCHANGED <<errors, status, subject>>
<1>1. CASE \E j \in Jobs : JobStep(j)
  <2>1. PICK j \in Jobs : JobStep(j)
    BY <1>1
  <2>2. CASE Prepare(j) \/ MarkRunning(j) \/ RecordSuccess(j)
    BY <2>2, PrepareMaps, MarkRunningMaps, RecordSuccessMaps
  <2>3. CASE RecordFailure(j)
    BY <2>3, RecordFailureMaps, StutterMaps
  <2>4. CASE \/ LoadError(j) \/ SkipOrAbort(j) \/ FixInClone(j) \/ StepFails(j)
             \/ Push(j) \/ CreatePr(j) \/ Finish(j)
    <3>1. Stutter
      BY <2>4 DEF Stutter, LoadError, SkipOrAbort, FixInClone, StepFails, Push, CreatePr,
         Finish, database
    <3>2. QED BY <3>1, StutterMaps
  <2>5. QED BY <2>1, <2>2, <2>3, <2>4 DEF JobStep
<1>2. CASE \E p \in Prs : MarkMerged(p)
  BY <1>2, MarkMergedMaps, StutterMaps
<1>3. CASE \E q \in Projects : DeleteProject(q)
  BY <1>3, DeleteMaps
<1>4. CASE OtherStep
  BY <1>4, OtherStepStutters, StutterMaps
<1>5. CASE UNCHANGED vars
  BY <1>5, StutterMaps DEF vars, Stutter
<1>6. QED BY <1>1, <1>2, <1>3, <1>4, <1>5, Zenon DEF Next, OtherStep

\* Whatever jobs, retries, crashes, users and webhooks do, attempts and errors
\* only go through the life that FixLifecycle allows, if no write of a job
\* takes effect and is reported failed.
THEOREM Implements ==
    ASSUME MaxUnreported = 0
    PROVE  Spec => ImplementsLifecycle
<1>1. Init => Lifecycle!Init
  BY InitMaps
<1>2. IInv /\ (unreported = 0 => OutcomesFinal) => ReportedTruly
  BY DEF IInv, TypeOK, ReportedTruly
<1>3. ReportedTruly /\ ReportedTruly' /\ [Next]_vars =>
        [Lifecycle!Next]_<<errors, status, subject>>
  BY StepMaps DEF ReportedTruly
<1>4. Spec => []ReportedTruly
  BY <1>2, Inductive, FinalUntilUnreported, PTL
<1>5. QED
  BY <1>1, <1>3, <1>4, PTL DEF Spec, ImplementsLifecycle, Lifecycle!Spec, status, subject
=============================================================================
