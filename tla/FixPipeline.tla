---------------------------- MODULE FixPipeline ----------------------------
(***************************************************************************)
(* The fix pipeline: a member triggers a fix for an error, the request is  *)
(* queued in Redis, an arq worker runs pipeline_service.run, which drives  *)
(* one fix attempt through the database, git and GitHub, and GitHub tells  *)
(* the web process by webhook that the pull request was merged.            *)
(*                                                                         *)
(* One step of a job is the code between two awaits at which another       *)
(* process can act on shared state.  Git, Claude, GitHub and Postgres may  *)
(* fail at each of their calls; a write may also take effect and still be  *)
(* reported as failed.  What a cancelled call had already sent takes       *)
(* effect before the cancellation or not at all.                           *)
(***************************************************************************)
EXTENDS Integers, FiniteSets

CONSTANTS
    Projects, Errors, Attempts, Prs,   \* row and pull request identities
    Repos,                             \* GitHub repositories
    Jobs,                              \* arq job identities
    Workers,                           \* worker processes
    ProjectOf,                         \* the project of each error
    BranchOf,                          \* oopsie/fix-<first 8 characters of id>
    MaxTries,                          \* arq's max_tries
    Concurrency,                       \* WORKER_CONCURRENCY, arq's max_jobs
    MaxKills,                          \* bound: worker processes killed
    MaxUnreported,                     \* bound: writes done but reported failed
    None                               \* SQL NULL, Python None

ASSUME ConstantsAssumption ==
    /\ ProjectOf \in [Errors -> Projects]
    /\ DOMAIN BranchOf = Errors
    /\ MaxTries \in Nat \ {0}
    /\ Concurrency \in Nat \ {0}
    /\ MaxKills \in Nat
    /\ MaxUnreported \in Nat
    /\ None \notin Errors \cup Attempts \cup Prs \cup Workers \cup Repos

VARIABLES
    projects,   \* "ready", "unready" or "gone", see ProjectState
    repos,      \* github_repo_url of each project
    errors,     \* errors.status, "gone" once the row is deleted
    attempts,   \* the fix_attempts rows; status "free" is an unused identity
    jobs,       \* arq's queue and the local state of each running job
    remote,     \* branches on GitHub; the head is the attempt that pushed it
    prs,        \* pull requests on GitHub
    hooks,      \* the pull_request "closed" webhook of each pull request
    found,      \* the attempt that the handler of that webhook loaded
    dirs,       \* clone directories rmtree was not called for yet: <<job, try>>
    kills,      \* workers killed so far
    unreported, \* writes that took effect and were reported failed so far
    cut         \* auxiliary: attempts whose job ended without writing an outcome

vars == <<projects, repos, errors, attempts, jobs, remote, prs, hooks, found, dirs,
          kills, unreported, cut>>
faults == <<kills, unreported, cut>>
github == <<remote, prs, hooks, found>>
database == <<projects, repos, errors, attempts>>

\* A project is ready when its organization has an ACTIVE installation and an
\* Anthropic key resolves for it; settings and webhooks change both.
ProjectState == {"ready", "unready", "gone"}
Branches == {BranchOf[e] : e \in Errors}
ErrorStatus == {"open", "fix_attempted", "fix_merged", "ignored", "gone"}
AttemptStatus == {"free", "pending", "running", "success", "failed", "merged", "gone"}
PrState == {"free", "open", "merged", "closed"}
HookState == {"none", "sent", "found", "ignored", "matched", "unmatched", "lost"}

\* Where a job is: waiting in Redis, at a step of run(), or over.
Steps == {"load", "prepare", "mark", "fix", "push", "open_pr", "record", "failing", "finish"}
JobState == Steps \cup {"idle", "queued", "done"}

\* The steps at which run() holds a job context, hence a fix attempt.
Holding == {"mark", "fix", "push", "open_pr", "record", "failing"}

AttemptRow == [status : AttemptStatus, error : Errors \cup {None}, url : Prs \cup {None}]
Branch == [repo : Repos, branch : Branches, head : Attempts]
PullRequest == [state : PrState, repo : Repos \cup {None}, branch : Branches \cup {None},
                head : Attempts \cup {None}, by : Attempts \cup {None}]
Job == [pc : JobState, error : Errors \cup {None}, worker : Workers \cup {None},
        try : 0..MaxTries, attempt : Attempts \cup {None}, repo : Repos \cup {None},
        pr : Prs \cup {None}]

Attempt(status, e, url) == [status |-> status, error |-> e, url |-> url]
FreePr == [state |-> "free", repo |-> None, branch |-> None, head |-> None, by |-> None]
\* The job in Redis keeps its arguments and its count of tries, nothing else.
InRedis(pc, e, n) == [pc |-> pc, error |-> e, worker |-> None, try |-> n,
                      attempt |-> None, repo |-> None, pr |-> None]
IdleJob == InRedis("idle", None, 0)
QueuedJob(e, n) == InRedis("queued", e, n)
EndedJob == InRedis("done", None, 0)

\* Mutation: a branch name of its own for every attempt.
BranchPerAttempt(e, a) == <<e, a>>

BranchName(e, a) == BranchOf[e]

Init ==
    /\ projects \in [Projects -> {"ready", "unready"}]
    /\ repos \in [Projects -> Repos]
    /\ errors = [e \in Errors |-> "open"]
    /\ attempts = [a \in Attempts |-> Attempt("free", None, None)]
    /\ jobs = [j \in Jobs |-> IdleJob]
    /\ remote = {}
    /\ prs = [p \in Prs |-> FreePr]
    /\ hooks = [p \in Prs |-> "none"]
    /\ found = [p \in Prs |-> None]
    /\ dirs = {}
    /\ kills = 0
    /\ unreported = 0
    /\ cut = {}

-----------------------------------------------------------------------------
(* The web process.                                                        *)

\* trigger_fix_action and enqueue_fix_job.  The status is read before the job
\* is pushed; a change in between is the same as a change while it is queued.
TriggerFix(j, e) ==
    /\ jobs[j].pc = "idle"
    /\ projects[ProjectOf[e]] # "gone"
    /\ errors[e] = "open"
    /\ jobs' = [jobs EXCEPT ![j] = QueuedJob(e, 1)]
    /\ UNCHANGED <<database, github, dirs, faults>>

\* delete_project_action: foreign keys cascade to errors and fix attempts.
DeleteProject(q) ==
    /\ projects[q] # "gone"
    /\ projects' = [projects EXCEPT ![q] = "gone"]
    /\ errors' = [e \in Errors |-> IF ProjectOf[e] = q THEN "gone" ELSE errors[e]]
    /\ attempts' = [a \in Attempts |->
                      IF attempts[a].error \in Errors /\ ProjectOf[attempts[a].error] = q
                      THEN [attempts[a] EXCEPT !.status = "gone"]
                      ELSE attempts[a]]
    /\ UNCHANGED <<repos, jobs, github, dirs, faults>>

\* An installation webhook or callback, or a key set or cleared in settings.
ChangeReadiness(q) ==
    /\ \/ projects[q] = "ready" /\ projects' = [projects EXCEPT ![q] = "unready"]
       \/ projects[q] = "unready" /\ projects' = [projects EXCEPT ![q] = "ready"]
    /\ UNCHANGED <<repos, errors, attempts, jobs, github, dirs, faults>>

\* update_project_action gives the project another repository.  Errors, attempts
\* and jobs stay; a job that has its context goes on with the repository it read.
EditProject(q, r) ==
    /\ projects[q] # "gone"
    /\ repos' = [repos EXCEPT ![q] = r]
    /\ UNCHANGED <<projects, errors, attempts, jobs, github, dirs, faults>>

\* Mutation: the attempt is looked up by branch name instead of by pr_url.
FindByBranch(p) ==
    /\ hooks[p] = "sent"
    /\ \E a \in Attempts :
       /\ attempts[a].error \in Errors /\ BranchOf[attempts[a].error] = prs[p].branch
       /\ attempts[a].status # "gone"
       /\ found' = [found EXCEPT ![p] = a]
    /\ hooks' = [hooks EXCEPT ![p] = "found"]
    /\ UNCHANGED <<database, jobs, remote, prs, dirs, faults>>

\* Mutation: the test of event.pull_request.merged is missing.
FindClosed(p) ==
    /\ hooks[p] = "sent"
    /\ \E a \in Attempts :
       /\ attempts[a].url = p /\ attempts[a].status # "gone"
       /\ found' = [found EXCEPT ![p] = a]
    /\ hooks' = [hooks EXCEPT ![p] = "found"]
    /\ UNCHANGED <<database, jobs, remote, prs, dirs, faults>>

\* handle_pr_event up to its SELECT: only a closed and merged pull request
\* matters; the attempt is looked up by pr_url (more than one would raise).
FindAttempt(p) ==
    LET matching == {a \in Attempts : attempts[a].url = p /\ attempts[a].status # "gone"} IN
    /\ hooks[p] = "sent"
    /\ \/ /\ prs[p].state # "merged"
          /\ hooks' = [hooks EXCEPT ![p] = "ignored"]
          /\ UNCHANGED found
       \/ /\ prs[p].state = "merged"
          /\ matching = {}
          /\ hooks' = [hooks EXCEPT ![p] = "unmatched"]
          /\ UNCHANGED found
       \/ \E a \in Attempts :
          /\ prs[p].state = "merged"
          /\ matching = {a}
          /\ hooks' = [hooks EXCEPT ![p] = "found"]
          /\ found' = [found EXCEPT ![p] = a]
    /\ UNCHANGED <<database, jobs, remote, prs, dirs, faults>>

\* Its UPDATE, by primary key: it sets the status alone, whatever has become of
\* the pr_url meanwhile.  If the row is gone it raises (LoseWebhook).
MarkMerged(p) ==
    /\ hooks[p] = "found"
    /\ attempts[found[p]].status # "gone"
    /\ attempts' = [attempts EXCEPT ![found[p]].status = "merged"]
    /\ hooks' = [hooks EXCEPT ![p] = "matched"]
    /\ UNCHANGED <<projects, repos, errors, jobs, remote, prs, found, dirs, faults>>

-----------------------------------------------------------------------------
(* GitHub and its users, as far as src/ depends on them.                   *)

\* A reviewer merges the pull request; GitHub sends the event once.
MergePr(p) ==
    /\ prs[p].state = "open"
    /\ prs' = [prs EXCEPT ![p].state = "merged"]
    /\ hooks' = [hooks EXCEPT ![p] = "sent"]
    /\ UNCHANGED <<database, jobs, remote, found, dirs, faults>>

ClosePr(p) ==
    /\ prs[p].state = "open"
    /\ prs' = [prs EXCEPT ![p].state = "closed"]
    /\ hooks' = [hooks EXCEPT ![p] = "sent"]
    /\ UNCHANGED <<database, jobs, remote, found, dirs, faults>>

\* The web process is down, or the handler raises and answers 200 all the same
\* (`except Exception` in github_webhook): GitHub does not send the event again.
LoseWebhook(p) ==
    /\ hooks[p] \in {"sent", "found"}
    /\ hooks' = [hooks EXCEPT ![p] = "lost"]
    /\ UNCHANGED <<database, jobs, remote, prs, found, dirs, faults>>

\* A branch is deleted after a merge or to clear a stale one, which closes its
\* pull request.  Nobody deletes a branch a job pushed a moment ago.
DeleteBranch(r) ==
    LET closes == {p \in Prs : /\ prs[p].state = "open"
                               /\ prs[p].repo = r.repo /\ prs[p].branch = r.branch} IN
    /\ r \in remote
    /\ ~ \E j \in Jobs : jobs[j].pc = "open_pr" /\ jobs[j].attempt = r.head
    /\ remote' = remote \ {r}
    /\ prs' = [p \in Prs |-> IF p \in closes THEN [prs[p] EXCEPT !.state = "closed"] ELSE prs[p]]
    /\ hooks' = [p \in Prs |-> IF p \in closes THEN "sent" ELSE hooks[p]]
    /\ UNCHANGED <<database, jobs, found, dirs, faults>>

-----------------------------------------------------------------------------
(* A job in a worker: pipeline_service.run.                                *)

Goto(j, pc) == jobs' = [jobs EXCEPT ![j].pc = pc]

\* An unreported write: it took effect, the caller saw an exception.
Unreported ==
    /\ unreported < MaxUnreported
    /\ unreported' = unreported + 1
    /\ UNCHANGED <<kills, cut>>

Running(w) == {j \in Jobs : jobs[j].pc \in Steps /\ jobs[j].worker = w}

\* arq takes the job if the worker has a free slot.
Deliver(j, w) ==
    /\ jobs[j].pc = "queued"
    /\ Cardinality(Running(w)) < Concurrency
    /\ jobs' = [jobs EXCEPT ![j].pc = "load", ![j].worker = w]
    /\ UNCHANGED <<database, github, dirs, faults>>

\* The first query of _load_and_prepare: anything but an OPEN error is skipped.
LoadError(j) ==
    /\ jobs[j].pc = "load"
    /\ \/ errors[jobs[j].error] = "open" /\ Goto(j, "prepare")
       \/ errors[jobs[j].error] # "open" /\ Goto(j, "finish")
    /\ UNCHANGED <<database, github, dirs, faults>>

\* The rest of _load_and_prepare finds no project, no ACTIVE installation or no
\* key, or the insert fails (foreign key of a deleted error, lost connection).
SkipOrAbort(j) ==
    /\ jobs[j].pc = "prepare"
    /\ Goto(j, "finish")
    /\ UNCHANGED <<database, github, dirs, faults>>

\* Mutation: a PENDING attempt of the error is taken over instead of a new one.
AdoptPending(j) ==
    LET e == jobs[j].error IN
    /\ jobs[j].pc = "prepare"
    /\ projects[ProjectOf[e]] = "ready"
    /\ errors[e] # "gone"
    /\ \E a \in Attempts :
       /\ attempts[a].status = "free" \/ attempts[a] = Attempt("pending", e, None)
       /\ attempts' = [attempts EXCEPT ![a] = Attempt("pending", e, None)]
       /\ jobs' = [jobs EXCEPT ![j].pc = "mark", ![j].attempt = a,
                               ![j].repo = repos[ProjectOf[e]]]
    /\ dirs' = dirs \cup {<<j, jobs[j].try>>}
    /\ UNCHANGED <<projects, repos, errors, github, faults>>

\* The PENDING attempt is committed, with the repository of the moment in the
\* job's context, then mkdtemp makes the clone directory.  mkdtemp is outside the
\* try block: if it raises, run() ends right there.
Prepare(j) ==
    LET e == jobs[j].error IN
    /\ jobs[j].pc = "prepare"
    /\ projects[ProjectOf[e]] = "ready"
    /\ errors[e] # "gone"
    /\ \E a \in Attempts :
       /\ attempts[a].status = "free"
       /\ attempts' = [attempts EXCEPT ![a] = Attempt("pending", e, None)]
       /\ \/ /\ jobs' = [jobs EXCEPT ![j].pc = "mark", ![j].attempt = a,
                                     ![j].repo = repos[ProjectOf[e]]]
             /\ dirs' = dirs \cup {<<j, jobs[j].try>>}
             /\ UNCHANGED cut
          \/ /\ Goto(j, "finish")
             /\ cut' = cut \cup {a}
             /\ UNCHANGED dirs
    /\ UNCHANGED <<projects, repos, errors, github, kills, unreported>>

\* mark_fix_attempt_running; the assert fails if the project was deleted.
MarkRunning(j) ==
    LET a == jobs[j].attempt IN
    /\ jobs[j].pc = "mark"
    /\ attempts[a].status # "gone"
    /\ attempts' = [attempts EXCEPT ![a].status = "running"]
    /\ Goto(j, "fix")
    /\ UNCHANGED <<projects, repos, errors, github, dirs, faults>>

\* Token, clone, checkout -b, Claude and has_changes: only this job sees them.
FixInClone(j) ==
    /\ jobs[j].pc = "fix"
    /\ Goto(j, "push")
    /\ UNCHANGED <<database, github, dirs, faults>>

\* Mutation: marking the attempt RUNNING is moved before the try block.
FailsUnrecorded(j) ==
    /\ jobs[j].pc \in {"mark", "fix", "push", "open_pr", "record"}
    /\ Goto(j, IF jobs[j].pc = "mark" THEN "finish" ELSE "failing")
    /\ UNCHANGED <<database, github, dirs, faults>>

\* Any call of the try block raises without having changed anything: a failed
\* assert or rollback, a git, Claude or GitHub error, no changes to commit.
StepFails(j) ==
    /\ jobs[j].pc \in {"mark", "fix", "push", "open_pr", "record"}
    /\ Goto(j, "failing")
    /\ UNCHANGED <<database, github, dirs, faults>>

\* The branch that a job pushes, on the repository in its context.
BranchOfJob(j) ==
    [repo |-> jobs[j].repo, branch |-> BranchName(jobs[j].error, jobs[j].attempt),
     head |-> jobs[j].attempt]

SameBranch(r, s) == r.repo = s.repo /\ r.branch = s.branch

\* Mutation: git push --force.
ForcePush(j) ==
    /\ jobs[j].pc = "push"
    /\ remote' = {r \in remote : ~SameBranch(r, BranchOfJob(j))} \cup {BranchOfJob(j)}
    /\ Goto(j, "open_pr")
    /\ UNCHANGED <<database, prs, hooks, found, dirs, faults>>

\* commit_and_push: git push without --force creates the branch; a branch that
\* exists has another history, so the push is rejected (StepFails).
Push(j) ==
    /\ jobs[j].pc = "push"
    /\ ~ \E r \in remote : SameBranch(r, BranchOfJob(j))
    /\ remote' = remote \cup {BranchOfJob(j)}
    /\ \/ Goto(j, "open_pr") /\ UNCHANGED faults
       \/ Goto(j, "failing") /\ Unreported
    /\ UNCHANGED <<database, prs, hooks, found, dirs>>

\* create_pull_request: GitHub wants the branch.  That it also refuses a second
\* open request from one branch to one base is not relied upon, because the base
\* branch is a setting of the project.
CreatePr(j) ==
    /\ jobs[j].pc = "open_pr"
    /\ \E p \in Prs, r \in remote :
       /\ prs[p].state = "free"
       /\ SameBranch(r, BranchOfJob(j))
       /\ prs' = [prs EXCEPT ![p] = [state |-> "open", repo |-> r.repo, branch |-> r.branch,
                                     head |-> r.head, by |-> jobs[j].attempt]]
       /\ \/ jobs' = [jobs EXCEPT ![j].pc = "record", ![j].pr = p] /\ UNCHANGED faults
          \/ Goto(j, "failing") /\ Unreported
    /\ UNCHANGED <<database, remote, hooks, found, dirs>>

\* Mutation: the result is written to every attempt of the error.
RecordOnAllOfError(j) ==
    /\ jobs[j].pc = "record"
    /\ attempts' = [a \in Attempts |->
                      IF attempts[a].error = jobs[j].error /\ attempts[a].status # "gone"
                      THEN [attempts[a] EXCEPT !.status = "success", !.url = jobs[j].pr]
                      ELSE attempts[a]]
    /\ errors' = [errors EXCEPT ![jobs[j].error] =
                    IF errors[jobs[j].error] = "gone" THEN "gone" ELSE "fix_attempted"]
    /\ Goto(j, "finish")
    /\ UNCHANGED <<projects, repos, github, dirs, faults>>

\* complete_fix_attempt(success=True): the attempt and its error in one commit.
RecordSuccess(j) ==
    LET a == jobs[j].attempt IN
    /\ jobs[j].pc = "record"
    /\ attempts[a].status # "gone"
    /\ attempts' = [attempts EXCEPT ![a].status = "success", ![a].url = jobs[j].pr]
    /\ errors' = [errors EXCEPT ![attempts[a].error] = "fix_attempted"]
    /\ \/ Goto(j, "finish") /\ UNCHANGED faults
       \/ Goto(j, "failing") /\ Unreported
    /\ UNCHANGED <<projects, repos, github, dirs>>

\* Mutation: the error leaves OPEN whatever the outcome.
FailureClosesError(j) ==
    LET a == jobs[j].attempt IN
    /\ jobs[j].pc = "failing"
    /\ attempts[a].status # "gone"
    /\ attempts' = [attempts EXCEPT ![a].status = "failed", ![a].url = None]
    /\ errors' = [errors EXCEPT ![attempts[a].error] = "fix_attempted"]
    /\ Goto(j, "finish")
    /\ UNCHANGED <<projects, repos, github, dirs, faults>>

\* Mutation: the pr_url of an earlier commit is kept.
FailureKeepsUrl(j) ==
    /\ jobs[j].pc = "failing"
    /\ attempts[jobs[j].attempt].status # "gone"
    /\ attempts' = [attempts EXCEPT ![jobs[j].attempt].status = "failed"]
    /\ Goto(j, "finish")
    /\ UNCHANGED <<projects, repos, errors, github, dirs, faults>>

\* complete_fix_attempt(success=False) in the except block.  If it raises too,
\* the exception leaves run() and the row stays as it is.
RecordFailure(j) ==
    LET a == jobs[j].attempt IN
    /\ jobs[j].pc = "failing"
    /\ Goto(j, "finish")
    /\ \/ /\ attempts[a].status # "gone"
          /\ attempts' = [attempts EXCEPT ![a].status = "failed", ![a].url = None]
          /\ UNCHANGED cut
       \/ cut' = cut \cup {a} /\ UNCHANGED attempts
    /\ UNCHANGED <<projects, repos, errors, github, dirs, kills, unreported>>

\* The finally block removes the clone; arq writes the result and drops the job.
Finish(j) ==
    /\ jobs[j].pc = "finish"
    /\ jobs' = [jobs EXCEPT ![j] = EndedJob]
    /\ dirs' = dirs \ {<<j, jobs[j].try>>}
    /\ UNCHANGED <<database, github, faults>>

\* The attempts in the contexts of some jobs.
HeldBy(js) == {jobs[j].attempt : j \in {k \in js : jobs[k].pc \in Holding}}

\* Mutation: the clone is removed in `except Exception` instead of `finally`.
TimeoutKeepsClone(j) ==
    /\ jobs[j].pc \in Steps
    /\ jobs' = [jobs EXCEPT ![j] = EndedJob]
    /\ cut' = cut \cup HeldBy({j})
    /\ UNCHANGED <<database, github, dirs, kills, unreported>>

\* arq's job_timeout: CancelledError passes `except Exception` and reaches only
\* the finally block; arq does not run a timed-out job again.
Timeout(j) ==
    /\ jobs[j].pc \in Steps
    /\ jobs' = [jobs EXCEPT ![j] = EndedJob]
    /\ dirs' = dirs \ {<<j, jobs[j].try>>}
    /\ cut' = cut \cup HeldBy({j})
    /\ UNCHANGED <<database, github, kills, unreported>>

\* Mutation: the number of tries is not bounded, or not counted.
RequeuedForever(js) ==
    [j \in Jobs |-> IF j \in js THEN QueuedJob(jobs[j].error, jobs[j].try + 1) ELSE jobs[j]]

RequeuedUncounted(js) ==
    [j \in Jobs |-> IF j \in js THEN QueuedJob(jobs[j].error, jobs[j].try) ELSE jobs[j]]

\* arq runs an interrupted job again until max_tries is reached.
Requeued(js) ==
    [j \in Jobs |-> IF j \notin js THEN jobs[j]
                    ELSE IF jobs[j].try < MaxTries
                         THEN QueuedJob(jobs[j].error, jobs[j].try + 1)
                         ELSE EndedJob]

\* SIGTERM: every job of the worker is cancelled, its finally block runs.
Shutdown(w) ==
    /\ Running(w) # {}
    /\ jobs' = Requeued(Running(w))
    /\ dirs' = {d \in dirs : ~ \E j \in Running(w) : d = <<j, jobs[j].try>>}
    /\ cut' = cut \cup HeldBy(Running(w))
    /\ UNCHANGED <<database, github, kills, unreported>>

\* SIGKILL, out of memory, a lost node: nothing of the worker's code runs.
Kill(w) ==
    /\ Running(w) # {}
    /\ kills < MaxKills
    /\ kills' = kills + 1
    /\ cut' = cut \cup HeldBy(Running(w))
    /\ jobs' = Requeued(Running(w))
    /\ UNCHANGED <<database, github, dirs, unreported>>

-----------------------------------------------------------------------------
JobStep(j) ==
    \/ LoadError(j) \/ SkipOrAbort(j) \/ Prepare(j) \/ MarkRunning(j)
    \/ FixInClone(j) \/ StepFails(j) \/ Push(j) \/ CreatePr(j)
    \/ RecordSuccess(j) \/ RecordFailure(j) \/ Finish(j)

Next ==
    \/ \E j \in Jobs, e \in Errors : TriggerFix(j, e)
    \/ \E q \in Projects : DeleteProject(q) \/ ChangeReadiness(q)
    \/ \E q \in Projects, r \in Repos : EditProject(q, r)
    \/ \E p \in Prs : MergePr(p) \/ ClosePr(p)
    \/ \E p \in Prs : FindAttempt(p) \/ MarkMerged(p) \/ LoseWebhook(p)
    \/ \E r \in remote : DeleteBranch(r)
    \/ \E j \in Jobs, w \in Workers : Deliver(j, w)
    \/ \E j \in Jobs : JobStep(j) \/ Timeout(j)
    \/ \E w \in Workers : Shutdown(w) \/ Kill(w)

Spec == Init /\ [][Next]_vars

\* A worker keeps polling Redis, and a running job either advances or is
\* cancelled by arq's job_timeout.
Fairness ==
    /\ \A j \in Jobs : WF_vars(JobStep(j) \/ Timeout(j))
    /\ \A j \in Jobs : WF_vars(\E w \in Workers : Deliver(j, w))

FairSpec == Spec /\ Fairness

-----------------------------------------------------------------------------
(* Properties.                                                             *)

\* Every variable has its type; a job is never tried more than MaxTries times.
TypeOK ==
    /\ projects \in [Projects -> ProjectState]
    /\ repos \in [Projects -> Repos]
    /\ errors \in [Errors -> ErrorStatus]
    /\ attempts \in [Attempts -> AttemptRow]
    /\ jobs \in [Jobs -> Job]
    /\ remote \subseteq Branch
    /\ prs \in [Prs -> PullRequest]
    /\ hooks \in [Prs -> HookState]
    /\ found \in [Prs -> Attempts \cup {None}]
    /\ dirs \subseteq Jobs \X (1..MaxTries)
    /\ kills \in 0..MaxKills /\ unreported \in 0..MaxUnreported
    /\ cut \subseteq Attempts

Rows == {a \in Attempts : attempts[a].status \notin {"free", "gone"}}

\* Two attempts never record the same pull request, however many jobs run for
\* the same error: handle_pr_event's scalar_one_or_none raises otherwise.
UrlIsUnique ==
    \A a, b \in Rows : attempts[a].url # None /\ attempts[a].url = attempts[b].url => a = b

\* A pull request recorded on an attempt was opened by that attempt, on the
\* branch of its own error, and its head is the commit this attempt pushed:
\* a duplicate job never gets its change reviewed under another's record.
RecordedPrIsOwn ==
    \A a \in Rows : attempts[a].url # None =>
        LET pr == prs[attempts[a].url] IN
        /\ pr.by = a
        /\ pr.head = a
        /\ pr.branch = BranchOf[attempts[a].error]

\* An error that left OPEN did so because a pull request was really opened for
\* it: FIX_ATTEMPTED is never set by a failed or interrupted attempt.
FixAttemptedHasPr ==
    \A e \in Errors : errors[e] = "fix_attempted" =>
        \E p \in Prs : /\ prs[p].state # "free"
                       /\ attempts[prs[p].by].error = e

\* pr_url follows the status, also when the except block overwrites a commit that
\* was reported failed.  Only a webhook that loaded the attempt before and writes
\* after it leaves MERGED without a pr_url, so none does while reports are right.
UrlFollowsStatus ==
    \A a \in Rows :
        /\ attempts[a].url # None => attempts[a].status \in {"success", "merged"}
        /\ attempts[a].status = "success" => attempts[a].url # None
        /\ attempts[a].status = "merged" /\ attempts[a].url = None => unreported > 0

\* MERGED is only shown for an attempt whose own pull request GitHub merged; a
\* pr_url shown with it is that of this pull request.
MergedWasMerged ==
    \A a \in Rows : attempts[a].status = "merged" =>
        \E p \in Prs : /\ prs[p].state = "merged"
                       /\ prs[p].by = a
                       /\ attempts[a].url \in {None, p}

\* In each repository reviewers see at most one open pull request per error,
\* although nothing stops several jobs from working on one error at the same
\* time.  Once the project is given another repository, that one may show another.
OneOpenPrPerRepo ==
    \A p, q \in Prs :
        /\ prs[p].state = "open" /\ prs[q].state = "open"
        /\ prs[p].repo = prs[q].repo
        /\ attempts[prs[p].by].error = attempts[prs[q].by].error
        => p = q

Held(a) == \E j \in Jobs : jobs[j].pc \in Holding /\ jobs[j].attempt = a

\* An attempt shown as PENDING or RUNNING is being worked on, unless its job was
\* cut short: cancelled, killed, without a clone directory, or unable to write
\* the failure.  Every other way through run() leaves an outcome; these leave the
\* attempt in progress for good, as no code looks for it again.
OnlyInterruptionsStrand ==
    \A a \in Attempts : attempts[a].status \in {"pending", "running"} => Held(a) \/ a \in cut

\* Clones that belong to no try of a job that is still in run().
LeftClones == {d \in dirs : ~(jobs[d[1]].pc \in Steps /\ jobs[d[1]].try = d[2])}

\* The finally block reaches the clone of every try, whether it returned, raised
\* or was cancelled; only a killed process leaves clones nobody will remove, at
\* most one for each of its jobs.  (rmtree ignores errors: that it succeeds is
\* not claimed.)
OnlyKillsLeaveClones == Cardinality(LeftClones) <= kills * Concurrency

UsedAttempts == {a \in Attempts : attempts[a].status # "free"}
Triggered == {j \in Jobs : jobs[j].pc # "idle"}

\* A trigger pays for at most MaxTries attempts, hence runs of Claude, however
\* often its job is interrupted, and whatever became of the attempts before.
AttemptsAreTries == Cardinality(UsedAttempts) <= Cardinality(Triggered) * MaxTries

\* The steps a job has left in this try, at most.
StepsLeft(pc) ==
    CASE pc = "queued" -> 10 [] pc = "load" -> 9 [] pc = "prepare" -> 8 [] pc = "mark" -> 7
      [] pc = "fix" -> 6 [] pc = "push" -> 5 [] pc = "open_pr" -> 4 [] pc = "record" -> 3
      [] pc = "failing" -> 2 [] pc = "finish" -> 1 [] OTHER -> 0

Rank(job) ==
    IF job.pc \in {"idle", "done"} THEN 0
    ELSE (MaxTries - job.try) * 10 + StepsLeft(job.pc)

ComesCloser(j) ==
    jobs[j].pc = "idle" \/ jobs'[j] = jobs[j] \/ Rank(jobs'[j]) < Rank(jobs[j])

\* Whatever happens to a job once it is queued, a step of its own, a timeout or
\* the loss of its worker, brings it closer to its end: it can be interrupted,
\* but not be kept going for ever.
JobsWindDown == [][\A j \in Jobs : ComesCloser(j)]_vars

-----------------------------------------------------------------------------
(* The inductive invariant behind the safety properties.                   *)

\* What a job knows at each step is still true, whatever happened meanwhile.
JobKnowledge ==
    \A j \in Jobs :
        LET job == jobs[j] a == jobs[j].attempt IN
        /\ job.pc \in Steps \cup {"queued"} => job.error \in Errors /\ job.try # 0
        /\ job.pc \in Holding =>
              /\ a \in Attempts
              /\ attempts[a].error = job.error
              /\ job.repo \in Repos
              /\ attempts[a].status # "free"
        /\ job.pc = "mark" => attempts[a].status \in {"pending", "gone"}
        /\ job.pc \in {"fix", "push", "open_pr", "record"} =>
              attempts[a].status \in {"running", "gone"}
        /\ job.pc = "open_pr" =>
              [repo |-> job.repo, branch |-> BranchOf[job.error], head |-> a] \in remote
        /\ job.pc = "record" =>
              /\ job.pr \in Prs
              /\ prs[job.pr].state # "free"
              /\ prs[job.pr].by = a /\ prs[job.pr].head = a
              /\ prs[job.pr].branch = BranchOf[job.error]

\* No two jobs, and no two tries of a job, work on one attempt.
HeldByOneJob ==
    \A j, k \in Jobs :
        /\ jobs[j].pc \in Holding /\ jobs[k].pc \in Holding
        /\ jobs[j].attempt = jobs[k].attempt
        => j = k

OneHeadPerBranch == \A r, s \in remote : r.repo = s.repo /\ r.branch = s.branch => r = s

AttemptsKnown ==
    \A a \in Attempts :
        /\ attempts[a].status = "free" <=> attempts[a].error = None
        /\ attempts[a].status \in {"free", "pending", "running", "failed"} =>
              attempts[a].url = None
        /\ attempts[a].status = "success" => attempts[a].url # None
        /\ attempts[a].url # None =>
              /\ prs[attempts[a].url].state # "free"
              /\ prs[attempts[a].url].by = a /\ prs[attempts[a].url].head = a
              /\ prs[attempts[a].url].branch = BranchOf[attempts[a].error]

PrsKnown ==
    \A p \in Prs : prs[p].state # "free" =>
        /\ prs[p].by \in Attempts
        /\ attempts[prs[p].by].status # "free"

\* What the handler of a merge found is still its attempt, whatever was written
\* to it since.
FoundKnown ==
    \A p \in Prs : hooks[p] = "found" =>
        /\ found[p] \in Attempts
        /\ prs[p].state = "merged" /\ prs[p].by = found[p]
        /\ attempts[found[p]].status \notin {"free", "pending", "running"}
        /\ attempts[found[p]].url \in {None, p}

\* Every part is needed: RecordedPrIsOwn comes from AttemptsKnown, whose only
\* interesting step is RecordSuccess, which needs what the job knows at
\* "record", which needs at "open_pr" that the branch still has its own head.
IInv ==
    /\ TypeOK
    /\ JobKnowledge
    /\ HeldByOneJob
    /\ OneHeadPerBranch
    /\ AttemptsKnown
    /\ PrsKnown
    /\ FoundKnown
    /\ FixAttemptedHasPr
    /\ MergedWasMerged

\* Why a repository has one open pull request per error: each is the only one of
\* its attempt, was opened on the branch of the attempt's error, and that branch
\* still has the attempt's head.
PrsApart ==
    /\ \A p \in Prs : prs[p].state # "free" =>
          prs[p].branch = BranchOf[attempts[prs[p].by].error]
    /\ \A p \in Prs : prs[p].state = "open" =>
          [repo |-> prs[p].repo, branch |-> prs[p].branch, head |-> prs[p].by] \in remote
    /\ \A p, q \in Prs :
          prs[p].state # "free" /\ prs[q].state # "free" /\ prs[p].by = prs[q].by => p = q
    /\ \A j \in Jobs, p \in Prs :
          /\ jobs[j].pc \in {"mark", "fix", "push", "open_pr"}
          /\ prs[p].state # "free"
          => prs[p].by # jobs[j].attempt

\* The tries of jobs that are past the insert of their attempt, or never will be.
TriesSpent ==
    {t \in Jobs \X (1..MaxTries) :
        LET job == jobs[t[1]] IN
        \/ job.pc = "done"
        \/ job.pc # "idle" /\ t[2] < job.try
        \/ job.pc \in Holding \cup {"finish"} /\ t[2] = job.try}

\* Why attempts are bounded: each one used up a try of its own.
AttemptsPaid ==
    IsFiniteSet(UsedAttempts) /\ Cardinality(UsedAttempts) <= Cardinality(TriesSpent)

\* How many jobs a killed worker can have had.
SlotsKept ==
    \A w \in Workers : IsFiniteSet(Running(w)) /\ Cardinality(Running(w)) <= Concurrency

-----------------------------------------------------------------------------
Lifecycle == INSTANCE FixLifecycle WITH
    error <- errors,
    status <- [a \in Attempts |-> attempts[a].status],
    subject <- [a \in Attempts |-> attempts[a].error]

\* As long as no commit is wrongly reported failed, attempts and errors go
\* through the life FixLifecycle allows, whatever jobs, crashes and webhooks do:
\* MERGED only after SUCCESS, FAILED for good, SUCCESS together with the error.
ImplementsLifecycle == Lifecycle!Spec

\* Every queued job ends: retries are bounded and a hung step is cancelled.
QueuedJobEnds == \A j \in Jobs : jobs[j].pc = "queued" ~> jobs[j].pc = "done"
=============================================================================
