# Oopsie in TLA+

Oopsie receives error reports over HTTP, folds them into one row per
fingerprint, and, when a member presses "fix", lets a background worker run
Claude Code on a clone of the project's repository and open a pull request.
This directory specifies the parts of it that are hard to get right and hard to
test, checks them with TLC on small instances, and proves the main safety
properties with TLAPS for instances of every size. Paths below are relative to
`src/oopsie/`.

## 1. Inventory

Processes: any number of web processes (FastAPI, several requests at a time in
each), any number of arq workers (`WORKER_CONCURRENCY` jobs at a time in each).
They share PostgreSQL (READ COMMITTED, one transaction per request, or per
`async with worker_session()` in a worker) and Redis (arq's queue, sessions).
Git, GitHub and Claude are outside.

| component | state | operations | what makes it correct | model |
|---|---|---|---|---|
| fix pipeline (`queue.py`, `worker/`, `services/pipeline_service.py`, `fix_service.py`, `github_service.py`, `claude_service.py`) | arq jobs, `fix_attempts`, `errors.status`, clone directories, branches and pull requests | trigger, deliver, the steps of `run`, timeout, shutdown, kill | an attempt records its own pull request only; an error leaves OPEN only with one; a repository has one open pull request per error; retries and duplicates do no harm; jobs end, with an outcome unless they are cut short | `FixPipeline`, `FixLifecycle` |
| pull request webhook (`routers/github.py`, `handle_pr_event`) | `fix_attempts.status` | merge, close, the SELECT and the UPDATE of the handler, loss | MERGED means merged; a merge finds its attempt | `FixPipeline` |
| ingestion (`services/error_service.py`, `routers/api/errors.py`, `utils/fingerprint.py`) | `errors`, `error_occurrences` | one upsert per report | one row per fingerprint, no report lost or counted twice, no waiting for ever | `ErrorIngest` |
| membership (`services/membership_service.py`, `RequireRole`) | `memberships.role` | change a role, remove, join | an owner remains; nobody gains rank but by an owner; removal is final | `Membership` |
| registration and invitations (`auth.py`, `invitation_service.py`, `signup_request_service.py`, `bootstrap_service.py`, `utils/slug.py`) | users, organizations, invitations, signup requests | login, invite, accept, approve, reject, bootstrap | one membership per user; nobody is locked out; one organization per invitation | `Registration` |
| GitHub App installation (`github_installation_service.py`, `github_app_service.py`, `routers/github.py`) | `github_installations`, the install flow in the browser's signed cookie | start a flow, callback, installation events | an organization has only what was named in a flow of its own; the status follows GitHub's | `GithubInstallation`; seen as readiness in `FixPipeline` |
| sessions (`session.py`, `routers/auth.py`, `routers/dependencies.py`, `middleware/org_slug.py`) | Redis keys with a time to live, cookies | login, read, evict, extend, logout, expiry | a logout is final; a session is no membership; none lives for ever | `Sessions`, `SessionLife` |
| projects (`routers/web/projects.py`, `anthropic_key_service.py`) | `projects` | create, edit, regenerate the API key, delete | a repository is one of the organization's installation; an edit undoes nothing that happened while it waited | `ProjectRepos`; readiness and repository in `FixPipeline` |
| organization settings (`routers/web/settings.py`) | the organization's Anthropic key | set, clear | one assignment | readiness only |
| pages, prompts, limits, logging, configuration, migrations | none of its own | — | — | not modelled |

What is hard here:

* nothing stops two jobs from working on one error (`enqueue_fix_job` passes no
  job id; `has_active_fix_attempt` is never called); both use the same branch
  name, and two errors whose ids share 8 characters do too;
* `run` decides once that the error is OPEN and writes minutes later, to the
  repository its project had at the start;
* each of git, Claude, GitHub and PostgreSQL can fail at each call, and a write
  can take effect and still be reported failed;
* cancellation is not an `Exception`, so a timeout or shutdown skips the
  `except` block that records a failure, and a killed process runs nothing;
  arq then runs an interrupted job again from its start;
* a webhook can overtake the commit it refers to, is never repeated, and writes
  after another transaction may have changed the row it selected;
* reports and membership changes are read-then-write transactions without
  locks, so two of them can act on the same stale read;
* who may join which organization is decided by reads of four tables in three
  kinds of requests; only unique constraints and one FOR UPDATE hold when
  those overlap;
* installation webhooks have no version, are not repeated, and find their row by
  an id that is not unique, beside callbacks that rebind it;
* sessions live in Redis and what they stand for in PostgreSQL: each is written
  before or after the other, either can fail, and a request that read one may
  act after it is gone;
* a project form waits for an answer of GitHub between reading a row and
  writing it.

`PROJECT.json` lists these hazards with their lines and the properties that
would catch each.

## 2. Modules

| module | role |
|---|---|
| `FixLifecycle` | abstract specification: the life of an attempt and the one step at which its error leaves OPEN |
| `FixPipeline` | queue, workers, jobs, git, GitHub, webhook; refines `FixLifecycle` |
| `FixPipelineProofs` | its inductive invariant and the theorems that follow from it, and from invariants of their own about pull requests, slots, clones, tries and attempts in progress |
| `FixRefinementProofs` | it implements `FixLifecycle`; what becomes of `pr_url` when a write is reported failed |
| `ErrorIngest`, `ErrorIngestProofs` | concurrent reports, and their theorems |
| `Membership`, `MembershipProofs` | role changes and removals, and their theorems |
| `Registration`, `RegistrationProofs` | bootstrap, logins, invitations, signup requests and changes of members, and their theorems |
| `SessionLife` | abstract specification: a token is issued to one user once, and what ended stays ended |
| `Sessions`, `SessionsProofs` | login sessions beside logins, logouts and removals; refine `SessionLife` |
| `GithubInstallation`, `GithubInstallationProofs` | install flows and installation webhooks, and their theorems |
| `ProjectRepos`, `ProjectReposProofs` | extends `GithubInstallation` with the projects that depend on it, and their theorems |
| `MC*` | constants and symmetry of the TLC instances |

Operators introduced by a comment "Mutation: ..." are no part of a
specification. Each is a plausible bug of the operator defined after it;
`PROJECT.json` says which property fails when it takes that operator's place.

### FixPipeline

A step of a job is the code between two points at which another process can act
on shared state. `jobs[j].pc` is that point:

| `pc` | code (`pipeline_service.py`) | next |
|---|---|---|
| `queued` | the job is in Redis | `Deliver` |
| `load` | `session.get(Error)` (56) | `LoadError`: `prepare`, or `finish` if not OPEN |
| `prepare` | project, installation, key, insert of the attempt (61–128), commit, `mkdtemp` (232) | `Prepare`, `SkipOrAbort` |
| `mark` | `mark_fix_attempt_running` (237) | `MarkRunning` |
| `fix` | token, clone, branch, Claude, `has_changes` (178–204) | `FixInClone` |
| `push` | `commit_and_push` (207) | `Push` |
| `open_pr` | `create_pull_request` (211) | `CreatePr` |
| `record` | `complete_fix_attempt(success=True)` (242) | `RecordSuccess` |
| `failing` | the `except` block (251–260) | `RecordFailure` |
| `finish` | `finally`, and arq's own bookkeeping | `Finish` |

`StepFails` is every exception without an effect inside the `try` block. An
unreported write — `Push`, `CreatePr`, `RecordSuccess` going to `failing` — is
one that took effect and still raised. `Timeout` is arq's `job_timeout`: the
`finally` block runs, the `except` block does not, the job is not retried.
`Shutdown` (SIGTERM) cancels all jobs of a worker and puts them back in the
queue, up to arq's `max_tries`; `Kill` does the same without any cleanup.

A transaction of a job that writes one row after reading it by primary key is
one step. SQLAlchemy writes the columns that differ from what was read; here
these are the same whatever others wrote in between: only the webhook and the
cascade of a project's deletion touch a job's attempt, its status is set to one
it never has before, nobody else sets its `pr_url`, and `errors.status` is only
ever set to the same value. (An UPDATE of a row that the cascade took fails, as
reading nothing would.) The webhook is two steps, because whether it writes
depends on what it read: `FindAttempt` is the test of `merged` and the SELECT by
`pr_url`, with the row in `found`, and `MarkMerged` the UPDATE of the status
alone. In between `RecordFailure` may
clear the `pr_url` of a commit that was reported failed, which leaves MERGED
without one: `UrlFollowsStatus` says that nothing else does.

`repos` is the `github_repo_url` of each project. `EditProject` changes it, with
no regard for errors, attempts and jobs; `Prepare` copies it into the job's
context, and `Push` and `CreatePr` go to that repository. Branches and pull
requests are those of a repository, so after an edit a second job of an error
may open a second pull request, in the other one; `OneOpenPrPerRepo` claims one
for each. A project is `ready` when its organization has an ACTIVE installation
and a key resolves for it; `ChangeReadiness` stands for everything else that
changes that.

`cut` is auxiliary: the attempts whose job ended without writing an outcome,
because it was cancelled or killed, found no room for a clone after the insert,
or failed to write the failure. `OnlyInterruptionsStrand` says that no other
attempt stays PENDING or RUNNING with nobody at work on it.

`fix_merged` and `ignored` are members of the type because the code declares
them; no code sets them.

### FixLifecycle

`free -> pending -> running -> success -> merged`, `failed` from `pending` or
`running`, `gone` from anywhere. `Succeed` changes attempt and error in one
step. The refinement maps an attempt to its status and its error. It holds when
no commit is wrongly reported failed (`MaxUnreported = 0`): with such a commit
the `except` block takes SUCCESS, or even MERGED, back to FAILED while the error
stays FIX_ATTEMPTED.

### ErrorIngest

A request is one transaction: `Receive` is the select, `Update`/`Insert` the
flushes, which take the lock of the row or of the unique index entry and wait
for whoever holds it, `Commit` and `Abort` the end. Uncommitted writes are in
`requests`, committed ones in `errors` and `occurrences`. The value written is
the count that was *read*, plus one. `Conflict` is the IntegrityError (or the
UPDATE of a deleted row) that answers 500. Identities of rows are never used
again, as UUIDs are not.

`overlapping` is auxiliary: the reports that arrived while another one of the same
error was under way. The code loses updates (`ingest_count` shows one), and
`CountMissesOnlyOverlaps` says how many at most: no report that met no other one
on arrival is lost by anything that happens later.

### Membership

`Authorize` is `RequireRole`, `LoadTarget` the select with the permission check,
`CountOwners` is `_count_owners`, `Flush` the UPDATE or DELETE with its lock,
`Commit` and `Abort` the end of the request. A request that concerns the
actor's own row sees the role `RequireRole` loaded, because the session's
identity map keeps it (`SeenRole`). An update to the role already read emits no
UPDATE. `Join` stands for `accept_invitation`.

`overlapped` is auxiliary: it becomes TRUE when a request opens beside another
one. Until then nothing that was read is stale (`Serial`), and an owner remains
(`OwnerUntilOverlap`); `HasOwner` without it is what `members_last_owner` sees
violated.

### Registration

`requests[r].pc` is the next statement of an open transaction:

| `pc` | code | next |
|---|---|---|
| `idle` | no request | `ReadUser`, `StartInvite`, `StartSignup`, `LockSignup` |
| `login` | `get_pending_org_creation_invitations` (`auth.py` 207) | `ReadOpenings` |
| `offered` | `get_pending_invitations` (220) | `ReadInvitations` |
| `registering` | `upsert_user`, accept, delete the rest, commit (226-268) | `Register` |
| `inviting` | `has_membership_by_email` (`invitation_service.py` 36) | `CheckMembership` |
| `eligible` | an invitation elsewhere? (40) | `CheckElsewhere` |
| `unrivalled` | an org-creation invitation? (52) | `CheckOpening` |
| `cleared` | update or insert, commit (60-94) | `SaveInvitation` |
| `signing_up` | check and insert, commit (`signup_request_service.py` 34-56) | `SaveSignup` |
| `approving` | `has_membership_by_email` (105), with the row locked | `CheckApplicant` |
| `approved` | write the decision, commit (110-130) | `SaveApproval` |

An org-creation invitation is a member of `openings`: `signup_request_id` is
unique, so its signup request identifies it and its address. `Bootstrap`,
`Reject` and `RevokeInvitation` are one step each: they check and write what
they have locked or what a unique key identifies. (Two processes that bootstrap
both use the slug of ORG_NAME, so the second fails on its unique index.)

A change of a member, `update_member_role` or `remove_member`, is two steps:
`StartChange` reads the actor and the member, decides whether this is permitted
and counts the owners, and `SaveChange` writes what was decided, however the
member, the actor and the owners have changed since; `AbortChange` is a failure.
`changing[c]` is what the request has read and wants. A row that another change
deleted is not written again (`RemovedForGood` in `Membership`, where the reads
are steps of their own). Two such changes can take the last owner away; `raced`
is auxiliary, the organizations of which two changes were open at one time, and
`OrganizationsHaveOwners` speaks of the others.

The writes of a request are one step, at its commit. Between flush and commit
nobody else sees them, and another request that would write the same row or the
same unique key waits for the commit; it then sees it, or fails (`Abort`). An
insert and the SELECT that precedes it are also one step where the key is unique
(`SaveInvitation`, `SaveSignup`): a request that lost the race is an `Abort`, or
the page that a duplicate gets. `Insertable` is `uq_membership_user` alone,
because `upsert_user` looks for the user a second time.

`overlapped` is auxiliary. It becomes TRUE when a request opens while another is
open, and separates what the checks achieve by themselves (`SingleOrgModel`)
from what the database enforces at all times (`OneOrganizationPerUser`).

### Sessions, SessionLife

A key of Redis is `unused`, a `hash`, a `string` (from before sessions were
hashes; reading one deletes it) or `gone`, with a time to live that `Tick`
counts down. `requests[r].pc` is where a request of a client is:

| `pc` | code | next |
|---|---|---|
| `idle` | no request | `Resolve`, `Send` |
| `resolved` | `create_session` (`routers/auth.py` 85) | `CreateSession` |
| `created` | the commit and the `Set-Cookie`, in either order (`todo`) | `Commit`, `Respond` |
| `sent` | `OrgSlugMiddleware` has read the organization of the session; `get_session_user_id`, or `delete_session` | `ReadSession`, `Logout` |
| `known` | the SELECT of the user (`dependencies.py` 88) or of the membership (145) | `ReadUser`, `ReadMembership`, `Unauthorized` |
| `member` | `extend_session` (104, 168) | `Extend` |
| `served` | the page | `Finish` |

`Send` is any client with any token that was ever sent to one, also after a
logout. HGET and EXPIRE may fail at every call, so may the database. The landing
page is here as the one place that leads somewhere by `org_slug`; all other
pages name an organization in their path. `since` is auxiliary: the
organizations the user has been a member of since the session was read. That is
the strongest claim that holds, because nothing keeps a removal out between the
SELECT and the page.

`SessionLife` knows `unused`, `live` and `ended` and the owner of a token. The
refinement maps the kinds of key to them. It is the order of `extend_session`
and `delete_session` that could break it: EXPIRE of a key that is gone does
nothing, where writing the session again would revive it.

### GithubInstallation

`github` is the truth at GitHub, `events` the webhooks under way, `rows` the
table, `cookie` the flow in the browser's session cookie (of one browser: each
has its own, and flows of different browsers only meet in `rows`). A handler
loads a row (`LoadRow`, `Deliver`) and writes it later (`SaveInstallation`,
`Apply`), and an UPDATE sets only the columns that differ from what was loaded
(`Updated`). `RewriteCookie` is what the signed cookie allows: any page that
answers late brings back the content it was sent with. An installation id is
never used again. `Change` counts the events of an installation, up to
`MaxEvents`; `n` is only compared in `disturbed`.

The callback compares the state in its URL with the cookie and believes the
`installation_id` in it: nothing asks GitHub whether that installation was
granted in this flow, nor to whom. `Callback` therefore takes any installation,
and `BoundByOwnFlow` says what comparing the state achieves and no more: the
installation of an organization was named together with the state of a flow that
was started for this organization (`named` is auxiliary, these pairs).

`disturbed` is auxiliary and names everything that makes a status wrong for
good: an event that was lost, failed or was overtaken, a handler beside another
one on the row, a callback that named it when it was not active, and two
organizations that have the same one. `StatusFollowsGithub` says that there is
nothing else.

### ProjectRepos

It extends `GithubInstallation` (`ProjectNext` is a step of either, the other
unchanged) with `projects` and the forms that are being processed:

| `pc` | code | next |
|---|---|---|
| `idle` | no request | `SubmitNew`, `SubmitEdit` (with the row as `_get_org_project` read it) |
| `found` | `get_installation_repos`: the installation (63-71) | `GetInstallation` |
| `connected` | the call of GitHub (74) | `ListRepos` |
| `listed` | the check, and the write | `RejectForm`, `CreateProject`, `UpdateProject` |

A form has two of the fields, the repository, which is checked, and the
Anthropic key, which may be set, cleared or kept; the others are treated like
the repository without its check. `key` counts the API keys of a project, of
which the last is valid. `from` is auxiliary: the installation on whose list the
repository was found. Whether that installation is the organization's own to
use, the callback has not asked (see `GithubInstallation`). `Regenerate` and
`DeleteProject` read and write by primary key and are one step. A list is any
part of the account's repositories: GitHub may grant only some, and one page has
at most 100.

## 3. Runs

| run | shows | distinct states |
|---|---|---|
| `fix_duplicates` | safety and refinement with two jobs, each tried twice, for one error; timeouts, shutdowns, one kill; what these leave behind, in clones and attempts, is bounded and nothing else leaves it | 1,696,781 |
| `fix_unreported` | two errors with one branch name, two repositories and one unreported write | 1,258,860 |
| `fix_liveness` | each step brings a job closer to its end, and jobs end | 257,067 |
| `ingest_reports` | three reports of one error, one of another project, one failure; counts miss only overlapping reports; every report is answered | 207,893 |
| `members_races` | two overlapping requests, three members; until the first overlap an owner remains | 1,061,333 |
| `registration` | any two overlapping requests, three people, two organizations, three invitations, one signup request, one change of a member at a time (no deadlock either) | 1,564,666 |
| `sessions` | two requests, two tokens, one person, two organizations: safety, refinement, and that sessions end (no deadlock either) | 1,010,771 |
| `installation` | two organizations, installations, flows and handlers, two events each | 2,929,088 |
| `project_repos` | one project and one form beside two organizations and installations and one flow | 645,867 |

In `fix_duplicates`, `ingest_reports`, `registration` and `members_races` the type
invariant is checked as a part of `IInv` or `SerialInv`.

Runs that end in a violation, each contradicting what a doc, comment or test
says (see "findings"):

| run | what happens |
|---|---|
| `ingest_count` | two overlapping reports, two occurrences, the count raised once |
| `members_last_owner` | two overlapping removals leave no owner |
| `registration_lockout` | a signup request is approved while its address accepts an invitation: the member's later logins all fail |

Some more disagreements have no run of their own. `enqueue_fix_job` promises
"Deduplicates by error_id" (`queue.py:30`) but passes no job id, which is why
`fix_duplicates` has two jobs for one error. An admin who was permitted to
remove a member removes an owner if the member was promoted in between, in
spite of "Raises PermissionError if the actor lacks sufficient privileges"
(`membership_service.py:117`); `members_races` reaches it. An invitation that
was revoked after a login read it is still accepted, and two racing first
logins of one person can spend one invitation twice if the membership is removed
between them, where `auth.py:112` says that it "is single-use"; `registration`
reaches both. A member who was removed and is invited again never gets in: the
login of a known user does not look at invitations (`UsersJoinByFounding`), and
neither the invitation nor the page says so.

A merge event that is handled before the commit of `pr_url`, or after the worker
died there, matches no attempt and is dropped, where
`github_installation_service.py:202` says "this is normal when a merged PR wasn't
opened by Oopsie"; `fix_duplicates` and `fix_unreported` reach it (`hooks` is
`unmatched`). Of two overlapping first reports of an error the second violates
the unique index and is answered 500, where `routers/api/errors.py:23` says
"Returns 202 Accepted"; `ingest_reports` reaches it (`Conflict`). A comment in
`routers/web/projects.py:119-120` says that the check "covers both
no-installation and repos the GitHub App cannot access", but an empty list,
which is what an organization without an active installation has, switches the
check off; `project_repos` reaches it (`from` is `None`). The key that a
regeneration shows is kept in the session cookie, without the project it belongs
to: "it's only shown once after regeneration" (line 158) holds unless a page that
answers late brings the cookie back, and another project's page may show it. The
job timeout and Claude's are both `JOB_TIMEOUT_SECONDS` and arq's starts first,
so the timeout of which `claude_service.py:83` says "Raises ClaudeCodeError on
failure or timeout" never gets to do so. `_INSTALLATION_ACTION_MAP` has
"suspended" and "unsuspended"; if GitHub calls these actions otherwise, such
events are ignored.

Two concern the repository's README. It says (lines 9 and 17) that an error that
crosses its threshold starts a fix, but `Project.error_threshold` is stored and
never read, and only `trigger_fix_action` enqueues a job. It says (line 65) that
reports of one class and message are one error, but the fingerprint also covers
the first line of the stack trace (`utils/fingerprint.py:16`).

**Bounds.** Every property relates at most two attempts, two jobs, two pull
requests or two requests, so two of each, with one to spare where a third can
disturb them, reach every pattern; the proofs then cover any number.
`FixPipeline`: 2 jobs, 2–3 attempts, 1–2 pull requests, 2 repositories (the one
before an edit and the one after) where a property speaks of them, 1 worker,
`MaxTries` 1–2 (arq's default is 5: the second try is the first that can meet
what an earlier one left), `MaxKills` 0–1, `MaxUnreported` 0–1. One worker
suffices in the runs because jobs only share a worker when it stops.
`ErrorIngest`: 4 requests, 2–3 rows, `MaxFailures` 0–1. `Membership`: 3 members,
2 requests. `Sessions`: 1 person and 2 tokens, because nothing relates the
sessions of two people; 2 organizations are the one left and the one joined;
`Ttl` 2 tells extended from not. `GithubInstallation`: 2 of everything,
`MaxEvents` 2, which is the least where an event can be overtaken.
`ProjectRepos`: 1 handler, 1 flow (each callback may name either installation,
so one flow rebinds its organization as often as two would), no events (an empty
list stands for a suspended installation too), 1 project, 1 form, and 2 keys,
which tell old from new; what disturbs a form is what other requests do to its
project and installation, and deletion, regeneration and rebinding supply that;
overlapping edits are covered by the proof. `Registration`: `Slots` bounds the
requests and changes that are open together to 2; the third person is the rival
or the inviter of the other two, as when two organizations invite one address; 3
invitations are the bootstrap's and one of each organization; the second
organization is the one an applicant creates. One change is open at a time,
beside any other request: changes that overlap each other are checked in
`Membership` and covered by the proof here. The violation takes 19 steps with 2
people and 2 invitations.

Symmetry is used over attempts, pull requests, jobs and repositories, in
`Registration` over everything but the admin, in `GithubInstallation` over every
set, and in `ProjectRepos` over organizations and over accounts together with
their repositories; in runs without liveness properties only, and no cfg treats
two of them differently.

**Deadlock.** `CHECK_DEADLOCK FALSE` wherever identities run out (jobs,
attempts, reports, memberships, flows, projects are used once), so the system
may stop. `registration` and `sessions` check it: requests are reused.

**Fairness.** A job either takes its next step or is cancelled by `job_timeout`,
which arq enforces; a worker keeps polling the queue; GitHub delivers an event
once or not at all; the web process keeps running a request it received
(PostgreSQL's locks end with their transaction). Nothing is assumed of members,
reviewers, shutdowns or kills. In `Sessions` only time is certain to pass; no
client has to do anything, and `AbandonedSessionsEnd` needs nothing of them.
`Deliver` needs only weak fairness: with one slot, the jobs that hold it end,
and a freed slot stays free until a queued job takes it, but another job might
take it each time: the number of jobs is finite, so each has its turn.

## 4. Proofs

All are checked by `tlapm` from the ASSUMEs on the constants only (which TLC
evaluates in every run) and hold for any sets of attempts, jobs, workers,
reports, members, tokens, installations, projects and requests, finite or not
where the assumption does not say.

**FixPipelineProofs.** `RecordedPrIsOwn` is not inductive: that an attempt's
`pr_url` is its own pull request is decided at `RecordSuccess`, which knows it
from the job's state at `record`, which knows from `open_pr` that the branch
still had the job's own head when the pull request was opened. `IInv` adds what
a job knows at every step (`JobKnowledge`), that no two jobs hold one attempt
(`HeldByOneJob`), one head per branch (`OneHeadPerBranch`), and what attempts
and pull requests say about each other (`AttemptsKnown`, `PrsKnown`), and that
what a webhook has selected is still the attempt of its pull request, whatever
was written to it since (`FoundKnown`). The proof has one step per action and
under it one per conjunct. From `IInv` follow `TypeOK`, `RecordedPrIsOwn`,
`UrlIsUnique` (the pull request names its attempt), `FixAttemptedHasPr` and
`MergedWasMerged`, with unreported writes, edits of the repository and branch
names that collide. Six more results take an invariant of their own:

* `OneOpenPrPerRepo` from `PrsApart`: every pull request is on the branch of its
  attempt's error, which no step changes (`RowKeepsItsError`), and as long as it
  is open that branch has its attempt's head. A branch has one head in a
  repository, so two that are open there for one error would be of one attempt;
  but no attempt opens two.
* `OnlyInterruptionsStrand`: each step of a job that gives up its attempt writes
  an outcome or adds the attempt to `cut` (`JobStepStrandsNone`), a cancellation
  or a kill adds those of all jobs it ends (`InterruptionStrands`), and no other
  step touches an attempt in progress (`OthersStrandNone`).
* `SlotsKept`, that a worker runs at most `Concurrency` jobs: only `Deliver`
  adds one, after counting (`SlotsStep`).
* `OnlyKillsLeaveClones`: `ClonesStep` goes through all actions and finds that
  each but `Kill` takes the clones of the tries it ends with it, and that a kill
  leaves one for each job of its worker, of which `SlotsKept` counts the most.
* `AttemptsAreTries`, for finitely many jobs, from `AttemptsPaid`: there are no
  more attempts than `TriesSpent`. An insert spends the try it belongs to
  (`PrepareSpends`), and a try that is spent stays so (`SpentStays`).
* `JobsWindDown`: no step raises the `Rank` of a triggered job, `MaxTries - try`
  times ten and the steps left, and each step that changes the job lowers it.

**FixRefinementProofs.** `UrlCorrect`: `UrlFollowsStatus` needs, beyond `IInv`,
that outcomes are final until a write is reported failed (`OutcomesFinal`, proved
as long as `unreported = 0`, which once left is never restored,
`ReportsAreCounted`); a webhook then finds the `pr_url` it selected by, and only
after such a write may it not. `Implements`: if `MaxUnreported = 0`, then
`Spec => ImplementsLifecycle`. Besides `IInv` it needs `FailingIsUnsettled`, that
the `except` block is only reached with an attempt that is still pending,
running or gone; this is what an unreported commit breaks. Each action then maps
to one action of the lifecycle or to none.

**ErrorIngestProofs.** `IInv` adds what each request knows about its row while
others write it (`RequestsKnown`: the count read is at most the occurrences
committed, also at the time of the write, because occurrences only grow), that
two uncommitted writes never share a row or key (`WritesApart`), and that unused
identities are blank (`FreeRows`). Lost updates therefore only ever lower the
count. Theorems: `OneRowPerFingerprint`, `CountNeverExceeds`,
`AcceptedInOwnError`; and, with finitely many requests,
`CountMissesOnlyOverlaps`. The invariant of the last one (`LossInv`) says that
of the reports of one error under way only the first is not in `overlapping`
(`OneFirst`), and that the count a report has read falls short of those accepted
alone by at most that first one (`SeenKnown`): when it is accepted, the others
have read no less than it had, and until all of them are gone no further report
arrives alone. It also needs that the occurrences of a row are the accepted
reports of its error (the lemma `OccurrencesCounted`: a row that a commit
creates was blank, so no accepted report named it). Both give
`ExactUntilOverlap`: the count is exact until two reports of one error overlap,
as they do in `ingest_count`.

**MembershipProofs.** `IInv` says that each write was permitted on what its
request read and that one request holds each row lock; `RaisedByOwner` and
`RemovedForGood` are action properties proved from it. `LastOwnerStays` needs
`SerialInv`: until requests overlap, one is open at most, nothing that it read is
stale, and past `CountOwners` one that takes an owner's role away has seen another
owner.

**RegistrationProofs.** `IInv` says which of the things a request read it may
rely on later (`StillSo`): that a user or an organization exists, that a signup
request it lists is approved, or pending and locked by it alone
(`ReviewedByOne`). What it found absent is not among them: there the unique
constraints stand in (`Insertable`), which gives `OneOrganizationPerUser`.
`OrganizationsHaveOwners` needs a case split over the whole system. Before the
first login there is one organization, no user, and no request that could do
more than accept the bootstrap invitation (`BeforeFirstLogin`); that login makes
an owner, and from then on every organization that is not in `raced` has one
(`AfterFirstLogin`). A change that takes an owner's role away has counted the
owners before it writes; `ChangeKnown` says that as long as its organization is
not in `raced` no other change of it is open, so the row is as it was read and
the other owner is still there, because only changes remove members. The action
properties `DecisionsAreFinal`, `FoundedOnApproval` and `UsersJoinByFounding`
follow from what `Registers` says about the one step that writes memberships,
and from the lock. `SingleOrgModel` is about what a request found absent after
all, and needs `SerialInv`: until requests overlap, one is open at most
(`OneAtATime`) and it has missed nothing (`NothingMissed`), because what may
happen beside it (changes of members, revocations, rejections, and a bootstrap
before there is any user) removes rows or adds none for its person. A login has
then read every invitation and opening of its person when it spends them, and an
invitation or approval goes to somebody who has neither.

**SessionsProofs.** `IInv` says that each used key has an owner, that only live
ones have time left, and what a request knows at each step (`Fit`): the
organization it is about to use is in `since`. `Fit` takes the memberships as a
parameter, so that one lemma says what a step of another request leaves alone.
`MembersOnly` follows. `SessionsImplementLife` maps each action to a step of
`SessionLife` or a stutter: creation to `Begin`; logout, eviction and any number
of expiries at once to `End`; everything else to nothing, `Extend` among it.

**GithubInstallationProofs.** `StatusFollowsGithub` is about quiet moments, so
the invariant has to say what holds before them: an undisturbed installation with
an unhandled event has its newest one under way or in a handler
(`NewestRemains`), that one tells the state at GitHub (`Truthful`), and what a
handler loaded is still so unless the installations involved are disturbed
(`Handler`, `WritersDisturb`, `SharersDisturb`). The lemmas `RowWritten` and
`PendingStays` carry the two halves through the actions that write a row and
those that move events.

**ProjectReposProofs.** `InstallationsAlone` shows that the composition
implements `GithubInstallation`'s specification, which hands its invariant, and
`OnlyOwnFlows` in particular, to `OnlyOwnRepos`: a form that was answered knows
that its installation was named in a flow of its organization (`FormKnows`), a
fact that no later event takes back (`NamesStay`). `EditsReviveNothing` is
proved for any number of overlapping forms.

**Only model-checked.** Liveness (`QueuedJobEnds`, `EveryRequestAnswered`,
`AbandonedSessionsEnd`), because it rests on fairness, which the provers do not
reach; of `QueuedJobEnds` the part without it is proved (`JobsWindDown`). Every
invariant and every action property of a passing run is proved.

## 5. Assumptions and what is left out

* Nobody deletes a branch in the moment between its push and the creation of
  its pull request (`DeleteBranch`); with it, another attempt's head could be
  reviewed under this attempt's record.
* A call that is cancelled had already taken effect or never does. A git
  process is not killed with its job and may push a little later; `dirs` only
  says for which clones `rmtree` was called, not that it succeeded.
* The job timeout and Claude's own timeout are both nondeterministic, and either
  may come first; to tell them apart would take clocks.
* Whether the 202 of a report is sent before or after its commit depends on
  the version of FastAPI, which is not pinned; a report counts as accepted when
  it is committed, and a login may commit before or after its page is sent.
* Two edits of one project at a time may each write some columns; that the row is
  then of neither form is what `Edited` does, and no property forbids it.
* GitHub sends the action names that the code expects, and never reuses an
  installation id. Nothing is assumed of the `installation_id` in a callback's
  URL, nor that an account is bound to one organization only.
* An edit of a project may also change its name and `default_branch`; neither
  decides which branch is pushed or which pull request is open, so `EditProject`
  changes the repository alone.
* Between the checks of a change of a member nothing else runs in `Registration`
  (`StartChange`); `Membership` takes them apart. A change that only assigns the
  role a member has writes nothing and is left out.
* Tokens drawn by `secrets` are new. The forms' CSRF protection and the
  signature of the cookie work.
* `Registration`: a Google account has one address for good, addresses are
  compared as the code compares them (exactly), ADMIN_EMAIL is set, and the
  first user with it is a platform admin from the first login on. Slugs are left
  out: a login that fails on one is an `Abort`.
* The organization's Anthropic key and whether a key resolves are part of the
  readiness of a project. Slugs, fingerprints (whose three parts are joined by
  newlines they may contain), pagination and the body limit are functions of text
  and numbers without a state of their own.
* Text (prompts, pages, logging), encryption, webhook signatures, schema
  migrations and start scripts have no state worth a model.

## 6. Plan

1. Proofs about what happens without the bounds of the named disturbances: which
   single lost or overtaken event makes a status of `GithubInstallation` wrong,
   and that a later event in order makes it right again.
2. Larger models: a second form in `ProjectRepos`, the organization's key beside
   the project's, and `FixPipeline`'s readiness and repository taken from
   `ProjectRepos` instead of `ChangeReadiness` and `EditProject`.
3. `Registration` with the steps of `Membership` in place of `StartChange`.
