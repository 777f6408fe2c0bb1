---------------------------- MODULE ProjectRepos ----------------------------
(***************************************************************************)
(* Projects and the repositories they name, beside the installations they   *)
(* depend on.  Creating or editing a project waits for GitHub's list of     *)
(* repositories between the read of the project's row and the write; keys   *)
(* are regenerated, projects deleted and installations change meanwhile.    *)
(***************************************************************************)
EXTENDS GithubInstallation

CONSTANTS
    Projects,       \* identities of project rows, never used twice
    Repos,
    AccountOf,      \* the installation on the account that owns a repository
    ClaudeKeys,     \* Anthropic API keys
    Forms,          \* submissions of the project form in progress at one time
    MaxKeys         \* API keys generated for one project

ASSUME ProjectAssumption ==
    /\ AccountOf \in [Repos -> Installs]
    /\ MaxKeys \in Nat \ {0}
    /\ None \notin Projects \cup Repos \cup ClaudeKeys
    /\ {"keep", "clear"} \cap ClaudeKeys = {}

VARIABLES projects, forms

projectVars == <<projects, forms>>

\* key counts the API keys generated so far; the hash of the last one is stored.
\* from is auxiliary: the installation whose list the repository was found on,
\* None if the list was empty and nothing was compared.
Project == [state : {"unused", "there", "deleted"}, org : Orgs \cup {None},
            repo : Repos \cup {None}, from : Installs \cup {None},
            key : 0..MaxKeys, claude : ClaudeKeys \cup {None}]

Unused == [state |-> "unused", org |-> None, repo |-> None, from |-> None,
           key |-> 0, claude |-> None]

\* A form: for a new project, or for one whose row was loaded as seen; the two
\* fields that matter here; the installation read, and the list it gave.
Form == [pc : {"idle", "found", "connected", "listed"},
         org : Orgs \cup {None}, project : Projects \cup {None}, seen : Project,
         repo : Repos \cup {None}, claude : {"keep", "clear"} \cup ClaudeKeys,
         inst : Installs \cup {None}, list : SUBSET Repos]

NoForm == [pc |-> "idle", org |-> None, project |-> None, seen |-> Unused,
           repo |-> None, claude |-> "keep", inst |-> None, list |-> {}]

\* A form as it was submitted.
Submitted(o, p, seen, repo, claude) ==
    [pc |-> "found", org |-> o, project |-> p, seen |-> seen,
     repo |-> repo, claude |-> claude, inst |-> None, list |-> {}]

ProjectInit ==
    /\ Init
    /\ projects = [p \in Projects |-> Unused]
    /\ forms = [w \in Forms |-> NoForm]

-----------------------------------------------------------------------------

SetForm(w, new) == forms' = [forms EXCEPT ![w] = new]
EndForm(w) == SetForm(w, NoForm)

\* create_project_action: an admin of the organization submits the form.
SubmitNew(w, o) ==
    /\ forms[w].pc = "idle"
    /\ \E repo \in Repos, claude \in {"keep"} \cup ClaudeKeys :
          SetForm(w, Submitted(o, None, Unused, repo, claude))
    /\ UNCHANGED projects

\* update_project_action: _get_org_project finds a project of the organization.
SubmitEdit(w, p) ==
    /\ forms[w].pc = "idle"
    /\ projects[p].state = "there"
    /\ \E repo \in Repos, claude \in {"keep", "clear"} \cup ClaudeKeys :
          SetForm(w, Submitted(projects[p].org, p, projects[p], repo, claude))
    /\ UNCHANGED projects

\* get_installation_repos: the installation of the organization, if it is active.
GetInstallation(w) ==
    LET row == rows[forms[w].org] IN
    /\ forms[w].pc = "found"
    /\ SetForm(w, [forms[w] EXCEPT !.pc = "connected",
                                   !.inst = IF row.status = "active" THEN row.inst ELSE None])
    /\ UNCHANGED projects

\* list_installation_repos: up to 100 of the repositories of the account.
Accessible(i) == SUBSET {x \in Repos : AccountOf[x] = i}

\* Mutation: the list of any active installation in the database.
ListAnyRepos(w) ==
    /\ forms[w].pc = "connected"
    /\ \E o \in Orgs : \E list \in Accessible(rows[o].inst) :
          SetForm(w, [forms[w] EXCEPT !.pc = "listed", !.inst = rows[o].inst, !.list = list])
    /\ UNCHANGED projects

\* The list is empty without an installation, and when GitHub refuses (it has
\* the installation suspended or deleted) or fails.
ListRepos(w) ==
    LET i == forms[w].inst IN
    /\ forms[w].pc = "connected"
    /\ \E list \in IF i # None /\ github[i].state = "active" THEN Accessible(i) ELSE {{}} :
          SetForm(w, [forms[w] EXCEPT !.pc = "listed", !.list = list])
    /\ UNCHANGED projects

\* The repository is compared with the list unless that is empty.
Allowed(q) == q.list = {} \/ q.repo \in q.list

\* Otherwise 400.
RejectForm(w) ==
    /\ forms[w].pc = "listed" /\ ~Allowed(forms[w])
    /\ EndForm(w)
    /\ UNCHANGED projects

\* A project is created with the hash of a key that nobody is shown.
CreateProject(w, p) ==
    LET q == forms[w] IN
    /\ q.pc = "listed" /\ q.project = None /\ Allowed(q)
    /\ projects[p].state = "unused"
    /\ projects' = [projects EXCEPT ![p] =
          [state |-> "there", org |-> q.org, repo |-> q.repo,
           from |-> IF q.list = {} THEN None ELSE q.inst,
           key |-> 1, claude |-> IF q.claude = "keep" THEN None ELSE q.claude]]
    /\ EndForm(w)

\* The row after an edit: a column is written if the form changes what was loaded.
\* An Anthropic key is encrypted anew, so that it always is.
Edited(row, q) ==
    LET same == q.repo = q.seen.repo IN
    [state |-> row.state, org |-> row.org, key |-> row.key,
     repo |-> IF same THEN row.repo ELSE q.repo,
     from |-> IF same THEN row.from ELSE IF q.list = {} THEN None ELSE q.inst,
     claude |-> IF q.claude = "keep" THEN row.claude
                ELSE IF q.claude # "clear" THEN q.claude
                ELSE IF q.seen.claude = None THEN row.claude ELSE None]

\* Mutation: an empty field of the Anthropic key is stored.
UpdateWithEmptyKey(w) ==
    LET q == forms[w]  p == forms[w].project IN
    /\ q.pc = "listed" /\ p # None /\ Allowed(q)
    /\ projects' = IF projects[p].state = "there"
                   THEN [projects EXCEPT ![p] = [Edited(@, q) EXCEPT !.claude = q.claude]]
                   ELSE projects
    /\ EndForm(w)

\* Mutation: the row is written back as it was loaded, with the fields changed.
UpdateWholeRow(w) ==
    LET q == forms[w]  p == forms[w].project IN
    /\ q.pc = "listed" /\ p # None /\ Allowed(q)
    /\ projects' = [projects EXCEPT ![p] = Edited(q.seen, q)]
    /\ EndForm(w)

\* A row that was deleted meanwhile cannot be updated (500).
UpdateProject(w) ==
    LET q == forms[w]  p == forms[w].project IN
    /\ q.pc = "listed" /\ p # None /\ Allowed(q)
    /\ projects' = IF projects[p].state = "there"
                   THEN [projects EXCEPT ![p] = Edited(@, q)] ELSE projects
    /\ EndForm(w)

\* The database fails and the transaction is rolled back.
FormFails(w) ==
    /\ forms[w].pc # "idle"
    /\ EndForm(w)
    /\ UNCHANGED projects

\* regenerate_api_key_action
Regenerate(p) ==
    /\ projects[p].state = "there" /\ projects[p].key < MaxKeys
    /\ projects' = [projects EXCEPT ![p].key = @ + 1]
    /\ UNCHANGED forms

\* delete_project_action
DeleteProject(p) ==
    /\ projects[p].state = "there"
    /\ projects' = [projects EXCEPT ![p].state = "deleted"]
    /\ UNCHANGED forms

FormStep(w) ==
    \/ \E o \in Orgs : SubmitNew(w, o)
    \/ \E p \in Projects : SubmitEdit(w, p) \/ CreateProject(w, p)
    \/ GetInstallation(w) \/ ListRepos(w) \/ RejectForm(w)
    \/ UpdateProject(w) \/ FormFails(w)

ProjectStep ==
    \/ \E w \in Forms : FormStep(w)
    \/ \E p \in Projects : Regenerate(p) \/ DeleteProject(p)

ProjectNext ==
    \/ Next /\ UNCHANGED projectVars
    \/ ProjectStep /\ UNCHANGED vars

ProjectSpec == ProjectInit /\ [][ProjectNext]_<<vars, projectVars>>

-----------------------------------------------------------------------------

ProjectTypeOK ==
    /\ projects \in [Projects -> Project]
    /\ forms \in [Forms -> Form]

\* A project names a repository that was on the list of an installation which a
\* flow of its own organization named, unless the list was empty: whatever happens
\* to the installation between its read, GitHub's answer and the write.  Whose
\* installation that is depends on the callback, see BoundByOwnFlow.
ReposOfOwnInstallation ==
    \A p \in Projects : LET x == projects[p] IN
       x.from # None => AccountOf[x.repo] = x.from /\ NamedFor(x.org, x.from)

\* The form that is being saved for p.
Saves(w, p) == forms[w].pc = "listed" /\ forms[w].project = p /\ forms'[w].pc = "idle"

\* A row changes only in ways that somebody asks for at that moment.
AsAsked(p) ==
    LET old == projects[p]  new == projects'[p] IN
    /\ old.state = "deleted" => new = old
    /\ old.state = "there" =>
         /\ new.key >= old.key
         /\ new.repo # old.repo => \E w \in Forms : Saves(w, p) /\ forms[w].repo = new.repo
         /\ new.claude # old.claude =>
              \E w \in Forms : Saves(w, p)
                 /\ forms[w].claude = IF new.claude = None THEN "clear" ELSE new.claude

\* What an edit read before it waited for GitHub does not come back: a project
\* deleted meanwhile stays deleted, a key that was regenerated meanwhile stays
\* invalid, and a repository or Anthropic key changes only to what the form that
\* is being saved asks for.
NothingRevived == [][\A p \in Projects : AsAsked(p)]_projectVars
=============================================================================
