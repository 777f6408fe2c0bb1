------------------------- MODULE ProjectReposProofs -------------------------
(* Theorems about ProjectRepos for any projects, repositories and forms.    *)
EXTENDS ProjectRepos, GithubInstallationProofs

\* What a form that waits knows: its installation was named for its organization,
\* the list is of that account, and its project is one of the organization.
FormKnows(q) ==
    /\ q.org \in Orgs
    /\ q.inst # None => NamedFor(q.org, q.inst)
    /\ \A x \in q.list : q.inst # None /\ AccountOf[x] = q.inst
    /\ q.pc # "listed" => q.list = {}
    /\ IF q.project = None THEN q.claude # "clear" ELSE projects[q.project].org = q.org

FormsKnown == \A w \in Forms : forms[w].pc # "idle" => FormKnows(forms[w])

\* A project that nobody created names nothing.
UnusedBlank == \A p \in Projects : IF projects[p].state = "unused" THEN projects[p] = Unused
                                   ELSE projects[p].org \in Orgs

PInv ==
    /\ ProjectTypeOK
    /\ ReposOfOwnInstallation
    /\ FormsKnown
    /\ UnusedBlank

\* Beside the projects the installations behave as they do alone.
THEOREM InstallationsAlone == ProjectSpec => Spec
<1>1. ProjectInit => Init
  BY DEF ProjectInit
<1>2. [ProjectNext]_<<vars, projectVars>> => [Next]_vars
  BY DEF ProjectNext
<1> QED
  BY <1>1, <1>2, PTL DEF ProjectSpec, Spec

LEMMA InstallationsHold == ProjectSpec => []IInv
  BY InstallationsAlone, Inductive, PTL

\* What was named stays named.
LEMMA NamesStay ==
    ASSUME IInv, [Next]_vars, NEW o \in Orgs, NEW i, NamedFor(o, i)
    PROVE  NamedFor(o, i)'
<1>1. PICK f \in Flows : flows[f] = o /\ <<f, i>> \in named
  BY DEF NamedFor
<1>2. named \subseteq named'
  BY DEF Next, GithubStep, HandlerStep, StartFlow, Install, RewriteCookie, Change, Lose, Callback,
         LoadRow, SaveInstallation, CallbackFails, Deliver, Apply, EventFails, vars, external
<1>3. flows'[f] = o
  <2>1. CASE UNCHANGED flows
    BY <1>1, <2>1
  <2>2. CASE \E p \in Orgs : StartFlow(p)
    <3>1. PICK p \in Orgs, g \in Flows : flows[g] = None /\ flows' = [flows EXCEPT ![g] = p]
      BY <2>2 DEF StartFlow
    <3>2. g # f
      BY <1>1, <3>1, InstallationAssumption
    <3> QED
      BY <1>1, <3>1, <3>2 DEF IInv, TypeOK
  <2>3. UNCHANGED flows \/ \E p \in Orgs : StartFlow(p)
    BY DEF Next, GithubStep, HandlerStep, Install, RewriteCookie, Change, Lose, Callback,
           LoadRow, SaveInstallation, CallbackFails, Deliver, Apply, EventFails, vars, external
  <2> QED BY <2>1, <2>2, <2>3
<1> QED
  BY <1>1, <1>2, <1>3 DEF NamedFor

\* A step of the installations disturbs no project and no form.
LEMMA InstallationStepKeeps ==
    ASSUME IInv, PInv, [Next]_vars, UNCHANGED projectVars
    PROVE  PInv'
<1>1. UNCHANGED <<projects, forms>>
  BY DEF projectVars
<1>2. ProjectTypeOK' /\ UnusedBlank'
  BY <1>1 DEF PInv, ProjectTypeOK, UnusedBlank
<1>3. ReposOfOwnInstallation'
  <2>1. ASSUME NEW p \in Projects, projects'[p].from # None
        PROVE  AccountOf[projects'[p].repo] = projects'[p].from /\ NamedFor(projects[p].org, projects[p].from)'
    <3>1. /\ AccountOf[projects[p].repo] = projects[p].from
          /\ NamedFor(projects[p].org, projects[p].from)
      BY <1>1, <2>1 DEF PInv, ReposOfOwnInstallation
    <3>2. projects[p].org \in Orgs
      BY <1>1, <2>1 DEF PInv, UnusedBlank, Unused
    <3>3. NamedFor(projects[p].org, projects[p].from)'
      BY <1>1, <3>1, <3>2, NamesStay
    <3> QED BY <1>1, <3>1, <3>3
  <2> QED
    BY <2>1 DEF ReposOfOwnInstallation
<1>4. FormsKnown'
  <2>1. ASSUME NEW w \in Forms, forms'[w].pc # "idle" PROVE FormKnows(forms[w])'
    <3>1. FormKnows(forms[w])
      BY <1>1, <2>1 DEF PInv, FormsKnown
    <3>2. ASSUME forms[w].inst # None PROVE NamedFor(forms[w].org, forms[w].inst)'
      <4>1. NamedFor(forms[w].org, forms[w].inst) /\ forms[w].org \in Orgs
        BY <3>1, <3>2 DEF FormKnows
      <4> QED
        BY <1>1, <4>1, NamesStay DEF NamedFor
    <3>3. forms'[w] = forms[w] /\ projects' = projects
      BY <1>1
    <3> QED
      BY <3>1, <3>2, <3>3 DEF FormKnows
  <2> QED
    BY <2>1 DEF FormsKnown
<1> QED
  BY <1>2, <1>3, <1>4 DEF PInv

-----------------------------------------------------------------------------
(* Steps of the forms.                                                     *)

LEMMA SetOne ==
    ASSUME forms \in [Forms -> Form], NEW w \in Forms, NEW q \in Form, SetForm(w, q)
    PROVE  /\ forms' \in [Forms -> Form] /\ forms'[w] = q
           /\ \A v \in Forms \ {w} : forms'[v] = forms[v]
  BY DEF SetForm

LEMMA BlankTypes == Unused \in Project /\ NoForm \in Form
<1>1. 0 \in 0..MaxKeys
  BY ProjectAssumption
<1>2. Unused \in Project
  BY <1>1 DEF Unused, Project
<1> QED
  BY <1>2 DEF NoForm, Form

LEMMA EndOne ==
    ASSUME forms \in [Forms -> Form], NEW w \in Forms, EndForm(w)
    PROVE  /\ forms' \in [Forms -> Form] /\ forms'[w].pc = "idle"
           /\ \A v \in Forms \ {w} : forms'[v] = forms[v]
<1>1. SetForm(w, NoForm) /\ NoForm.pc = "idle"
  BY DEF EndForm, NoForm
<1> QED
  BY <1>1, BlankTypes, SetOne

\* A form that moves on, while the projects stay.
LEMMA FormMoves ==
    ASSUME PInv, UNCHANGED <<vars, projects>>, NEW w \in Forms, NEW new \in Form, SetForm(w, new),
           new.pc # "idle" => FormKnows(new)
    PROVE  PInv'
<1>1. /\ forms' \in [Forms -> Form] /\ forms'[w] = new
      /\ \A v \in Forms \ {w} : forms'[v] = forms[v]
  BY SetOne DEF PInv, ProjectTypeOK
<1>2. UNCHANGED <<projects, named, flows>>
  BY DEF vars, external
<1>3. FormsKnown'
  <2>1. ASSUME NEW v \in Forms, forms'[v].pc # "idle" PROVE FormKnows(forms[v])'
    <3>1. FormKnows(forms'[v])
      BY <1>1, <2>1 DEF PInv, FormsKnown
    <3> QED
      BY <1>2, <3>1 DEF FormKnows, NamedFor
  <2> QED
    BY <2>1 DEF FormsKnown
<1> QED
  BY <1>1, <1>2, <1>3 DEF PInv, ProjectTypeOK, ReposOfOwnInstallation, UnusedBlank, NamedFor

\* A project that changes, while forms end or stay.
LEMMA ProjectMoves ==
    ASSUME PInv, UNCHANGED vars, forms' \in [Forms -> Form],
           \A v \in Forms : forms'[v] = forms[v] \/ forms'[v].pc = "idle",
           NEW p \in Projects, NEW new \in Project, projects' = [projects EXCEPT ![p] = new],
           new.org \in Orgs, new.state # "unused", projects[p].org \in {new.org, None},
           new.from # None => AccountOf[new.repo] = new.from /\ NamedFor(new.org, new.from)
    PROVE  PInv'
<1>1. /\ projects' \in [Projects -> Project] /\ projects'[p] = new
      /\ \A o \in Projects \ {p} : projects'[o] = projects[o]
  BY DEF PInv, ProjectTypeOK
<1>2. UNCHANGED <<named, flows>>
  BY DEF vars, external
<1>3. ReposOfOwnInstallation'
  <2>1. \A o \in Projects : projects'[o].from # None =>
           AccountOf[projects'[o].repo] = projects'[o].from /\ NamedFor(projects'[o].org, projects'[o].from)
    BY <1>1 DEF PInv, ReposOfOwnInstallation
  <2> QED
    BY <1>2, <2>1 DEF ReposOfOwnInstallation, NamedFor
<1>4. UnusedBlank'
  BY <1>1 DEF PInv, UnusedBlank
<1>5. FormsKnown'
  <2>1. ASSUME NEW v \in Forms, forms'[v].pc # "idle" PROVE FormKnows(forms[v])'
    <3>1. forms'[v] = forms[v] /\ FormKnows(forms[v]) /\ forms[v] \in Form
      BY <2>1 DEF PInv, FormsKnown, ProjectTypeOK
    <3>2. ASSUME forms[v].project # None
          PROVE  projects'[forms[v].project].org = forms[v].org
      <4>1. forms[v].project \in Projects /\ projects[forms[v].project].org = forms[v].org /\ forms[v].org \in Orgs
        BY <3>1, <3>2 DEF Form, FormKnows
      <4> QED
        BY <1>1, <4>1, InstallationAssumption
    <3>3. forms[v].inst # None => NamedFor(forms[v].org, forms[v].inst)
      BY <3>1 DEF FormKnows
    <3> QED
      BY <1>2, <3>1, <3>2, <3>3 DEF FormKnows, NamedFor
  <2> QED
    BY <2>1 DEF FormsKnown
<1> QED
  BY <1>1, <1>3, <1>4, <1>5 DEF PInv, ProjectTypeOK

\* A form that is submitted has read its project, no list yet.
LEMMA SubmitKeeps ==
    ASSUME PInv, UNCHANGED vars, NEW w \in Forms,
           (\E o \in Orgs : SubmitNew(w, o)) \/ (\E p \in Projects : SubmitEdit(w, p))
    PROVE  PInv'
<1>1. PICK o \in Orgs, p \in Projects \cup {None}, seen \in Project, repo \in Repos,
           claude \in {"keep", "clear"} \cup ClaudeKeys :
         /\ SetForm(w, Submitted(o, p, seen, repo, claude)) /\ UNCHANGED projects
         /\ IF p = None THEN claude # "clear" ELSE projects[p].org = o
  <2>1. CASE \E o \in Orgs : SubmitNew(w, o)
    BY <2>1, BlankTypes, ProjectAssumption DEF SubmitNew
  <2>2. CASE \E p \in Projects : SubmitEdit(w, p)
    <3>1. PICK p \in Projects : SubmitEdit(w, p)
      BY <2>2
    <3>2. projects[p] \in Project /\ projects[p].org \in Orgs
      BY <3>1 DEF PInv, ProjectTypeOK, UnusedBlank, SubmitEdit
    <3> QED
      BY <3>1, <3>2, ProjectAssumption DEF SubmitEdit
  <2> QED BY <2>1, <2>2
<1>2. Submitted(o, p, seen, repo, claude) \in Form
  BY DEF Submitted, Form
<1>3. PICK new \in Form : new = Submitted(o, p, seen, repo, claude)
  BY <1>2
<1>4. FormKnows(new)
  BY <1>1, <1>3 DEF FormKnows, Submitted
<1> QED
  BY <1>1, <1>3, <1>4, FormMoves

LEMMA GetInstallationKeeps ==
    ASSUME IInv, PInv, UNCHANGED vars, NEW w \in Forms, GetInstallation(w)
    PROVE  PInv'
<1> DEFINE q == forms[w]
           i == IF rows[q.org].status = "active" THEN rows[q.org].inst ELSE None
<1>1. /\ q.pc = "found" /\ SetForm(w, [q EXCEPT !.pc = "connected", !.inst = i]) /\ projects' = projects
  BY DEF GetInstallation
<1>2. q \in Form /\ FormKnows(q)
  BY <1>1 DEF PInv, ProjectTypeOK, FormsKnown
<1>3. q.org \in Orgs /\ rows[q.org] \in Row
  BY <1>2 DEF FormKnows, IInv, TypeOK
<1>4. i \in Installs \cup {None} /\ (i # None => NamedFor(q.org, i))
  BY <1>3 DEF Row, IInv, BoundByOwnFlow
<1>5. [q EXCEPT !.pc = "connected", !.inst = i] \in Form
  BY <1>2, <1>4 DEF Form
<1> HIDE DEF i
<1>6. PICK new \in Form : new = [q EXCEPT !.pc = "connected", !.inst = i]
  BY <1>5
<1>7. new.pc = "connected" /\ new.org = q.org /\ new.inst = i /\ new.list = q.list /\ new.project = q.project
      /\ new.claude = q.claude
  BY <1>2, <1>6 DEF Form
<1>8. new.list = {}
  BY <1>1, <1>2, <1>7 DEF FormKnows
<1> QED
  BY <1>1, <1>2, <1>4, <1>6, <1>7, <1>8, FormMoves DEF FormKnows

LEMMA ListReposKeeps ==
    ASSUME PInv, UNCHANGED vars, NEW w \in Forms, ListRepos(w)
    PROVE  PInv'
<1> DEFINE q == forms[w]
<1>1. PICK list \in SUBSET Repos :
         /\ q.pc = "connected" /\ SetForm(w, [q EXCEPT !.pc = "listed", !.list = list])
         /\ projects' = projects
         /\ \A x \in list : q.inst # None /\ AccountOf[x] = q.inst
  <2>1. PICK list \in IF q.inst # None /\ github[q.inst].state = "active" THEN Accessible(q.inst) ELSE {{}} :
           SetForm(w, [q EXCEPT !.pc = "listed", !.list = list])
    BY DEF ListRepos
  <2>2. list \in SUBSET Repos /\ \A x \in list : q.inst # None /\ AccountOf[x] = q.inst
    BY DEF Accessible
  <2> QED
    BY <2>1, <2>2 DEF ListRepos
<1>2. q \in Form /\ FormKnows(q)
  BY <1>1 DEF PInv, ProjectTypeOK, FormsKnown
<1>3. [q EXCEPT !.pc = "listed", !.list = list] \in Form
  BY <1>2 DEF Form
<1>4. PICK new \in Form : new = [q EXCEPT !.pc = "listed", !.list = list]
  BY <1>3
<1>5. new.pc = "listed" /\ new.org = q.org /\ new.inst = q.inst /\ new.list = list /\ new.project = q.project
      /\ new.claude = q.claude
  BY <1>2, <1>4 DEF Form
<1>6. FormKnows(new)
  BY <1>1, <1>2, <1>5 DEF FormKnows
<1> QED
  BY <1>1, <1>4, <1>6, FormMoves

\* RejectForm and FormFails.
LEMMA EndKeeps ==
    ASSUME PInv, UNCHANGED <<vars, projects>>, NEW w \in Forms, EndForm(w)
    PROVE  PInv'
<1>1. SetForm(w, NoForm) /\ NoForm.pc = "idle"
  BY DEF EndForm, NoForm
<1> QED
  BY <1>1, BlankTypes, FormMoves

\* A repository that was allowed is on the list of the form's installation, if
\* that was compared.
LEMMA AllowedKnown ==
    ASSUME NEW q \in Form, FormKnows(q), Allowed(q), q.list # {}
    PROVE  q.inst \in Installs /\ AccountOf[q.repo] = q.inst /\ NamedFor(q.org, q.inst)
<1>1. q.repo \in q.list
  BY DEF Allowed
<1>2. q.inst # None /\ AccountOf[q.repo] = q.inst
  BY <1>1 DEF FormKnows
<1> QED
  BY <1>2 DEF FormKnows, Form

LEMMA CreateProjectKeeps ==
    ASSUME PInv, UNCHANGED vars, NEW w \in Forms, NEW p \in Projects, CreateProject(w, p)
    PROVE  PInv'
<1> DEFINE q == forms[w]
           from == IF q.list = {} THEN None ELSE q.inst
           claude == IF q.claude = "keep" THEN None ELSE q.claude
<1>1. /\ q.pc = "listed" /\ q.project = None /\ Allowed(q) /\ projects[p].state = "unused" /\ EndForm(w)
      /\ projects' = [projects EXCEPT ![p] =
            [state |-> "there", org |-> q.org, repo |-> q.repo, from |-> from, key |-> 1, claude |-> claude]]
  BY DEF CreateProject
<1>2. q \in Form /\ FormKnows(q)
  BY <1>1 DEF PInv, ProjectTypeOK, FormsKnown
<1>3. from # None => AccountOf[q.repo] = from /\ NamedFor(q.org, from)
  BY <1>1, <1>2, AllowedKnown
<1>4. from \in Installs \cup {None} /\ q.repo \in Repos \cup {None} /\ q.org \in Orgs
  BY <1>2 DEF Form, FormKnows
<1>5. claude \in ClaudeKeys \cup {None}
  BY <1>1, <1>2 DEF Form, FormKnows
<1>6. 1 \in 0..MaxKeys
  BY ProjectAssumption
<1> HIDE DEF from, claude
<1>7. [state |-> "there", org |-> q.org, repo |-> q.repo, from |-> from, key |-> 1, claude |-> claude] \in Project
  BY <1>4, <1>5, <1>6 DEF Project
<1>8. PICK new \in Project :
        new = [state |-> "there", org |-> q.org, repo |-> q.repo, from |-> from, key |-> 1, claude |-> claude]
  BY <1>7
<1>9. projects[p].org = None
  BY <1>1 DEF PInv, UnusedBlank, Unused
<1>10. /\ new.org \in Orgs /\ new.state # "unused"
       /\ new.from # None => AccountOf[new.repo] = new.from /\ NamedFor(new.org, new.from)
  BY <1>3, <1>4, <1>8
<1>11. /\ forms' \in [Forms -> Form]
       /\ \A v \in Forms : forms'[v] = forms[v] \/ forms'[v].pc = "idle"
  BY <1>1, EndOne DEF PInv, ProjectTypeOK
<1> QED
  BY <1>1, <1>8, <1>9, <1>10, <1>11, ProjectMoves

\* The row after an edit keeps its organization and its API key.
LEMMA EditedRow ==
    ASSUME NEW row \in Project, NEW q \in Form
    PROVE  LET new == Edited(row, q) IN
           /\ new \in Project
           /\ new.state = row.state /\ new.org = row.org /\ new.key = row.key
           /\ new.repo = IF q.repo = q.seen.repo THEN row.repo ELSE q.repo
           /\ new.from = IF q.repo = q.seen.repo THEN row.from
                         ELSE IF q.list = {} THEN None ELSE q.inst
           /\ new.claude # row.claude =>
                 \/ q.claude = "clear" /\ new.claude = None
                 \/ q.claude \in ClaudeKeys /\ new.claude = q.claude
<1> DEFINE repo == IF q.repo = q.seen.repo THEN row.repo ELSE q.repo
           from == IF q.repo = q.seen.repo THEN row.from ELSE IF q.list = {} THEN None ELSE q.inst
           claude == IF q.claude = "keep" THEN row.claude
                     ELSE IF q.claude # "clear" THEN q.claude
                     ELSE IF q.seen.claude = None THEN row.claude ELSE None
<1>1. repo \in Repos \cup {None} /\ from \in Installs \cup {None}
  BY DEF Form, Project
<1>2. claude \in ClaudeKeys \cup {None}
  BY DEF Form, Project
<1>3. claude # row.claude =>
         \/ q.claude = "clear" /\ claude = None
         \/ q.claude \in ClaudeKeys /\ claude = q.claude
  BY DEF Form
<1>4. Edited(row, q) = [state |-> row.state, org |-> row.org, key |-> row.key,
                        repo |-> repo, from |-> from, claude |-> claude]
  BY DEF Edited
<1> HIDE DEF repo, from, claude
<1>5. PICK new : new = [state |-> row.state, org |-> row.org, key |-> row.key,
                        repo |-> repo, from |-> from, claude |-> claude]
  OBVIOUS
<1>6. new \in Project
  BY <1>1, <1>2, <1>5 DEF Project
<1>7. Edited(row, q) = new
  BY <1>4, <1>5
<1>8. /\ new.state = row.state /\ new.org = row.org /\ new.key = row.key
      /\ new.repo = repo /\ new.from = from /\ new.claude = claude
  BY <1>5
<1> QED
  BY <1>3, <1>6, <1>7, <1>8 DEF repo, from

LEMMA UpdateProjectKeeps ==
    ASSUME PInv, UNCHANGED vars, NEW w \in Forms, UpdateProject(w)
    PROVE  PInv'
<1> DEFINE q == forms[w]
<1>1. /\ q.pc = "listed" /\ q.project # None /\ Allowed(q) /\ EndForm(w)
      /\ projects' = IF projects[q.project].state = "there"
                     THEN [projects EXCEPT ![q.project] = Edited(projects[q.project], q)] ELSE projects
  BY DEF UpdateProject
<1>2. q \in Form /\ FormKnows(q)
  BY <1>1 DEF PInv, ProjectTypeOK, FormsKnown
<1>3. PICK p \in Projects : p = q.project
  BY <1>1, <1>2 DEF Form
<1>4. CASE projects[p].state # "there"
  BY <1>1, <1>3, <1>4, EndKeeps
<1>5. CASE projects[p].state = "there"
  <2>1. projects[p] \in Project /\ projects[p].org \in Orgs /\ projects[p].org = q.org
    BY <1>1, <1>2, <1>3, <1>5 DEF PInv, ProjectTypeOK, UnusedBlank, FormKnows
  <2>2. PICK new \in Project : new = Edited(projects[p], q)
    BY <1>2, <2>1, EditedRow
  <2>3. /\ new.state = "there" /\ new.org = q.org
        /\ new.repo = IF q.repo = q.seen.repo THEN projects[p].repo ELSE q.repo
        /\ new.from = IF q.repo = q.seen.repo THEN projects[p].from
                      ELSE IF q.list = {} THEN None ELSE q.inst
    BY <1>2, <1>5, <2>1, <2>2, EditedRow
  <2>4. new.from # None => AccountOf[new.repo] = new.from /\ NamedFor(new.org, new.from)
    <3>1. CASE q.repo = q.seen.repo
      BY <2>1, <2>3, <3>1 DEF PInv, ReposOfOwnInstallation
    <3>2. CASE q.repo # q.seen.repo
      BY <1>1, <1>2, <2>3, <3>2, AllowedKnown
    <3> QED BY <3>1, <3>2
  <2>5. /\ forms' \in [Forms -> Form]
        /\ \A v \in Forms : forms'[v] = forms[v] \/ forms'[v].pc = "idle"
    BY <1>1, EndOne DEF PInv, ProjectTypeOK
  <2>6. projects' = [projects EXCEPT ![p] = new]
    BY <1>1, <1>3, <1>5, <2>2
  <2> QED
    BY <2>1, <2>3, <2>4, <2>5, <2>6, ProjectMoves
<1> QED BY <1>4, <1>5

LEMMA RegenerateKeeps ==
    ASSUME PInv, UNCHANGED vars, NEW p \in Projects, Regenerate(p)
    PROVE  PInv'
<1>1. /\ projects[p].state = "there" /\ projects[p].key < MaxKeys /\ forms' = forms
      /\ projects' = [projects EXCEPT ![p] = [projects[p] EXCEPT !.key = projects[p].key + 1]]
  BY DEF Regenerate, PInv, ProjectTypeOK
<1>2. projects[p] \in Project /\ projects[p].org \in Orgs
  BY <1>1 DEF PInv, ProjectTypeOK, UnusedBlank
<1>3. projects[p].key + 1 \in 0..MaxKeys
  <2>1. projects[p].key \in 0..MaxKeys
    BY <1>2 DEF Project
  <2> QED
    BY <1>1, <2>1, ProjectAssumption
<1>4. [projects[p] EXCEPT !.key = projects[p].key + 1] \in Project
  BY <1>2, <1>3 DEF Project
<1>5. PICK new \in Project : new = [projects[p] EXCEPT !.key = projects[p].key + 1]
  BY <1>4
<1>6. /\ new.state = projects[p].state /\ new.org = projects[p].org
      /\ new.repo = projects[p].repo /\ new.from = projects[p].from
  BY <1>2, <1>5 DEF Project
<1>7. new.from # None => AccountOf[new.repo] = new.from /\ NamedFor(new.org, new.from)
  BY <1>6 DEF PInv, ReposOfOwnInstallation
<1>8. forms' \in [Forms -> Form]
  BY <1>1 DEF PInv, ProjectTypeOK
<1> QED
  BY <1>1, <1>2, <1>5, <1>6, <1>7, <1>8, ProjectMoves

LEMMA DeleteProjectKeeps ==
    ASSUME PInv, UNCHANGED vars, NEW p \in Projects, DeleteProject(p)
    PROVE  PInv'
<1>1. /\ projects[p].state = "there" /\ forms' = forms
      /\ projects' = [projects EXCEPT ![p] = [projects[p] EXCEPT !.state = "deleted"]]
  BY DEF DeleteProject, PInv, ProjectTypeOK
<1>2. projects[p] \in Project /\ projects[p].org \in Orgs
  BY <1>1 DEF PInv, ProjectTypeOK, UnusedBlank
<1>3. [projects[p] EXCEPT !.state = "deleted"] \in Project
  BY <1>2 DEF Project
<1>4. PICK new \in Project : new = [projects[p] EXCEPT !.state = "deleted"]
  BY <1>3
<1>5. /\ new.state = "deleted" /\ new.org = projects[p].org
      /\ new.repo = projects[p].repo /\ new.from = projects[p].from
  BY <1>2, <1>4 DEF Project
<1>6. new.from # None => AccountOf[new.repo] = new.from /\ NamedFor(new.org, new.from)
  BY <1>5 DEF PInv, ReposOfOwnInstallation
<1>7. forms' \in [Forms -> Form]
  BY <1>1 DEF PInv, ProjectTypeOK
<1> QED
  BY <1>1, <1>2, <1>4, <1>5, <1>6, <1>7, ProjectMoves

LEMMA ProjectInitHolds == ProjectInit => PInv
<1> SUFFICES ASSUME ProjectInit PROVE PInv
  OBVIOUS
<1>1. projects = [p \in Projects |-> Unused] /\ forms = [w \in Forms |-> NoForm]
  BY DEF ProjectInit
<1>2. ProjectTypeOK
  BY <1>1, BlankTypes DEF ProjectTypeOK
<1>3. UnusedBlank /\ ReposOfOwnInstallation
  BY <1>1 DEF UnusedBlank, ReposOfOwnInstallation, Unused
<1>4. FormsKnown
  BY <1>1 DEF FormsKnown, NoForm
<1> QED
  BY <1>2, <1>3, <1>4 DEF PInv

LEMMA ProjectNextKeeps ==
    ASSUME IInv, PInv, [ProjectNext]_<<vars, projectVars>>
    PROVE  PInv'
<1>1. CASE [Next]_vars /\ UNCHANGED projectVars
  BY <1>1, InstallationStepKeeps
<1>2. ASSUME UNCHANGED vars, NEW w \in Forms, FormStep(w) PROVE PInv'
  <2>1. CASE RejectForm(w) \/ FormFails(w)
    BY <1>2, <2>1, EndKeeps DEF RejectForm, FormFails
  <2> QED
    BY <1>2, <2>1, SubmitKeeps, CreateProjectKeeps, GetInstallationKeeps, ListReposKeeps, UpdateProjectKeeps
    DEF FormStep
<1>3. ASSUME UNCHANGED vars, NEW p \in Projects, Regenerate(p) \/ DeleteProject(p) PROVE PInv'
  BY <1>3, RegenerateKeeps, DeleteProjectKeeps
<1> QED
  BY <1>1, <1>2, <1>3 DEF ProjectNext, ProjectStep

LEMMA ProjectsInductive == ProjectSpec => []PInv
<1>1. ProjectInit => PInv
  BY ProjectInitHolds
<1>2. IInv /\ PInv /\ [ProjectNext]_<<vars, projectVars>> => PInv'
  BY ProjectNextKeeps
<1> QED
  BY <1>1, <1>2, InstallationsHold, PTL DEF ProjectSpec

\* Projects and forms keep their types.
THEOREM ProjectTypeCorrect == ProjectSpec => []ProjectTypeOK
<1>1. PInv => ProjectTypeOK
  BY DEF PInv
<1> QED
  BY <1>1, ProjectsInductive, PTL

\* A repository that was compared with a list belongs to an installation that
\* a flow of the project's own organization named.
THEOREM OnlyOwnRepos == ProjectSpec => []ReposOfOwnInstallation
<1>1. PInv => ReposOfOwnInstallation
  BY DEF PInv
<1> QED
  BY <1>1, ProjectsInductive, PTL

LEMMA RowStays ==
    ASSUME PInv, NEW p \in Projects, projects'[p] = projects[p]
    PROVE  AsAsked(p)
<1>1. projects[p].key \in 0..MaxKeys
  BY DEF PInv, ProjectTypeOK, Project
<1>2. projects'[p].key >= projects[p].key
  BY <1>1, ProjectAssumption
<1> QED
  BY <1>2 DEF AsAsked

\* A key only goes forward, and only its own form changes a column.
LEMMA StepAsAsked ==
    ASSUME PInv, ProjectStep, NEW p \in Projects
    PROVE  AsAsked(p)
<1>1. CASE UNCHANGED projects
  BY <1>1, RowStays
<1>2. ASSUME NEW w \in Forms, NEW o \in Projects, CreateProject(w, o) PROVE AsAsked(p)
  <2>1. CASE o = p
    BY <1>2, <2>1 DEF CreateProject, AsAsked
  <2>2. CASE o # p
    BY <1>2, <2>2, RowStays DEF CreateProject, PInv, ProjectTypeOK
  <2> QED BY <2>1, <2>2
<1>3. ASSUME NEW w \in Forms, UpdateProject(w) PROVE AsAsked(p)
  <2> DEFINE q == forms[w]
  <2>1. /\ q.pc = "listed" /\ EndForm(w)
        /\ projects' = IF projects[q.project].state = "there"
                       THEN [projects EXCEPT ![q.project] = Edited(projects[q.project], q)] ELSE projects
    BY <1>3 DEF UpdateProject
  <2>2. CASE q.project = p /\ projects[p].state = "there"
    <3>1. projects'[p] = Edited(projects[p], q)
      BY <2>1, <2>2 DEF PInv, ProjectTypeOK
    <3>2. q \in Form /\ projects[p] \in Project
      BY DEF PInv, ProjectTypeOK
    <3>3. Saves(w, p)
      <4>1. forms'[w].pc = "idle"
        BY <2>1, EndOne DEF PInv, ProjectTypeOK
      <4> QED
        BY <2>1, <2>2, <4>1 DEF Saves
    <3>4. /\ projects'[p].key = projects[p].key
          /\ projects'[p].repo # projects[p].repo => q.repo = projects'[p].repo
          /\ projects'[p].claude # projects[p].claude =>
                \/ q.claude = "clear" /\ projects'[p].claude = None
                \/ q.claude \in ClaudeKeys /\ projects'[p].claude = q.claude
      BY <3>1, <3>2, EditedRow
    <3>5. projects'[p].claude # projects[p].claude =>
             q.claude = IF projects'[p].claude = None THEN "clear" ELSE projects'[p].claude
      BY <3>4, ProjectAssumption
    <3>6. projects'[p].key >= projects[p].key
      <4>1. projects[p].key \in 0..MaxKeys
        BY <3>2 DEF Project
      <4> QED
        BY <3>4, <4>1, ProjectAssumption
    <3> QED
      BY <2>2, <3>3, <3>4, <3>5, <3>6 DEF AsAsked
  <2>3. CASE ~(q.project = p /\ projects[p].state = "there")
    <3>1. projects'[p] = projects[p]
      BY <2>1, <2>3 DEF PInv, ProjectTypeOK
    <3> QED
      BY <3>1, RowStays
  <2> QED BY <2>2, <2>3
<1>4. ASSUME NEW o \in Projects, Regenerate(o) PROVE AsAsked(p)
  <2>1. CASE o = p
    <3>1. projects' = [projects EXCEPT ![p] = [projects[p] EXCEPT !.key = projects[p].key + 1]]
      BY <1>4, <2>1 DEF Regenerate, PInv, ProjectTypeOK
    <3>2. projects[p] \in Project /\ projects[p].state = "there"
      BY <1>4, <2>1 DEF PInv, ProjectTypeOK, Regenerate
    <3>3. projects'[p] = [projects[p] EXCEPT !.key = projects[p].key + 1]
      BY <3>1 DEF PInv, ProjectTypeOK
    <3>4. /\ projects'[p].key = projects[p].key + 1
          /\ projects'[p].repo = projects[p].repo /\ projects'[p].claude = projects[p].claude
      BY <3>2, <3>3 DEF Project
    <3>5. projects[p].key \in 0..MaxKeys
      BY <3>2 DEF Project
    <3>6. projects'[p].key >= projects[p].key
      BY <3>4, <3>5, ProjectAssumption
    <3> QED
      BY <3>2, <3>4, <3>6 DEF AsAsked
  <2>2. CASE o # p
    BY <1>4, <2>2, RowStays DEF Regenerate, PInv, ProjectTypeOK
  <2> QED BY <2>1, <2>2
<1>5. ASSUME NEW o \in Projects, DeleteProject(o) PROVE AsAsked(p)
  <2>1. CASE o = p
    <3>1. projects[p] \in Project /\ projects[p].state = "there"
      BY <1>5, <2>1 DEF PInv, ProjectTypeOK, DeleteProject
    <3>2. projects'[p] = [projects[p] EXCEPT !.state = "deleted"]
      BY <1>5, <2>1 DEF DeleteProject, PInv, ProjectTypeOK
    <3>3. /\ projects'[p].key = projects[p].key
          /\ projects'[p].repo = projects[p].repo /\ projects'[p].claude = projects[p].claude
      BY <3>1, <3>2 DEF Project
    <3>4. projects[p].key \in 0..MaxKeys
      BY <3>1 DEF Project
    <3>5. projects'[p].key >= projects[p].key
      BY <3>3, <3>4, ProjectAssumption
    <3> QED
      BY <3>1, <3>3, <3>5 DEF AsAsked
  <2>2. CASE o # p
    BY <1>5, <2>2, RowStays DEF DeleteProject, PInv, ProjectTypeOK
  <2> QED BY <2>1, <2>2
<1>6. ASSUME NEW w \in Forms, FormStep(w) PROVE AsAsked(p)
  <2>1. CASE UNCHANGED projects
    BY <1>1, <2>1
  <2>2. CASE ~UNCHANGED projects
    BY <1>2, <1>3, <1>6, <2>2
    DEF FormStep, SubmitNew, SubmitEdit, GetInstallation, ListRepos, RejectForm, FormFails
  <2> QED BY <2>1, <2>2
<1> QED
  BY <1>4, <1>5, <1>6 DEF ProjectStep

\* An edit brings back no key, no repository and no project.
THEOREM EditsReviveNothing == ProjectSpec => NothingRevived
<1>1. PInv /\ [ProjectNext]_<<vars, projectVars>> => [\A p \in Projects : AsAsked(p)]_projectVars
  BY StepAsAsked DEF ProjectNext, projectVars
<1> QED
  BY <1>1, ProjectsInductive, PTL DEF ProjectSpec, NothingRevived
=============================================================================
