------------------------- MODULE GithubInstallation -------------------------
(***************************************************************************)
(* GitHub App installations of the organizations: the install flow, whose  *)
(* state travels in the signed cookie of the browser, and the installation *)
(* webhooks, which carry no version.  Each handler loads a row, and writes *)
(* the columns that it changed when it commits; nothing is locked between. *)
(***************************************************************************)
EXTENDS Naturals, FiniteSets

CONSTANTS
    Orgs,
    Installs,       \* installation ids of GitHub; a new installation has a new id
    Flows,          \* values of github_install_state, drawn once each
    Requests,       \* requests in progress at one time
    MaxEvents,      \* webhooks GitHub sends for one installation
    None

ASSUME InstallationAssumption ==
    /\ MaxEvents \in Nat
    /\ None \notin Orgs \cup Installs \cup Flows \cup {"absent"}

VARIABLES
    github,     \* state of each installation at GitHub, and how many events it caused
    events,     \* installation webhooks under way
    flows,      \* the organization each flow was started for
    cookie,     \* the flow in the session cookie: github_install_state and _org_slug
    rows,       \* the github_installations row of each organization
    requests,
    named,      \* auxiliary: the state and installation_id of the accepted callbacks
    disturbed   \* auxiliary: installations of which an event was lost or overtaken, etc.

external == <<github, events, flows>>
vars == <<external, cookie, rows, requests, named, disturbed>>

\* InstallationStatus
Statuses == {"active", "suspended", "removed"}

Actions == {"deleted", "suspended", "unsuspended"}

\* The state of an installation at GitHub after the event.
After == [deleted |-> "removed", suspended |-> "suspended", unsuspended |-> "active"]

\* Mutation: the action is stored as it comes.
RawStatus(action) == action

\* _INSTALLATION_ACTION_MAP.  Events with any other action are ignored.
NewStatus(action) ==
    CASE action = "deleted" -> "removed"
      [] action = "suspended" -> "suspended"
      [] action = "unsuspended" -> "active"

Event == [inst : Installs, action : Actions, n : 1..MaxEvents]

Row == [inst : Installs \cup {None}, status : Statuses \cup {None}]
NoRow == [inst |-> None, status |-> None]

\* seen is the row as it was loaded; action and n come from a webhook.
Request == [pc : {"idle", "callback", "loaded", "event"},
            org : Orgs \cup {None}, inst : Installs \cup {None}, seen : Row,
            action : Actions \cup {None}, n : 0..MaxEvents]

Work(pc, o, i) == [pc |-> pc, org |-> o, inst |-> i, seen |-> NoRow, action |-> None, n |-> 0]
Idle == Work("idle", None, None)

Init ==
    /\ github = [i \in Installs |-> [state |-> "absent", n |-> 0]]
    /\ events = {}
    /\ flows = [f \in Flows |-> None]
    /\ cookie = None
    /\ rows = [o \in Orgs |-> NoRow]
    /\ requests = [r \in Requests |-> Idle]
    /\ named = {}
    /\ disturbed = {}

-----------------------------------------------------------------------------
(* GitHub and the browser.                                                 *)

\* github_install_redirect, for an admin of the organization.
StartFlow(o) ==
    /\ \E f \in Flows :
       /\ flows[f] = None
       /\ flows' = [flows EXCEPT ![f] = o]
       /\ cookie' = f
    /\ UNCHANGED <<github, events, rows, requests, named, disturbed>>

\* A user installs the App on an account and GitHub sends the browser to the
\* callback.  The created event of a new installation is one that is ignored.
Install(i) ==
    /\ github[i].state = "absent"
    /\ github' = [github EXCEPT ![i].state = "active"]
    /\ UNCHANGED <<events, flows, rows, cookie, requests, named, disturbed>>

\* SessionMiddleware writes the cookie on every response as the request had it,
\* so that a page that took long brings an earlier flow back, or takes one away.
RewriteCookie ==
    /\ cookie' \in {f \in Flows : flows[f] # None} \cup {None}
    /\ UNCHANGED <<external, named, rows, requests, disturbed>>

\* The owner of the account suspends, unsuspends or uninstalls the App.
Change(i, action) ==
    LET n == github[i].n + 1 IN
    /\ n <= MaxEvents
    /\ github[i].state \in {"active", "suspended"}
    /\ github[i].state # After[action]
    /\ github' = [github EXCEPT ![i] = [state |-> After[action], n |-> n]]
    /\ events' = events \cup {[inst |-> i, action |-> action, n |-> n]}
    /\ UNCHANGED <<flows, rows, cookie, requests, named, disturbed>>

\* A delivery that fails is not repeated.
Lose(e) ==
    /\ events' = events \ {e}
    /\ disturbed' = disturbed \cup {e.inst}
    /\ UNCHANGED <<github, flows, rows, cookie, requests, named>>

-----------------------------------------------------------------------------

Open(r, new) == requests' = [requests EXCEPT ![r] = new]
Answer(r) == requests' = [requests EXCEPT ![r] = Idle]

\* The requests that are to write the row of an organization.
Writers(o) == {r \in Requests : requests[r].pc # "idle" /\ requests[r].org = o}

\* Auxiliary: what a writer of the row of o disturbs if there are others.
Crowd(o, i) == IF Writers(o) = {} THEN {} ELSE {i} \cup {requests[s].inst : s \in Writers(o)}

\* Mutation: the state is not compared.
CallbackOfAnyFlow(r) ==
    /\ requests[r].pc = "idle"
    /\ cookie # None
    /\ \E f \in Flows, i \in Installs :
       /\ Open(r, Work("callback", flows[cookie], i))
       /\ named' = named \cup {<<f, i>>}
       /\ disturbed' = disturbed \cup Crowd(flows[cookie], i)
    /\ UNCHANGED <<external, rows, cookie>>

\* github_install_callback, as often as the browser opens a URL.  The state is
\* compared with the cookie; installation_id is taken from the URL as it is, and
\* nobody asks GitHub whether the installation was granted in this flow.  With
\* another state in the cookie, or none, it answers 400 and empties the cookie.
Callback(r) ==
    /\ requests[r].pc = "idle"
    /\ \E f \in Flows, i \in Installs :
       IF cookie = f
       THEN /\ Open(r, Work("callback", flows[f], i))
            /\ named' = named \cup {<<f, i>>}
            /\ disturbed' = disturbed \cup Crowd(flows[f], i)
            /\ UNCHANGED cookie
       ELSE /\ cookie' = None
            /\ UNCHANGED <<requests, named, disturbed>>
    /\ UNCHANGED <<external, rows>>

\* upsert_installation loads the row of the organization.
LoadRow(r) ==
    /\ requests[r].pc = "callback"
    /\ Open(r, [requests[r] EXCEPT !.pc = "loaded", !.seen = rows[requests[r].org]])
    /\ UNCHANGED <<external, named, rows, cookie, disturbed>>

\* UPDATE sets the columns that differ from what was loaded.
Updated(row, seen, new) ==
    [inst |-> IF new.inst = seen.inst THEN row.inst ELSE new.inst,
     status |-> IF new.status = seen.status THEN row.status ELSE new.status]

\* Mutation: a re-install keeps the status.
UpsertIdOnly(r) ==
    LET q == requests[r]  new == [inst |-> q.inst, status |-> "active"] IN
    IF q.seen = NoRow THEN rows[q.org] = NoRow /\ rows' = [rows EXCEPT ![q.org] = new]
    ELSE rows' = [rows EXCEPT ![q.org].inst = q.inst]

\* upsert_installation: an insertion, which fails if there is a row by now
\* (uq_github_installation_org), or an update of what changed.
Upsert(r) ==
    LET q == requests[r]  new == [inst |-> q.inst, status |-> "active"] IN
    IF q.seen = NoRow THEN rows[q.org] = NoRow /\ rows' = [rows EXCEPT ![q.org] = new]
    ELSE rows' = [rows EXCEPT ![q.org] = Updated(@, q.seen, new)]

\* Auxiliary: GitHub does not have the installation active, or another
\* organization has it too.
Doubtful(o, i) == github[i].state # "active" \/ \E p \in Orgs \ {o} : rows[p].inst = i

\* The callback commits, and empties the cookie.
SaveInstallation(r) ==
    LET q == requests[r] IN
    /\ q.pc = "loaded"
    /\ Upsert(r)
    /\ cookie' = None
    /\ disturbed' = disturbed \cup (IF Doubtful(q.org, q.inst) THEN {q.inst} ELSE {})
    /\ Answer(r)
    /\ UNCHANGED <<external, named>>

\* The database fails; a response that was sent before has emptied the cookie.
CallbackFails(r) ==
    /\ requests[r].pc \in {"callback", "loaded"}
    /\ cookie' \in {cookie, None}
    /\ Answer(r)
    /\ UNCHANGED <<external, named, rows, disturbed>>

-----------------------------------------------------------------------------
(* handle_installation_event                                               *)

Having(i) == {o \in Orgs : rows[o].inst = i}

\* The row is looked up by the installation id, which is not unique.  No row is
\* ignored; with several, scalar_one_or_none raises and the webhook is answered
\* 200 all the same.
Deliver(r, e) ==
    LET late == \E d \in events : d.inst = e.inst /\ d.n < e.n IN
    /\ requests[r].pc = "idle"
    /\ events' = events \ {e}
    /\ IF \E o \in Orgs : Having(e.inst) = {o}
       THEN \E o \in Having(e.inst) :
            /\ Open(r, [pc |-> "event", org |-> o, inst |-> e.inst, seen |-> rows[o],
                        action |-> e.action, n |-> e.n])
            /\ disturbed' = disturbed \cup Crowd(o, e.inst) \cup (IF late THEN {e.inst} ELSE {})
       ELSE /\ disturbed' = disturbed \cup (IF late \/ Having(e.inst) # {} THEN {e.inst} ELSE {})
            /\ UNCHANGED requests
    /\ UNCHANGED <<github, flows, rows, cookie, named>>

\* The status is written to the row that was loaded, whatever installation it
\* is of by now.
Apply(r) ==
    LET q == requests[r] IN
    /\ q.pc = "event"
    /\ rows' = [rows EXCEPT ![q.org] =
                   Updated(@, q.seen, [q.seen EXCEPT !.status = NewStatus(q.action)])]
    /\ Answer(r)
    /\ UNCHANGED <<external, named, cookie, disturbed>>

\* The handler or its commit fails: 200 or 500, and not delivered again.
EventFails(r) ==
    /\ requests[r].pc = "event"
    /\ disturbed' = disturbed \cup {requests[r].inst}
    /\ Answer(r)
    /\ UNCHANGED <<external, named, rows, cookie>>

-----------------------------------------------------------------------------

GithubStep ==
    \/ \E o \in Orgs : StartFlow(o)
    \/ \E i \in Installs : Install(i)
    \/ \E i \in Installs, action \in Actions : Change(i, action)
    \/ \E e \in events : Lose(e)
    \/ RewriteCookie

HandlerStep(r) ==
    \/ Callback(r) \/ LoadRow(r) \/ SaveInstallation(r) \/ CallbackFails(r)
    \/ \E e \in events : Deliver(r, e)
    \/ Apply(r) \/ EventFails(r)

Next ==
    \/ GithubStep
    \/ \E r \in Requests : HandlerStep(r)

Spec == Init /\ [][Next]_vars

-----------------------------------------------------------------------------

TypeOK ==
    /\ github \in [Installs -> [state : Statuses \cup {"absent"}, n : 0..MaxEvents]]
    /\ events \subseteq Event
    /\ flows \in [Flows -> Orgs \cup {None}]
    /\ cookie \in {f \in Flows : flows[f] # None} \cup {None}
    /\ rows \in [Orgs -> Row]
    /\ requests \in [Requests -> Request]
    /\ named \subseteq Flows \X Installs
    /\ disturbed \subseteq Installs

\* A callback with the state of a flow of the organization named the installation.
NamedFor(o, i) == \E f \in Flows : flows[f] = o /\ <<f, i>> \in named

\* An organization has only an installation that was named together with the state
\* of a flow one of its own admins started: callbacks opened again, of older flows,
\* with a cookie that another page brought back, or beside each other, bind no
\* other (the state in github_install_callback).  More the state cannot do: that
\* GitHub granted the installation in this flow is as true as the URL is.
BoundByOwnFlow == \A o \in Orgs : rows[o].inst # None => NamedFor(o, rows[o].inst)

\* All events of i so far have been handled.
Quiet(i) ==
    /\ \A e \in events : e.inst # i
    /\ \A r \in Requests : requests[r].pc = "event" => requests[r].inst # i

\* When all its events are handled, the status of an installation is the one it
\* has at GitHub, unless an event was lost or overtaken, a handler ran beside
\* another one on the same row, a callback named it when it was not active, or
\* two organizations have it: each of these may leave a wrong status for good,
\* because nothing compares the rows with GitHub again.
StatusFollowsGithub ==
    \A o \in Orgs : LET i == rows[o].inst IN
       i # None /\ i \notin disturbed /\ Quiet(i) => rows[o].status = github[i].state

-----------------------------------------------------------------------------
(* The inductive invariant behind StatusFollowsGithub and BoundByOwnFlow.   *)

\* A webhook or its handler: one of the last event tells the state at GitHub.
Truthful(e, at) ==
    /\ e.inst \in Installs /\ e.action \in Actions /\ e.n \in 1..at[e.inst].n
    /\ e.n = at[e.inst].n => After[e.action] = at[e.inst].state

EventsKnown ==
    /\ \A i \in Installs : github[i].state = "absent" => github[i].n = 0
    /\ \A e \in events : Truthful(e, github)
    /\ \A d, e \in events : d.inst = e.inst /\ d.n = e.n => d = e

\* What a handler knows, and that the row is still as it was loaded unless
\* writers of one row disturbed their installations.
Handler(q) ==
    /\ q.org \in Orgs /\ q.inst \in Installs
    /\ q.pc # "event" => NamedFor(q.org, q.inst)
    /\ q.pc # "callback" =>
          /\ q.inst \notin disturbed => q.seen = rows[q.org]
          /\ q.seen = rows[q.org] \/ rows[q.org].inst \in disturbed
    /\ q.pc = "event" =>
          /\ q.seen.inst = q.inst
          /\ Truthful(q, github)
          /\ q.inst \notin disturbed => \A e \in events : e.inst = q.inst => e.n > q.n

HandlersKnown == \A r \in Requests : requests[r].pc # "idle" => Handler(requests[r])

WritersDisturb ==
    \A r, s \in Requests :
       r # s /\ requests[r].pc # "idle" /\ requests[s].pc # "idle"
         /\ requests[r].org = requests[s].org => requests[r].inst \in disturbed

SharersDisturb ==
    \A o, p \in Orgs : o # p /\ rows[o].inst = rows[p].inst /\ rows[o].inst # None
                          => rows[o].inst \in disturbed

\* The last event of i is to be handled.
Newest(i) ==
    \/ \E e \in events : e.inst = i /\ e.n = github[i].n
    \/ \E r \in Requests : requests[r].pc = "event" /\ requests[r].inst = i
                             /\ requests[r].n = github[i].n

NewestRemains == \A i \in Installs \ disturbed : Quiet(i) \/ Newest(i)

IInv ==
    /\ TypeOK
    /\ BoundByOwnFlow
    /\ StatusFollowsGithub
    /\ EventsKnown
    /\ HandlersKnown
    /\ WritersDisturb
    /\ SharersDisturb
    /\ NewestRemains
=============================================================================
