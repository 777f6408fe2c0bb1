---------------------- MODULE GithubInstallationProofs ----------------------
(* Theorems about GithubInstallation for any organizations, installations, *)
(* flows, requests and events.                                             *)
EXTENDS GithubInstallation, TLAPS

\* Open changes one request.
LEMMA OpenOne ==
    ASSUME requests \in [Requests -> Request], NEW r \in Requests, NEW q \in Request, Open(r, q)
    PROVE  /\ requests' \in [Requests -> Request]
           /\ requests'[r] = q
           /\ \A s \in Requests \ {r} : requests'[s] = requests[s]
  BY DEF Open

LEMMA IdleType == Idle \in Request
  BY InstallationAssumption DEF Idle, Work, Request, NoRow, Row

\* So does Answer.
LEMMA AnswerOne ==
    ASSUME requests \in [Requests -> Request], NEW r \in Requests, Answer(r)
    PROVE  /\ requests' \in [Requests -> Request]
           /\ requests'[r].pc = "idle"
           /\ \A s \in Requests \ {r} : requests'[s] = requests[s]
<1>1. Open(r, Idle)
  BY DEF Answer, Open
<1>2. requests'[r] = Idle
  BY <1>1, IdleType, OpenOne
<1>3. Idle.pc = "idle"
  BY DEF Idle, Work
<1> QED
  BY <1>1, <1>2, <1>3, IdleType, OpenOne

\* What was named stays so, the rows too, no event is added, and no installation is undisturbed.
Kept ==
    /\ \A o \in Orgs, i \in Installs : NamedFor(o, i) => NamedFor(o, i)'
    /\ UNCHANGED <<github, rows>>
    /\ events' \subseteq events
    /\ disturbed \subseteq disturbed'

\* Then a handler that does not move still knows what it knew.
LEMMA HandlerStays ==
    ASSUME IInv, Kept, NEW s \in Requests, requests'[s] = requests[s], requests[s].pc # "idle"
    PROVE  Handler(requests[s])'
<1>1. Handler(requests[s])
  BY DEF IInv, HandlersKnown
<1> QED
  BY <1>1 DEF Handler, Kept, Truthful

\* Events only disappear.
LEMMA EventsStay ==
    ASSUME IInv, Kept
    PROVE  EventsKnown'
  BY DEF IInv, EventsKnown, Kept, Truthful

\* Rows stay as they are.
LEMMA SharersStay == ASSUME IInv, Kept PROVE SharersDisturb'
  BY DEF IInv, SharersDisturb, Kept

\* What was named stays named.
LEMMA BoundStays == ASSUME IInv, Kept PROVE BoundByOwnFlow'
<1>1. ASSUME NEW o \in Orgs, rows'[o].inst # None
      PROVE  NamedFor(o, rows[o].inst)'
  <2>1. rows'[o] = rows[o] /\ rows[o].inst \in Installs /\ NamedFor(o, rows[o].inst)
    BY <1>1 DEF IInv, TypeOK, Row, BoundByOwnFlow, Kept
  <2> QED
    BY <2>1 DEF Kept, NamedFor
<1> QED
  BY <1>1 DEF BoundByOwnFlow

\* The handlers of events are the same as before.
SameHandlers ==
    \A s \in Requests :
       /\ requests'[s].pc = "event" <=> requests[s].pc = "event"
       /\ requests[s].pc = "event" => requests'[s] = requests[s]

LEMMA SamePending ==
    ASSUME SameHandlers, UNCHANGED <<events, github>>, NEW i
    PROVE  (Quiet(i)' <=> Quiet(i)) /\ (Newest(i)' <=> Newest(i))
  BY DEF SameHandlers, Quiet, Newest

\* No installation that has a row becomes quiet, and the newest event is there.
LEMMA QuietStays ==
    ASSUME IInv, Kept,
           \A o \in Orgs : rows[o].inst \in Installs \ disturbed' /\ Quiet(rows[o].inst)' => Quiet(rows[o].inst),
           \A i \in Installs \ disturbed' : Quiet(i) \/ Newest(i) => Quiet(i)' \/ Newest(i)'
    PROVE  StatusFollowsGithub' /\ NewestRemains'
<1>1. StatusFollowsGithub'
  <2>1. ASSUME NEW o \in Orgs, rows'[o].inst # None, rows'[o].inst \notin disturbed',
               Quiet(rows[o].inst)'
        PROVE  rows'[o].status = github'[rows'[o].inst].state
    <3>1. rows' = rows /\ github' = github /\ rows[o].inst \in Installs
      BY <2>1 DEF IInv, TypeOK, Row, Kept
    <3>2. Quiet(rows[o].inst)
      BY <2>1, <3>1
    <3> QED
      BY <2>1, <3>1, <3>2 DEF IInv, StatusFollowsGithub, Kept
  <2> QED
    BY <2>1 DEF StatusFollowsGithub
<1>2. NewestRemains'
  BY DEF IInv, NewestRemains, Kept
<1> QED
  BY <1>1, <1>2

\* With the same handlers, events and rows nothing becomes quiet.
LEMMA PendingStays ==
    ASSUME IInv, Kept, SameHandlers, UNCHANGED events
    PROVE  StatusFollowsGithub' /\ NewestRemains'
<1>1. \A i \in Installs : (Quiet(i)' <=> Quiet(i)) /\ (Newest(i)' <=> Newest(i))
  BY SamePending DEF Kept
<1>2. rows' = rows
  BY DEF Kept
<1>3. \A o \in Orgs : rows[o].inst \in Installs /\ Quiet(rows[o].inst)' => Quiet(rows[o].inst)
  BY <1>1, <1>2
<1> QED
  BY <1>1, <1>3, QuietStays

-----------------------------------------------------------------------------
(* GitHub and the browser.                                                 *)

\* The cookie, and flows that start, concern no handler.
LEMMA BrowserKeeps ==
    ASSUME IInv, UNCHANGED <<github, events, named, rows, requests, disturbed>>,
           cookie' \in {f \in Flows : flows'[f] # None} \cup {None}, flows' \in [Flows -> Orgs \cup {None}],
           \A f \in Flows : flows[f] # None => flows'[f] = flows[f]
    PROVE  IInv'
<1>1. TypeOK'
  BY DEF IInv, TypeOK
<1>2. \A o \in Orgs, i \in Installs : NamedFor(o, i) => NamedFor(o, i)'
  BY InstallationAssumption DEF NamedFor
<1>3. Kept
  BY <1>2 DEF Kept
<1>4. EventsKnown'
  BY DEF IInv, EventsKnown, Truthful
<1>5. HandlersKnown'
  BY <1>3, HandlerStays DEF HandlersKnown
<1>6. WritersDisturb'
  BY DEF IInv, WritersDisturb
<1>7. SameHandlers
  BY DEF SameHandlers
<1>8. StatusFollowsGithub' /\ NewestRemains'
  BY <1>3, <1>7, PendingStays
<1> QED
  BY <1>1, <1>3, <1>4, <1>5, <1>6, <1>8, BoundStays, SharersStay DEF IInv

LEMMA StartFlowKeeps ==
    ASSUME IInv, NEW o \in Orgs, StartFlow(o)
    PROVE  IInv'
<1>1. PICK f \in Flows : flows[f] = None /\ flows' = [flows EXCEPT ![f] = o] /\ cookie' = f
  BY DEF StartFlow
<1>2. flows' \in [Flows -> Orgs \cup {None}] /\ \A g \in Flows : flows[g] # None => flows'[g] = flows[g]
  BY <1>1 DEF IInv, TypeOK
<1>3. cookie' \in {g \in Flows : flows'[g] # None} \cup {None}
  <2>1. flows'[f] = o /\ o # None
    BY <1>1, InstallationAssumption DEF IInv, TypeOK
  <2> QED
    BY <1>1, <2>1
<1> QED
  BY <1>1, <1>2, <1>3, BrowserKeeps DEF StartFlow

LEMMA RewriteCookieKeeps == ASSUME IInv, RewriteCookie PROVE IInv'
<1>1. cookie' \in {f \in Flows : flows'[f] # None} \cup {None}
  BY DEF RewriteCookie, external
<1>2. UNCHANGED <<github, events, named, flows, rows, requests, disturbed>>
  BY DEF RewriteCookie, external
<1>3. flows' \in [Flows -> Orgs \cup {None}]
  BY <1>2 DEF IInv, TypeOK
<1> QED
  BY <1>1, <1>2, <1>3, BrowserKeeps

\* An installation that becomes active had no events yet.
LEMMA InstallKeeps ==
    ASSUME IInv, NEW i \in Installs, Install(i)
    PROVE  IInv'
<1>1. /\ github' = [github EXCEPT ![i].state = "active"]
      /\ github[i].state = "absent"
      /\ UNCHANGED <<events, named, flows, rows, cookie, requests, disturbed>>
  BY DEF Install
<1>2. \A j \in Installs : /\ github'[j].n = github[j].n
                          /\ github'[j].state = IF j = i THEN "active" ELSE github[j].state
  BY <1>1 DEF IInv, TypeOK
<1>3. TypeOK'
  <2>1. [github[i] EXCEPT !.state = "active"] \in [state : Statuses \cup {"absent"}, n : 0..MaxEvents]
    BY DEF IInv, TypeOK, Statuses
  <2>2. github' \in [Installs -> [state : Statuses \cup {"absent"}, n : 0..MaxEvents]]
    BY <1>1, <2>1 DEF IInv, TypeOK
  <2> QED
    BY <1>1, <2>2 DEF IInv, TypeOK
<1>4. \A o, j : NamedFor(o, j) => NamedFor(o, j)'
  BY <1>1 DEF NamedFor
<1>5. BoundByOwnFlow'
  BY <1>1, <1>4 DEF IInv, BoundByOwnFlow
<1>6. github[i].state = "absent" => github[i].n = 0
  BY DEF IInv, EventsKnown
<1>7. \A e : Truthful(e, github) => Truthful(e, github')
  <2>1. ASSUME NEW e, Truthful(e, github) PROVE Truthful(e, github')
    <3>1. e.inst \in Installs /\ e.action \in Actions /\ e.n \in 1..github[e.inst].n
      BY <2>1 DEF Truthful
    <3>2. github'[e.inst].n = github[e.inst].n
      BY <1>2, <3>1
    <3>3. github[e.inst].state # "absent"
      <4>1. github[e.inst].n # 0
        BY <3>1
      <4> QED
        BY <3>1, <4>1 DEF IInv, EventsKnown
    <3>4. github'[e.inst].state = github[e.inst].state
      BY <1>1, <1>2, <3>1, <3>3
    <3> QED
      BY <2>1, <3>2, <3>4 DEF Truthful
  <2> QED BY <2>1
<1>8. EventsKnown'
  <2>2. \A j \in Installs : github'[j].state = "absent" => github'[j].n = 0
    BY <1>2 DEF IInv, EventsKnown
  <2>3. \A e \in events : Truthful(e, github')
    BY <1>7 DEF IInv, EventsKnown
  <2> QED
    BY <1>1, <2>2, <2>3 DEF IInv, EventsKnown, Truthful
<1>9. HandlersKnown'
  <2>1. ASSUME NEW s \in Requests, requests'[s].pc # "idle" PROVE Handler(requests[s])'
    <3>1. Handler(requests[s])
      BY <1>1, <2>1 DEF IInv, HandlersKnown
    <3>2. requests[s].pc = "event" => Truthful(requests[s], github')
      <4>1. requests[s].pc = "event" => Truthful(requests[s], github)
        BY <3>1 DEF Handler
      <4> QED BY <1>1, <1>7, <4>1 DEF Truthful
    <3> QED
      BY <1>1, <1>4, <3>1, <3>2 DEF Handler
  <2> QED
    BY <2>1 DEF HandlersKnown
<1>10. WritersDisturb' /\ SharersDisturb'
  BY <1>1 DEF IInv, WritersDisturb, SharersDisturb
<1>11. NewestRemains'
  BY <1>1, <1>2 DEF IInv, NewestRemains, Quiet, Newest
<1>12. StatusFollowsGithub'
  <2>1. ASSUME NEW o \in Orgs, rows'[o].inst # None, rows'[o].inst \notin disturbed',
               Quiet(rows[o].inst)'
        PROVE  rows'[o].status = github'[rows'[o].inst].state
    <3>1. Quiet(rows[o].inst) /\ rows' = rows /\ disturbed' = disturbed
      BY <1>1, <2>1 DEF Quiet
    <3>2. rows[o].inst \in Installs /\ rows[o].status \in Statuses \cup {None}
      BY <2>1, <3>1 DEF IInv, TypeOK, Row
    <3>3. rows[o].status = github[rows[o].inst].state
      BY <2>1, <3>1 DEF IInv, StatusFollowsGithub
    <3> QED
      BY <1>1, <1>2, <3>1, <3>2, <3>3, InstallationAssumption DEF Statuses
  <2> QED
    BY <2>1 DEF StatusFollowsGithub
<1> QED
  BY <1>3, <1>5, <1>8, <1>9, <1>10, <1>11, <1>12 DEF IInv

\* A new event is the last one.
LEMMA ChangeKeeps ==
    ASSUME IInv, NEW i \in Installs, NEW action \in Actions, Change(i, action)
    PROVE  IInv'
<1> DEFINE n == github[i].n + 1
           e == [inst |-> i, action |-> action, n |-> n]
<1>1. /\ n <= MaxEvents
      /\ github[i].state \in {"active", "suspended"}
      /\ github' = [github EXCEPT ![i] = [state |-> After[action], n |-> n]]
      /\ events' = events \cup {e}
      /\ UNCHANGED <<named, flows, rows, cookie, requests, disturbed>>
  BY DEF Change
<1>2. github[i].n \in 0..MaxEvents /\ n \in 1..MaxEvents
  BY <1>1, InstallationAssumption DEF IInv, TypeOK
<1>3. After[action] \in Statuses
  BY DEF After, Actions, Statuses
<1>4. /\ github'[i].state = After[action] /\ github'[i].n = n
      /\ \A j \in Installs \ {i} : github'[j] = github[j]
  BY <1>1 DEF IInv, TypeOK
<1>5. e \in Event /\ e.inst = i /\ e.action = action /\ e.n = n
  BY <1>2 DEF Event
<1> HIDE DEF e
<1>6. TypeOK'
  <2>1. n \in 0..MaxEvents
    BY <1>2
  <2>2. [state |-> After[action], n |-> n] \in [state : Statuses \cup {"absent"}, n : 0..MaxEvents]
    BY <1>3, <2>1
  <2>3. github' \in [Installs -> [state : Statuses \cup {"absent"}, n : 0..MaxEvents]]
    BY <1>1, <2>2 DEF IInv, TypeOK
  <2>4. events' \subseteq Event
    BY <1>1, <1>5 DEF IInv, TypeOK
  <2> QED
    BY <1>1, <2>3, <2>4 DEF IInv, TypeOK
<1>7. \A o, j : NamedFor(o, j) <=> NamedFor(o, j)'
  BY <1>1 DEF NamedFor
<1>8. ASSUME NEW d, Truthful(d, github)
      PROVE  Truthful(d, github') /\ (d.inst = i => n > d.n)
  <2>1. CASE d.inst = i
    <3>1. d.n \in 1..github[i].n /\ d.action \in Actions
      BY <1>8, <2>1 DEF Truthful
    <3>2. d.n \in 1..n /\ d.n # n /\ n > d.n
      BY <1>2, <3>1
    <3> QED
      BY <1>4, <2>1, <3>1, <3>2 DEF Truthful
  <2>2. CASE d.inst # i
    BY <1>4, <1>8, <2>2 DEF Truthful
  <2> QED BY <2>1, <2>2
<1>9. Truthful(e, github')
  <2>1. n \in 1..n
    BY <1>2
  <2> QED
    BY <1>4, <1>5, <2>1 DEF Truthful
<1>10. EventsKnown'
  <2>1. \A j \in Installs : github'[j].state = "absent" => github'[j].n = 0
    BY <1>3, <1>4 DEF IInv, EventsKnown, Statuses
  <2>2. \A d \in events : Truthful(d, github)
    BY DEF IInv, EventsKnown
  <2>3. \A d \in events' : Truthful(d, github')
    <3>1. ASSUME NEW d \in events PROVE Truthful(d, github')
      BY <1>8, <2>2, <3>1
    <3> QED
      BY <1>1, <1>9, <3>1 DEF Truthful
  <2>4. \A d \in events : d.inst = i => d.n # n
    <3>1. ASSUME NEW d \in events, d.inst = i PROVE d.n # n
      <4>1. d.n \in 1..github[i].n
        BY <2>2, <3>1 DEF Truthful
      <4> QED BY <1>2, <4>1
    <3> QED BY <3>1
  <2>5. \A c, d \in events' : c.inst = d.inst /\ c.n = d.n => c = d
    <3>1. \A c, d \in events : c.inst = d.inst /\ c.n = d.n => c = d
      BY DEF IInv, EventsKnown
    <3>2. \A d \in events : ~(d.inst = e.inst /\ d.n = e.n)
      BY <1>5, <2>4
    <3> QED
      BY <1>1, <3>1, <3>2
  <2> QED
    BY <1>1, <2>1, <2>3, <2>5 DEF IInv, EventsKnown
<1>11. HandlersKnown'
  <2>1. ASSUME NEW s \in Requests, requests'[s].pc # "idle" PROVE Handler(requests[s])'
    <3>1. Handler(requests[s]) /\ requests' = requests
      BY <1>1, <2>1 DEF IInv, HandlersKnown
    <3>2. requests[s].pc = "event" => Truthful(requests[s], github)
      BY <3>1 DEF Handler
    <3>3. requests[s].pc = "event" => /\ Truthful(requests[s], github')
                                      /\ requests[s].inst = i => n > requests[s].n
      BY <1>8, <3>1, <3>2 DEF Truthful
    <3>4. requests[s].pc = "event" /\ requests[s].inst \notin disturbed =>
             \A d \in events' : d.inst = requests[s].inst => d.n > requests[s].n
      BY <1>1, <1>5, <3>1, <3>3 DEF Handler
    <3> QED
      BY <1>1, <1>7, <3>1, <3>3, <3>4 DEF Handler
  <2> QED
    BY <2>1 DEF HandlersKnown
<1>12. WritersDisturb' /\ SharersDisturb' /\ BoundByOwnFlow'
  BY <1>1, <1>7 DEF IInv, WritersDisturb, SharersDisturb, BoundByOwnFlow
<1>13. NewestRemains'
  <2>1. Newest(i)'
    BY <1>1, <1>4, <1>5 DEF Newest
  <2>2. \A j \in Installs \ {i} : Quiet(j) => Quiet(j)'
    BY <1>1, <1>5 DEF Quiet
  <2>3. \A j \in Installs \ {i} : Newest(j) => Newest(j)'
    BY <1>1, <1>4 DEF Newest
  <2> QED
    BY <1>1, <2>1, <2>2, <2>3 DEF IInv, NewestRemains
<1>14. StatusFollowsGithub'
  <2>1. ASSUME NEW o \in Orgs, rows'[o].inst # None, rows'[o].inst \notin disturbed',
               Quiet(rows[o].inst)'
        PROVE  rows'[o].status = github'[rows'[o].inst].state
    <3>1. rows' = rows /\ rows[o].inst \in Installs
      BY <1>1, <2>1 DEF IInv, TypeOK, Row
    <3>2. rows[o].inst # i
      BY <1>1, <1>5, <2>1, <3>1 DEF Quiet
    <3>3. Quiet(rows[o].inst)
      BY <1>1, <2>1, <3>1 DEF Quiet
    <3> QED
      BY <1>1, <1>4, <2>1, <3>1, <3>2, <3>3 DEF IInv, StatusFollowsGithub
  <2> QED
    BY <2>1 DEF StatusFollowsGithub
<1> QED
  BY <1>6, <1>10, <1>11, <1>12, <1>13, <1>14 DEF IInv

\* The installation of a lost event is disturbed.
LEMMA LoseKeeps ==
    ASSUME IInv, NEW e \in events, Lose(e)
    PROVE  IInv'
<1>1. /\ events' = events \ {e} /\ disturbed' = disturbed \cup {e.inst}
      /\ UNCHANGED <<github, named, flows, rows, cookie, requests>>
  BY DEF Lose
<1>2. e.inst \in Installs
  BY DEF IInv, EventsKnown, Truthful
<1>3. TypeOK'
  BY <1>1, <1>2 DEF IInv, TypeOK
<1>4. Kept
  BY <1>1 DEF Kept, NamedFor
<1>5. EventsKnown'
  BY <1>1, <1>4, EventsStay
<1>6. HandlersKnown'
  BY <1>1, <1>4, HandlerStays DEF HandlersKnown
<1>7. WritersDisturb'
  BY <1>1 DEF IInv, WritersDisturb
<1>8. \A i \in Installs \ {e.inst} : Quiet(i)' <=> Quiet(i)
  BY <1>1 DEF Quiet
<1>9. \A i \in Installs \ {e.inst} : Newest(i)' <=> Newest(i)
  BY <1>1 DEF Newest
<1>10. \A o \in Orgs : rows[o].inst \in Installs \ disturbed' /\ Quiet(rows[o].inst)' => Quiet(rows[o].inst)
  BY <1>1 DEF Quiet
<1>11. StatusFollowsGithub' /\ NewestRemains'
  BY <1>1, <1>4, <1>8, <1>9, <1>10, QuietStays
<1> QED
  BY <1>3, <1>4, <1>5, <1>6, <1>7, <1>11, BoundStays, SharersStay DEF IInv

-----------------------------------------------------------------------------
(* Requests open and close.                                                *)

\* A handler that opens beside others of the same row disturbs them, and they it.
LEMMA HandlerOpens ==
    ASSUME IInv, Kept, NEW r \in Requests, requests[r].pc = "idle",
           NEW new \in Request, Open(r, new), new.pc # "idle", Handler(new)',
           Crowd(new.org, new.inst) \subseteq disturbed'
    PROVE  HandlersKnown' /\ WritersDisturb'
<1>1. /\ requests' \in [Requests -> Request] /\ requests'[r] = new
      /\ \A s \in Requests \ {r} : requests'[s] = requests[s]
  BY OpenOne DEF IInv, TypeOK
<1>2. HandlersKnown'
  <2>1. ASSUME NEW s \in Requests, requests'[s].pc # "idle" PROVE Handler(requests[s])'
    <3>1. CASE s = r
      BY <1>1, <3>1
    <3>2. CASE s # r
      BY <1>1, <2>1, <3>2, HandlerStays
    <3> QED BY <3>1, <3>2
  <2> QED
    BY <2>1 DEF HandlersKnown
<1>3. \A s \in Requests : requests[s].pc # "idle" /\ requests[s].org = new.org
                           => new.inst \in disturbed' /\ requests[s].inst \in disturbed'
  BY DEF Crowd, Writers
<1>4. WritersDisturb'
  <2>1. ASSUME NEW s \in Requests, NEW t \in Requests, s # t, requests'[s].pc # "idle",
               requests'[t].pc # "idle", requests'[s].org = requests'[t].org
        PROVE  requests'[s].inst \in disturbed'
    <3>1. CASE s = r
      <4>1. requests'[t] = requests[t]
        BY <1>1, <2>1, <3>1
      <4> QED
        BY <1>1, <1>3, <2>1, <3>1, <4>1
    <3>2. CASE t = r
      <4>1. requests'[s] = requests[s]
        BY <1>1, <2>1, <3>2
      <4> QED
        BY <1>1, <1>3, <2>1, <3>2, <4>1
    <3>3. CASE s # r /\ t # r
      BY <1>1, <2>1, <3>3 DEF IInv, WritersDisturb, Kept
    <3> QED BY <3>1, <3>2, <3>3
  <2> QED
    BY <2>1 DEF WritersDisturb
<1> QED BY <1>2, <1>4

LEMMA CallbackKeeps ==
    ASSUME IInv, NEW r \in Requests, Callback(r)
    PROVE  IInv'
<1>1. PICK f \in Flows, i \in Installs :
          IF cookie = f
          THEN /\ Open(r, Work("callback", flows[f], i))
               /\ named' = named \cup {<<f, i>>}
               /\ disturbed' = disturbed \cup Crowd(flows[f], i)
               /\ UNCHANGED cookie
          ELSE /\ cookie' = None
               /\ UNCHANGED <<requests, named, disturbed>>
  BY DEF Callback
<1>2. requests[r].pc = "idle" /\ UNCHANGED <<github, events, flows, rows>>
  BY DEF Callback, external
<1>3. CASE cookie # f
  <2>1. cookie' = None /\ UNCHANGED <<requests, named, disturbed>>
    BY <1>1, <1>3
  <2>2. flows' \in [Flows -> Orgs \cup {None}] /\ cookie' \in {h \in Flows : flows'[h] # None} \cup {None}
    BY <1>2, <2>1 DEF IInv, TypeOK
  <2> QED
    BY <1>2, <2>1, <2>2, BrowserKeeps
<1>4. CASE cookie = f
  <2>2. flows[f] \in Orgs
    BY <1>4, InstallationAssumption DEF IInv, TypeOK
  <2>a. Work("callback", flows[f], i) \in Request
    BY <2>2, InstallationAssumption DEF Work, Request, NoRow, Row
  <2>b. PICK new \in Request : new = Work("callback", flows[f], i)
    BY <2>a
  <2>1. /\ Open(r, new) /\ named' = named \cup {<<f, i>>}
        /\ disturbed' = disturbed \cup Crowd(flows[f], i) /\ cookie' = cookie
    BY <1>1, <1>4, <2>b
  <2>3. new.pc = "callback" /\ new.org = flows[f] /\ new.inst = i
    BY <2>b DEF Work
  <2>4. Crowd(flows[f], i) \subseteq Installs
    <3>1. \A s \in Requests : requests[s].pc # "idle" => requests[s].inst \in Installs
      BY DEF IInv, HandlersKnown, Handler
    <3> QED
      BY <2>2, <3>1 DEF Crowd, Writers
  <2>5. TypeOK'
    BY <1>2, <2>1, <2>3, <2>4, OpenOne DEF IInv, TypeOK
  <2>6. Kept
    BY <1>2, <2>1 DEF Kept, NamedFor
  <2>7. Handler(new)'
    <3>1. NamedFor(new.org, new.inst)'
      BY <1>2, <2>1, <2>3 DEF NamedFor
    <3> QED
      BY <2>2, <2>3, <3>1 DEF Handler
  <2>8. HandlersKnown' /\ WritersDisturb'
    BY <1>2, <2>1, <2>3, <2>6, <2>7, HandlerOpens
  <2>9. SameHandlers
    <3>1. requests'[r] = new /\ \A s \in Requests \ {r} : requests'[s] = requests[s]
      BY <2>1, <2>3, OpenOne DEF IInv, TypeOK
    <3> QED
      BY <1>2, <2>3, <3>1 DEF SameHandlers
  <2>10. EventsKnown' /\ BoundByOwnFlow' /\ SharersDisturb'
    BY <1>2, <2>6, EventsStay, BoundStays, SharersStay
  <2>11. StatusFollowsGithub' /\ NewestRemains'
    BY <1>2, <2>6, <2>9, PendingStays
  <2> QED
    BY <2>5, <2>8, <2>10, <2>11 DEF IInv
<1> QED BY <1>3, <1>4

\* What is loaded is the row.
LEMMA LoadRowKeeps ==
    ASSUME IInv, NEW r \in Requests, LoadRow(r)
    PROVE  IInv'
<1> DEFINE q == requests[r]
<1>a. q.pc = "callback"
  BY DEF LoadRow
<1>2. q \in Request /\ Handler(q)
  BY <1>a DEF IInv, TypeOK, HandlersKnown
<1>3. q.org \in Orgs /\ rows[q.org] \in Row
  BY <1>2 DEF IInv, TypeOK, Handler
<1>b. [q EXCEPT !.pc = "loaded", !.seen = rows[q.org]] \in Request
  BY <1>2, <1>3 DEF Request
<1>c. PICK new \in Request : new = [q EXCEPT !.pc = "loaded", !.seen = rows[q.org]]
  BY <1>b
<1>1. /\ q.pc = "callback" /\ Open(r, new)
      /\ UNCHANGED <<github, events, named, flows, rows, cookie, disturbed>>
  BY <1>c DEF LoadRow, external
<1>4. new.pc = "loaded" /\ new.org = q.org /\ new.inst = q.inst /\ new.seen = rows[q.org]
  BY <1>2, <1>c DEF Request
<1>5. /\ requests' \in [Requests -> Request] /\ requests'[r] = new
      /\ \A s \in Requests \ {r} : requests'[s] = requests[s]
  BY <1>1, <1>4, OpenOne DEF IInv, TypeOK
<1>6. TypeOK'
  BY <1>1, <1>5 DEF IInv, TypeOK
<1>7. Kept
  BY <1>1 DEF Kept, NamedFor
<1>8. Handler(new)'
  <2>1. NamedFor(new.org, new.inst)'
    BY <1>1, <1>2, <1>4 DEF Handler, NamedFor
  <2> QED
    BY <1>1, <1>2, <1>4, <2>1 DEF Handler
<1>9. HandlersKnown'
  BY <1>5, <1>7, <1>8, HandlerStays DEF HandlersKnown
<1>10. WritersDisturb'
  <2>1. \A s \in Requests : /\ requests'[s].pc # "idle" => requests[s].pc # "idle"
                            /\ requests'[s].org = requests[s].org
                            /\ requests'[s].inst = requests[s].inst
    BY <1>1, <1>4, <1>5
  <2> QED
    BY <1>1, <2>1 DEF IInv, WritersDisturb
<1>11. SameHandlers
  BY <1>1, <1>4, <1>5 DEF SameHandlers
<1>12. EventsKnown' /\ BoundByOwnFlow' /\ SharersDisturb'
  BY <1>1, <1>7, EventsStay, BoundStays, SharersStay
<1>13. StatusFollowsGithub' /\ NewestRemains'
  BY <1>1, <1>7, <1>11, PendingStays
<1> QED
  BY <1>6, <1>9, <1>10, <1>12, <1>13 DEF IInv

\* A request that ends without a write.
LEMMA HandlerEnds ==
    ASSUME IInv, Kept, NEW r \in Requests, Answer(r)
    PROVE  HandlersKnown' /\ WritersDisturb'
<1>1. /\ requests'[r].pc = "idle"
      /\ \A s \in Requests \ {r} : requests'[s] = requests[s]
  BY AnswerOne DEF IInv, TypeOK
<1>2. HandlersKnown'
  BY <1>1, HandlerStays DEF HandlersKnown
<1>3. WritersDisturb'
  BY <1>1 DEF IInv, WritersDisturb, Kept
<1> QED BY <1>2, <1>3

LEMMA CallbackFailsKeeps ==
    ASSUME IInv, NEW r \in Requests, CallbackFails(r)
    PROVE  IInv'
<1>1. /\ requests[r].pc \in {"callback", "loaded"} /\ cookie' \in {cookie, None} /\ Answer(r)
      /\ UNCHANGED <<github, events, named, flows, rows, disturbed>>
  BY DEF CallbackFails, external
<1>2. TypeOK'
  BY <1>1, AnswerOne DEF IInv, TypeOK
<1>3. Kept
  BY <1>1 DEF Kept, NamedFor
<1>4. SameHandlers
  <2>1. /\ requests'[r].pc = "idle"
        /\ \A s \in Requests \ {r} : requests'[s] = requests[s]
    BY <1>1, AnswerOne DEF IInv, TypeOK
  <2> QED
    BY <1>1, <2>1 DEF SameHandlers
<1>5. EventsKnown' /\ BoundByOwnFlow' /\ SharersDisturb'
  BY <1>1, <1>3, EventsStay, BoundStays, SharersStay
<1>6. StatusFollowsGithub' /\ NewestRemains'
  BY <1>1, <1>3, <1>4, PendingStays
<1>7. HandlersKnown' /\ WritersDisturb'
  BY <1>1, <1>3, HandlerEnds
<1> QED
  BY <1>2, <1>5, <1>6, <1>7 DEF IInv

\* An event that was not applied disturbs its installation.
LEMMA EventFailsKeeps ==
    ASSUME IInv, NEW r \in Requests, EventFails(r)
    PROVE  IInv'
<1> DEFINE i == requests[r].inst
<1>1. /\ requests[r].pc = "event" /\ disturbed' = disturbed \cup {i} /\ Answer(r)
      /\ UNCHANGED <<github, events, named, flows, rows, cookie>>
  BY DEF EventFails, external
<1>2. i \in Installs
  BY <1>1 DEF IInv, HandlersKnown, Handler
<1>3. TypeOK'
  BY <1>1, <1>2, AnswerOne DEF IInv, TypeOK
<1>4. Kept
  BY <1>1 DEF Kept, NamedFor
<1>5. /\ requests'[r].pc = "idle"
      /\ \A s \in Requests \ {r} : requests'[s] = requests[s]
  BY <1>1, AnswerOne DEF IInv, TypeOK
<1>6. \A j \in Installs \ disturbed' : Quiet(j)' <=> Quiet(j)
  BY <1>1, <1>5 DEF Quiet
<1>7. \A j \in Installs \ disturbed' : Newest(j)' <=> Newest(j)
  BY <1>1, <1>5 DEF Newest
<1>8. \A o \in Orgs : rows[o].inst \in Installs \ disturbed' /\ Quiet(rows[o].inst)' => Quiet(rows[o].inst)
  BY <1>1, <1>5 DEF Quiet
<1>9. StatusFollowsGithub' /\ NewestRemains'
  BY <1>4, <1>6, <1>7, <1>8, QuietStays
<1>10. EventsKnown' /\ BoundByOwnFlow' /\ SharersDisturb'
  BY <1>1, <1>4, EventsStay, BoundStays, SharersStay
<1>11. HandlersKnown' /\ WritersDisturb'
  BY <1>1, <1>4, HandlerEnds
<1> QED
  BY <1>3, <1>9, <1>10, <1>11 DEF IInv

-----------------------------------------------------------------------------
(* The handlers that write a row.                                          *)

\* When a handler writes its row, the other handlers of the row are disturbed, and
\* so is the installation the row has, unless it is the handler's.
LEMMA RowWritten ==
    ASSUME IInv, TypeOK', NEW r \in Requests, requests[r].pc \in {"loaded", "event"}, Answer(r),
           UNCHANGED <<external, named>>, disturbed \subseteq disturbed', NEW o, o = requests[r].org,
           \A p \in Orgs \ {o} : rows'[p] = rows[p],
           rows'[o].inst = requests[r].inst \/ rows'[o].inst \in disturbed
    PROVE  EventsKnown' /\ HandlersKnown' /\ WritersDisturb'
<1>1. /\ requests'[r].pc = "idle"
      /\ \A s \in Requests \ {r} : requests'[s] = requests[s]
  BY AnswerOne DEF IInv, TypeOK
<1>2. UNCHANGED <<github, events, named, flows>>
  BY DEF external
<1>3. EventsKnown'
  BY <1>2 DEF IInv, EventsKnown, Truthful
<1>4. WritersDisturb'
  BY <1>1 DEF IInv, WritersDisturb
<1>5. HandlersKnown'
  <2>1. ASSUME NEW s \in Requests, requests'[s].pc # "idle" PROVE Handler(requests[s])'
    <3>1. s # r /\ requests'[s] = requests[s] /\ Handler(requests[s])
      BY <1>1, <2>1 DEF IInv, HandlersKnown
    <3>2. NamedFor(requests[s].org, requests[s].inst)' <=> NamedFor(requests[s].org, requests[s].inst)
      BY <1>2, <3>1 DEF NamedFor
    <3>3. CASE requests[s].org = o
      <4>1. requests[s].inst \in disturbed /\ requests[r].inst \in disturbed
        BY <2>1, <3>1, <3>3 DEF IInv, WritersDisturb
      <4>2. rows'[requests[s].org].inst \in disturbed'
        BY <3>3, <4>1
      <4> QED
        BY <1>2, <3>1, <3>2, <4>1, <4>2 DEF Handler, Truthful
    <3>4. CASE requests[s].org # o
      <4>1. rows'[requests[s].org] = rows[requests[s].org]
        BY <3>1, <3>4 DEF Handler
      <4> QED
        BY <1>2, <3>1, <3>2, <4>1 DEF Handler, Truthful
    <3> QED BY <3>3, <3>4
  <2> QED
    BY <2>1 DEF HandlersKnown
<1> QED BY <1>3, <1>4, <1>5

\* StatusFollowsGithub row by row.
LEMMA StatusFrom ==
    ASSUME TypeOK',
           \A o \in Orgs, i \in Installs :
              rows'[o].inst = i /\ i \notin disturbed' /\ Quiet(i)' => rows'[o].status = github'[i].state
    PROVE  StatusFollowsGithub'
<1>1. ASSUME NEW o \in Orgs, rows'[o].inst # None, rows'[o].inst \notin disturbed',
             Quiet(rows[o].inst)'
      PROVE  rows'[o].status = github'[rows'[o].inst].state
  <2>1. PICK i \in Installs : i = rows'[o].inst
    BY <1>1 DEF TypeOK, Row
  <2>2. Quiet(i)'
    BY <1>1, <2>1 DEF Quiet
  <2> QED
    BY <1>1, <2>1, <2>2
<1> QED
  BY <1>1 DEF StatusFollowsGithub

\* What an upsert writes: the installation of the flow, except that a row whose
\* installation was changed meanwhile may keep that one, which is then disturbed.
LEMMA Upserted ==
    ASSUME IInv, NEW r \in Requests, requests[r].pc = "loaded", Upsert(r),
           NEW o, o = requests[r].org, NEW i, i = requests[r].inst
    PROVE  /\ o \in Orgs /\ i \in Installs
           /\ rows' \in [Orgs -> Row]
           /\ \A p \in Orgs \ {o} : rows'[p] = rows[p]
           /\ rows'[o].inst = i \/ (rows'[o].inst = rows[o].inst /\ rows[o].inst \in disturbed)
           /\ i \notin disturbed => rows'[o] = [inst |-> i, status |-> "active"]
<1> DEFINE q == requests[r]
           new == [inst |-> i, status |-> "active"]
<1>1. Handler(q) /\ q \in Request
  BY DEF IInv, TypeOK, HandlersKnown
<1>2. o \in Orgs /\ i \in Installs /\ new \in Row
  BY <1>1 DEF Handler, Row, Statuses
<1>3. /\ i \notin disturbed => q.seen = rows[o]
      /\ q.seen = rows[o] \/ rows[o].inst \in disturbed
  BY <1>1 DEF Handler
<1>4. CASE q.seen = NoRow
  <2>1. rows' = [rows EXCEPT ![o] = new]
    BY <1>4 DEF Upsert
  <2> QED
    BY <1>2, <2>1 DEF IInv, TypeOK
<1>5. CASE q.seen # NoRow
  <2>1. rows' = [rows EXCEPT ![o] = Updated(rows[o], q.seen, new)]
    BY <1>5 DEF Upsert
  <2>2. rows[o] \in Row /\ q.seen \in Row
    BY <1>1, <1>2 DEF IInv, TypeOK, Request
  <2>3. Updated(rows[o], q.seen, new) \in Row
    BY <1>2, <2>2 DEF Updated, Row
  <2>4. Updated(rows[o], q.seen, new).inst = IF i = q.seen.inst THEN rows[o].inst ELSE i
    BY DEF Updated
  <2>5. q.seen = rows[o] => Updated(rows[o], q.seen, new) = new
    BY DEF Updated
  <2>6. rows'[o] = Updated(rows[o], q.seen, new)
    BY <1>2, <2>1 DEF IInv, TypeOK
  <2>7. rows'[o].inst = i \/ (rows'[o].inst = rows[o].inst /\ rows[o].inst \in disturbed)
    BY <1>3, <2>4, <2>6
  <2>8. rows' \in [Orgs -> Row] /\ \A p \in Orgs \ {o} : rows'[p] = rows[p]
    BY <1>2, <2>1, <2>3 DEF IInv, TypeOK
  <2>9. i \notin disturbed => rows'[o] = new
    BY <1>3, <2>5, <2>6
  <2> QED
    BY <1>2, <2>7, <2>8, <2>9
<1> QED BY <1>4, <1>5

LEMMA SaveInstallationKeeps ==
    ASSUME IInv, NEW r \in Requests, SaveInstallation(r)
    PROVE  IInv'
<1>1. PICK o \in Orgs : o = requests[r].org
  BY DEF IInv, SaveInstallation, HandlersKnown, Handler
<1>2. PICK i \in Installs : i = requests[r].inst
  BY DEF IInv, SaveInstallation, HandlersKnown, Handler
<1>3. /\ requests[r].pc = "loaded" /\ Upsert(r) /\ cookie' = None /\ Answer(r)
      /\ disturbed' = disturbed \cup (IF Doubtful(o, i) THEN {i} ELSE {})
      /\ UNCHANGED <<github, events, named, flows>>
  BY <1>1, <1>2 DEF SaveInstallation, external
<1>4. NamedFor(o, i)
  BY <1>1, <1>2, <1>3 DEF IInv, HandlersKnown, Handler
<1>5. /\ rows' \in [Orgs -> Row]
      /\ \A p \in Orgs \ {o} : rows'[p] = rows[p]
      /\ rows'[o].inst = i \/ (rows'[o].inst = rows[o].inst /\ rows[o].inst \in disturbed)
      /\ i \notin disturbed => rows'[o] = [inst |-> i, status |-> "active"]
  BY <1>1, <1>2, <1>3, Upserted
<1>6. TypeOK'
  BY <1>3, <1>5, AnswerOne DEF IInv, TypeOK
<1>7. EventsKnown' /\ HandlersKnown' /\ WritersDisturb'
  BY <1>1, <1>2, <1>3, <1>5, <1>6, RowWritten DEF external
<1>8. BoundByOwnFlow'
  <2>1. ASSUME NEW p \in Orgs, rows'[p].inst # None PROVE NamedFor(p, rows[p].inst)'
    <3>1. NamedFor(p, rows'[p].inst)
      BY <1>4, <1>5, <2>1 DEF IInv, BoundByOwnFlow
    <3> QED
      BY <1>3, <3>1 DEF NamedFor
  <2> QED
    BY <2>1 DEF BoundByOwnFlow
<1>9. SharersDisturb'
  <2>1. \A p \in Orgs \ {o} : rows[p].inst = i => i \in disturbed'
    BY <1>3 DEF Doubtful
  <2>2. ASSUME NEW p \in Orgs, NEW s \in Orgs, p # s, rows'[p].inst = rows'[s].inst, rows'[p].inst # None
        PROVE  rows'[p].inst \in disturbed'
    BY <1>3, <1>5, <2>1, <2>2 DEF IInv, SharersDisturb
  <2> QED
    BY <2>2 DEF SharersDisturb
<1>10. SameHandlers
  <2>1. /\ requests'[r].pc = "idle"
        /\ \A s \in Requests \ {r} : requests'[s] = requests[s]
    BY <1>3, AnswerOne DEF IInv, TypeOK
  <2> QED
    BY <1>3, <2>1 DEF SameHandlers
<1>11. \A j \in Installs : (Quiet(j)' <=> Quiet(j)) /\ (Newest(j)' <=> Newest(j))
  BY <1>3, <1>10, SamePending
<1>12. NewestRemains'
  BY <1>3, <1>11 DEF IInv, NewestRemains
<1>13. StatusFollowsGithub'
  <2>1. ASSUME NEW p \in Orgs, NEW j \in Installs, rows'[p].inst = j, j \notin disturbed', Quiet(j)'
        PROVE  rows'[p].status = github'[j].state
    <3>1. Quiet(j)
      BY <1>11, <2>1
    <3>2. CASE p # o
      BY <1>3, <1>5, <2>1, <3>1, <3>2, InstallationAssumption DEF IInv, StatusFollowsGithub
    <3>3. CASE p = o
      <4>1. j = i
        BY <1>3, <1>5, <2>1, <3>3
      <4>2. ~Doubtful(o, i)
        BY <1>3, <2>1, <4>1
      <4> QED
        BY <1>3, <1>5, <2>1, <3>3, <4>1, <4>2 DEF Doubtful
    <3> QED BY <3>2, <3>3
  <2> QED
    BY <1>6, <2>1, StatusFrom
<1> QED
  BY <1>6, <1>7, <1>8, <1>9, <1>12, <1>13 DEF IInv

\* An event that is taken up is the oldest, or its installation is disturbed.  If
\* an undisturbed installation has no row, none of its events is being handled.
LEMMA DeliverKeeps ==
    ASSUME IInv, NEW r \in Requests, NEW e \in events, Deliver(r, e)
    PROVE  IInv'
<1> DEFINE late == \E d \in events : d.inst = e.inst /\ d.n < e.n
<1>1. /\ requests[r].pc = "idle" /\ events' = events \ {e}
      /\ UNCHANGED <<github, named, flows, rows, cookie>>
  BY DEF Deliver
<1>2. e \in Event /\ Truthful(e, github)
  BY DEF IInv, TypeOK, EventsKnown
<1>3. e.inst \in Installs /\ e.action \in Actions /\ e.n \in 1..MaxEvents
  BY <1>2 DEF Event
<1>4. \A s \in Requests : requests[s].pc # "idle" => requests[s].inst \in Installs
  BY DEF IInv, HandlersKnown, Handler
<1>5. late => e.inst \in disturbed'
  BY DEF Deliver
<1>6. ASSUME NEW d \in events, d # e, d.inst = e.inst, e.inst \notin disturbed'
      PROVE  d.n > e.n
  <2>1. d.n # e.n
    BY <1>6 DEF IInv, EventsKnown
  <2>2. ~(d.n < e.n)
    BY <1>5, <1>6
  <2>3. d.n \in Nat /\ e.n \in Nat
    BY <1>3, InstallationAssumption DEF IInv, TypeOK, Event
  <2> QED BY <2>1, <2>2, <2>3
<1>7. CASE \E o \in Orgs : Having(e.inst) = {o}
  <2>1. PICK o \in Having(e.inst) :
          /\ Open(r, [pc |-> "event", org |-> o, inst |-> e.inst, seen |-> rows[o],
                      action |-> e.action, n |-> e.n])
          /\ disturbed' = disturbed \cup Crowd(o, e.inst) \cup (IF late THEN {e.inst} ELSE {})
    BY <1>7 DEF Deliver
  <2>2. o \in Orgs /\ rows[o].inst = e.inst /\ rows[o] \in Row
    BY DEF Having, IInv, TypeOK
  <2>3. [pc |-> "event", org |-> o, inst |-> e.inst, seen |-> rows[o],
         action |-> e.action, n |-> e.n] \in Request
    BY <1>3, <2>2, InstallationAssumption DEF Request
  <2>4. PICK new \in Request :
           new = [pc |-> "event", org |-> o, inst |-> e.inst, seen |-> rows[o],
                  action |-> e.action, n |-> e.n]
    BY <2>3
  <2>5. /\ new.pc = "event" /\ new.org = o /\ new.inst = e.inst /\ new.seen = rows[o]
        /\ new.action = e.action /\ new.n = e.n
    BY <2>4
  <2>6. Open(r, new) /\ disturbed' = disturbed \cup Crowd(o, e.inst) \cup (IF late THEN {e.inst} ELSE {})
    BY <2>1, <2>4
  <2>7. /\ requests' \in [Requests -> Request] /\ requests'[r] = new
        /\ \A s \in Requests \ {r} : requests'[s] = requests[s]
    BY <2>6, OpenOne DEF IInv, TypeOK
  <2>8. Crowd(o, e.inst) \subseteq Installs
    BY <1>3, <1>4 DEF Crowd, Writers
  <2>9. TypeOK'
    <3>1. disturbed' \subseteq Installs
      BY <1>3, <2>6, <2>8 DEF IInv, TypeOK
    <3> QED
      BY <1>1, <2>7, <3>1 DEF IInv, TypeOK
  <2>10. Kept
    BY <1>1, <2>6 DEF Kept, NamedFor
  <2>11. Handler(new)'
    <3>1. Truthful(new, github')
      BY <1>1, <1>2, <2>5 DEF Truthful
    <3>2. new.inst \notin disturbed' => \A d \in events' : d.inst = new.inst => d.n > new.n
      BY <1>1, <1>6, <2>5
    <3> QED
      BY <1>1, <1>3, <2>2, <2>5, <3>1, <3>2 DEF Handler
  <2>12. HandlersKnown' /\ WritersDisturb'
    BY <1>1, <2>5, <2>6, <2>10, <2>11, HandlerOpens
  <2>13. EventsKnown' /\ BoundByOwnFlow' /\ SharersDisturb'
    BY <1>1, <2>10, EventsStay, BoundStays, SharersStay
  <2>14. ASSUME NEW p \in Orgs, rows[p].inst \in Installs \ disturbed', Quiet(rows[p].inst)'
         PROVE  Quiet(rows[p].inst)
    <3>1. \A s \in Requests : requests'[s].pc = "event" => requests'[s].inst # rows[p].inst
      BY <1>1, <2>14 DEF Quiet
    <3>2. \A d \in events \ {e} : d.inst # rows[p].inst
      BY <1>1, <2>14 DEF Quiet
    <3>3. e.inst # rows[p].inst
      BY <2>5, <2>7, <3>1
    <3> QED
      BY <1>1, <2>7, <3>1, <3>2, <3>3 DEF Quiet
  <2>15. \A i \in Installs : Newest(i) => Newest(i)'
    <3>1. ASSUME NEW i \in Installs, Newest(i) PROVE Newest(i)'
      <4>1. CASE \E d \in events : d.inst = i /\ d.n = github[i].n
        BY <1>1, <2>5, <2>7, <4>1 DEF Newest
      <4>2. CASE \E s \in Requests : requests[s].pc = "event" /\ requests[s].inst = i
                                     /\ requests[s].n = github[i].n
        BY <1>1, <2>7, <4>2 DEF Newest
      <4> QED BY <3>1, <4>1, <4>2 DEF Newest
    <3> QED BY <3>1
  <2>16. \A i \in Installs : Quiet(i) => Quiet(i)'
    <3>1. ASSUME NEW i \in Installs, Quiet(i) PROVE Quiet(i)'
      <4>1. e.inst # i
        BY <3>1 DEF Quiet
      <4>2. \A s \in Requests : requests'[s].pc = "event" => requests'[s].inst # i
        BY <2>5, <2>7, <3>1, <4>1 DEF Quiet
      <4> QED
        BY <1>1, <3>1, <4>2 DEF Quiet
    <3> QED BY <3>1
  <2>17. StatusFollowsGithub' /\ NewestRemains'
    BY <2>10, <2>14, <2>15, <2>16, QuietStays
  <2> QED
    BY <2>9, <2>12, <2>13, <2>17 DEF IInv
<1>8. CASE ~\E o \in Orgs : Having(e.inst) = {o}
  <2>1. /\ requests' = requests
        /\ disturbed' = disturbed \cup (IF late \/ Having(e.inst) # {} THEN {e.inst} ELSE {})
    BY <1>8 DEF Deliver
  <2>2. TypeOK'
    BY <1>1, <1>3, <2>1 DEF IInv, TypeOK
  <2>3. Kept
    BY <1>1, <2>1 DEF Kept, NamedFor
  <2>4. EventsKnown' /\ BoundByOwnFlow' /\ SharersDisturb'
    BY <1>1, <2>3, EventsStay, BoundStays, SharersStay
  <2>5. HandlersKnown'
    BY <2>1, <2>3, HandlerStays DEF HandlersKnown
  <2>6. WritersDisturb'
    BY <2>1 DEF IInv, WritersDisturb
  <2>7. \A i \in Installs \ {e.inst} : Quiet(i)' <=> Quiet(i)
    BY <1>1, <2>1 DEF Quiet
  <2>8. \A i \in Installs \ {e.inst} : Newest(i)' <=> Newest(i)
    BY <1>1, <2>1 DEF Newest
  <2>9. ASSUME e.inst \notin disturbed'
        PROVE  /\ \A o \in Orgs : rows[o].inst # e.inst
               /\ Newest(e.inst) => Quiet(e.inst)' \/ Newest(e.inst)'
    <3>1. Having(e.inst) = {} /\ e.inst \notin disturbed
      BY <2>1, <2>9
    <3>2. \A o \in Orgs : rows[o].inst # e.inst
      BY <3>1 DEF Having
    <3>3. ASSUME NEW s \in Requests, requests[s].pc = "event", requests[s].inst = e.inst
          PROVE  FALSE
      <4>1. Handler(requests[s])
        BY <3>3 DEF IInv, HandlersKnown
      <4>2. requests[s].seen.inst = e.inst /\ requests[s].seen = rows[requests[s].org]
        BY <3>1, <3>3, <4>1 DEF Handler
      <4> QED
        BY <3>2, <4>1, <4>2 DEF Handler
    <3>4. ASSUME Newest(e.inst), ~Quiet(e.inst)' PROVE Newest(e.inst)'
      <4>1. PICK d \in events \ {e} : d.inst = e.inst
        BY <1>1, <2>1, <3>3, <3>4 DEF Quiet
      <4>2. d.n > e.n
        BY <1>6, <2>9, <4>1
      <4>3. d.n \in 1..github[e.inst].n
        BY <4>1 DEF IInv, EventsKnown, Truthful
      <4>4. github[e.inst].n \in Nat /\ e.n \in Nat
        BY <1>3, InstallationAssumption DEF IInv, TypeOK
      <4>5. e.n # github[e.inst].n
        BY <4>2, <4>3, <4>4
      <4>6. \E c \in events : c.inst = e.inst /\ c.n = github[e.inst].n
        BY <3>3, <3>4 DEF Newest
      <4> QED
        BY <1>1, <4>5, <4>6 DEF Newest
    <3> QED BY <3>2, <3>4
  <2>10. \A o \in Orgs : rows[o].inst \in Installs \ disturbed' /\ Quiet(rows[o].inst)' => Quiet(rows[o].inst)
    <3>1. ASSUME NEW o \in Orgs, rows[o].inst \in Installs \ disturbed', Quiet(rows[o].inst)'
          PROVE  Quiet(rows[o].inst)
      <4>1. rows[o].inst # e.inst
        BY <2>9, <3>1
      <4> QED
        BY <1>1, <2>1, <3>1, <4>1 DEF Quiet
    <3> QED BY <3>1
  <2>11. ASSUME NEW i \in Installs \ disturbed', Quiet(i) \/ Newest(i)
         PROVE  Quiet(i)' \/ Newest(i)'
    <3>1. CASE i = e.inst
      <4>1. ~Quiet(i)
        BY <3>1 DEF Quiet
      <4> QED
        BY <2>9, <2>11, <3>1, <4>1
    <3>2. CASE i # e.inst
      BY <2>7, <2>8, <2>11, <3>2
    <3> QED BY <3>1, <3>2
  <2>12. StatusFollowsGithub' /\ NewestRemains'
    BY <2>3, <2>10, <2>11, QuietStays
  <2> QED
    BY <2>2, <2>4, <2>5, <2>6, <2>12 DEF IInv
<1> QED BY <1>7, <1>8

\* No other event of an undisturbed installation is handled at the same time.
LEMMA OneHandler ==
    ASSUME IInv, NEW r \in Requests, requests[r].pc = "event", NEW s \in Requests \ {r},
           requests[s].pc = "event", requests[s].inst = requests[r].inst,
           requests[r].inst \notin disturbed
    PROVE  FALSE
<1>1. Handler(requests[r]) /\ Handler(requests[s])
  BY DEF IInv, HandlersKnown
<1>2. /\ rows[requests[r].org].inst = requests[r].inst
      /\ rows[requests[s].org].inst = requests[r].inst
  BY <1>1 DEF Handler
<1>3. requests[r].inst # None /\ requests[r].org \in Orgs /\ requests[s].org \in Orgs
  BY <1>1, InstallationAssumption DEF Handler
<1>4. requests[r].org = requests[s].org
  BY <1>2, <1>3 DEF IInv, SharersDisturb
<1> QED
  BY <1>4 DEF IInv, WritersDisturb

\* The last event leaves the status that GitHub has.
LEMMA ApplyKeeps ==
    ASSUME IInv, NEW r \in Requests, Apply(r)
    PROVE  IInv'
<1>1. requests[r].pc = "event" /\ Handler(requests[r]) /\ requests[r] \in Request
  BY DEF Apply, IInv, TypeOK, HandlersKnown
<1>2. PICK o \in Orgs : o = requests[r].org
  BY <1>1 DEF Handler
<1>3. PICK i \in Installs : i = requests[r].inst
  BY <1>1 DEF Handler
<1>4. PICK seen \in Row : seen = requests[r].seen
  BY <1>1 DEF Request
<1>5. PICK action \in Actions : action = requests[r].action
  BY <1>1 DEF Handler, Truthful
<1>6. /\ rows' = [rows EXCEPT ![o] = Updated(rows[o], seen, [seen EXCEPT !.status = NewStatus(action)])]
      /\ Answer(r) /\ UNCHANGED <<github, events, named, flows, cookie, disturbed>>
  BY <1>2, <1>4, <1>5 DEF Apply, external
<1>7. NewStatus(action) = After[action] /\ NewStatus(action) \in Statuses
  BY DEF Actions, NewStatus, After, Statuses
<1>8. PICK new \in Row : new = [seen EXCEPT !.status = NewStatus(action)]
  BY <1>7 DEF Row
<1>9. new.inst = seen.inst /\ new.status = NewStatus(action)
  BY <1>8 DEF Row
<1>10. /\ Updated(rows[o], seen, new) \in Row
       /\ Updated(rows[o], seen, new).inst = rows[o].inst
       /\ rows[o] = seen => Updated(rows[o], seen, new).status = NewStatus(action)
  BY <1>9 DEF Updated, Row, IInv, TypeOK
<1>11. /\ rows' \in [Orgs -> Row]
       /\ rows'[o] = Updated(rows[o], seen, new)
       /\ \A p \in Orgs \ {o} : rows'[p] = rows[p]
  BY <1>6, <1>8, <1>10 DEF IInv, TypeOK
<1>12. \A p \in Orgs : rows'[p].inst = rows[p].inst
  BY <1>10, <1>11
<1>13. TypeOK'
  BY <1>6, <1>11, AnswerOne DEF IInv, TypeOK
<1>14. /\ seen = rows[o] \/ rows[o].inst \in disturbed
       /\ seen.inst = i
       /\ i \notin disturbed => seen = rows[o]
  BY <1>1, <1>2, <1>3, <1>4 DEF Handler
<1>15. EventsKnown' /\ HandlersKnown' /\ WritersDisturb'
  <2>1. rows'[o].inst = requests[r].inst \/ rows'[o].inst \in disturbed
    BY <1>3, <1>12, <1>14
  <2> QED
    BY <1>1, <1>2, <1>6, <1>11, <1>13, <2>1, RowWritten DEF external
<1>16. BoundByOwnFlow'
  <2>1. ASSUME NEW p \in Orgs, rows'[p].inst # None PROVE NamedFor(p, rows[p].inst)'
    <3>1. NamedFor(p, rows'[p].inst)
      BY <1>12, <2>1 DEF IInv, BoundByOwnFlow
    <3> QED
      BY <1>6, <3>1 DEF NamedFor
  <2> QED
    BY <2>1 DEF BoundByOwnFlow
<1>17. SharersDisturb'
  BY <1>6, <1>12 DEF IInv, SharersDisturb
<1>18. /\ requests'[r].pc = "idle"
       /\ \A s \in Requests \ {r} : requests'[s] = requests[s]
  BY <1>6, AnswerOne DEF IInv, TypeOK
<1>19. \A j \in Installs \ {i} : (Quiet(j)' <=> Quiet(j)) /\ (Newest(j)' <=> Newest(j))
  <2>1. \A j \in Installs \ {i} : Quiet(j)' <=> Quiet(j)
    BY <1>1, <1>3, <1>6, <1>18 DEF Quiet
  <2>2. \A j \in Installs \ {i} : Newest(j)' <=> Newest(j)
    BY <1>1, <1>3, <1>6, <1>18 DEF Newest
  <2> QED BY <2>1, <2>2
<1>20. requests[r].n \in Nat /\ requests[r].n <= github[i].n /\ github[i].n \in Nat
  <2>1. requests[r].n \in 1..github[i].n
    BY <1>1, <1>3 DEF Handler, Truthful
  <2>2. github[i].n \in Nat
    BY InstallationAssumption DEF IInv, TypeOK
  <2> QED BY <2>1, <2>2
<1>21. ASSUME i \notin disturbed, requests[r].n = github[i].n
       PROVE  Quiet(i)'
  <2>1. \A e \in events : e.inst # i
    <3>1. ASSUME NEW e \in events, e.inst = i PROVE FALSE
      <4>1. e.n > requests[r].n
        BY <1>1, <1>3, <1>21, <3>1 DEF Handler
      <4>2. e.n \in 1..github[i].n
        BY <3>1 DEF IInv, EventsKnown, Truthful
      <4> QED BY <1>20, <1>21, <4>1, <4>2
    <3> QED BY <3>1
  <2>2. \A s \in Requests \ {r} : requests[s].pc = "event" => requests[s].inst # i
    BY <1>1, <1>3, <1>21, OneHandler
  <2> QED
    BY <1>6, <1>18, <2>1, <2>2 DEF Quiet
<1>22. ~Quiet(i)
  BY <1>1, <1>3 DEF Quiet
<1>23. NewestRemains'
  <2>1. ASSUME NEW j \in Installs, j \notin disturbed PROVE Quiet(j)' \/ Newest(j)'
    <3>1. CASE j # i
      BY <1>19, <2>1, <3>1 DEF IInv, NewestRemains
    <3>2. CASE j = i /\ requests[r].n = github[i].n
      BY <1>21, <2>1, <3>2
    <3>3. CASE j = i /\ requests[r].n # github[i].n
      <4>1. Newest(i)
        BY <1>22, <2>1, <3>3 DEF IInv, NewestRemains
      <4> QED
        BY <1>6, <1>18, <3>3, <4>1 DEF Newest
    <3> QED BY <3>1, <3>2, <3>3
  <2> QED
    BY <1>6, <2>1 DEF NewestRemains
<1>24. StatusFollowsGithub'
  <2>1. ASSUME NEW p \in Orgs, NEW j \in Installs, rows'[p].inst = j, j \notin disturbed', Quiet(j)'
        PROVE  rows'[p].status = github'[j].state
    <3>1. rows[p].inst = j /\ j \notin disturbed /\ j # None
      BY <1>6, <1>12, <2>1, InstallationAssumption
    <3>2. CASE p # o
      <4>1. j # i
        BY <1>14, <3>1, <3>2 DEF IInv, SharersDisturb
      <4>2. Quiet(j)
        BY <1>19, <2>1, <4>1
      <4> QED
        BY <1>6, <1>11, <3>1, <3>2, <4>2 DEF IInv, StatusFollowsGithub
    <3>3. CASE p = o
      <4>1. seen = rows[o] /\ j = i
        BY <1>14, <3>1, <3>3
      <4>2. Newest(i)
        BY <1>22, <3>1, <4>1 DEF IInv, NewestRemains
      <4>3. requests[r].n = github[i].n
        <5>1. \A e \in events : e.inst # i
          BY <1>6, <2>1, <4>1 DEF Quiet
        <5>2. \A s \in Requests \ {r} : requests[s].pc = "event" => requests[s].inst # i
          BY <1>6, <1>18, <2>1, <4>1 DEF Quiet
        <5> QED
          BY <4>2, <5>1, <5>2 DEF Newest
      <4>4. After[action] = github[i].state
        BY <1>1, <1>3, <1>5, <4>3 DEF Handler, Truthful
      <4> QED
        BY <1>6, <1>7, <1>10, <1>11, <3>3, <4>1, <4>4
    <3> QED BY <3>2, <3>3
  <2> QED
    BY <1>13, <2>1, StatusFrom
<1> QED
  BY <1>13, <1>15, <1>16, <1>17, <1>23, <1>24 DEF IInv

-----------------------------------------------------------------------------

LEMMA InitHolds == Init => IInv
<1> SUFFICES ASSUME Init PROVE IInv
  OBVIOUS
<1>1. TypeOK
  <2>1. NoRow \in Row
    BY DEF NoRow, Row
  <2>2. 0 \in 0..MaxEvents
    BY InstallationAssumption
  <2> QED
    BY <2>1, <2>2, IdleType DEF Init, TypeOK
<1>2. \A r \in Requests : requests[r].pc = "idle"
  BY DEF Init, Idle, Work
<1>3. \A o \in Orgs : rows[o].inst = None
  BY DEF Init, NoRow
<1>4. EventsKnown
  BY DEF Init, EventsKnown
<1>5. HandlersKnown /\ WritersDisturb
  BY <1>2 DEF HandlersKnown, WritersDisturb
<1>6. BoundByOwnFlow /\ StatusFollowsGithub /\ SharersDisturb
  BY <1>3 DEF BoundByOwnFlow, StatusFollowsGithub, SharersDisturb
<1>7. \A i \in Installs : Quiet(i)
  BY <1>2 DEF Init, Quiet
<1> QED
  BY <1>1, <1>4, <1>5, <1>6, <1>7 DEF IInv, NewestRemains

LEMMA NextKeeps == IInv /\ [Next]_vars => IInv'
<1> SUFFICES ASSUME IInv, [Next]_vars PROVE IInv'
  OBVIOUS
<1>1. CASE GithubStep
  BY <1>1, StartFlowKeeps, InstallKeeps, ChangeKeeps, LoseKeeps, RewriteCookieKeeps DEF GithubStep
<1>2. ASSUME NEW r \in Requests, HandlerStep(r) PROVE IInv'
  BY <1>2, CallbackKeeps, LoadRowKeeps, SaveInstallationKeeps, CallbackFailsKeeps,
     DeliverKeeps, ApplyKeeps, EventFailsKeeps DEF HandlerStep
<1>3. CASE UNCHANGED vars
  <2>1. UNCHANGED <<github, events, named, flows, cookie, rows, requests, disturbed>>
    BY <1>3 DEF vars, external
  <2>2. cookie' \in {f \in Flows : flows'[f] # None} \cup {None} /\ flows' \in [Flows -> Orgs \cup {None}]
    BY <2>1 DEF IInv, TypeOK
  <2> QED
    BY <2>1, <2>2, BrowserKeeps
<1> QED
  BY <1>1, <1>2, <1>3 DEF Next

\* The invariant is inductive.
THEOREM Inductive == Spec => []IInv
<1>1. Init => IInv
  BY InitHolds
<1>2. IInv /\ [Next]_vars => IInv'
  BY NextKeeps
<1> QED
  BY <1>1, <1>2, PTL DEF Spec

\* Rows, requests and events keep their types.
THEOREM TypeCorrect == Spec => []TypeOK
<1>1. IInv => TypeOK
  BY DEF IInv
<1> QED
  BY <1>1, Inductive, PTL

\* An organization has only an installation that a callback named together with
\* the state of a flow of its own.
THEOREM OnlyOwnFlows == Spec => []BoundByOwnFlow
<1>1. IInv => BoundByOwnFlow
  BY DEF IInv
<1> QED
  BY <1>1, Inductive, PTL

\* After the last event the status is GitHub's, but for a disturbed installation.
THEOREM StatusFollows == Spec => []StatusFollowsGithub
<1>1. IInv => StatusFollowsGithub
  BY DEF IInv
<1> QED
  BY <1>1, Inductive, PTL
=============================================================================
