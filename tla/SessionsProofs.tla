--------------------------- MODULE SessionsProofs ---------------------------
(* Theorems about Sessions for any people, organizations and requests.     *)
EXTENDS Sessions, TLAPS

\* The keys keep their types and owners.
KeysFine == keys \in [Tokens -> Key] /\ KeysOwned

\* A request is told apart from the others by Fields.
LEMMA FieldsOne ==
    ASSUME requests \in [Requests -> Request], NEW r \in Requests, NEW q \in Request, Fields(r, q)
    PROVE  /\ requests' \in [Requests -> Request]
           /\ requests'[r] = q
           /\ \A s \in Requests \ {r} : requests'[s] = requests[s]
  BY DEF Fields

\* A step of one request that leaves memberships alone keeps the invariant if the
\* request is fit afterwards.
LEMMA StepKeeps ==
    ASSUME IInv, NEW r \in Requests, NEW q \in Request, Fields(r, q), Fit(q, org),
           UNCHANGED <<users, org>>, KeysFine', issued' \subseteq Tokens
    PROVE  IInv'
<1>1. /\ requests' \in [Requests -> Request]
      /\ requests'[r] = q
      /\ \A s \in Requests \ {r} : requests'[s] = requests[s]
  BY FieldsOne DEF IInv, TypeOK
<1>2. TypeOK'
  BY <1>1 DEF IInv, TypeOK, KeysFine
<1>3. \A s \in Requests : Fit(requests[s], org)
  BY DEF IInv
<1>4. \A s \in Requests : Fit(requests'[s], org')
  BY <1>1, <1>3
<1> QED
  BY <1>2, <1>4 DEF IInv, KeysFine

\* An answered request is fit.
LEMMA IdleFit == Idle \in Request /\ \A at : Fit(Idle, at)
  BY DEF Idle, Request, Fit

\* Keys that do not change are fine.
LEMMA SameKeys == ASSUME IInv, UNCHANGED keys PROVE KeysFine'
  BY DEF IInv, TypeOK, KeysFine, KeysOwned, Live

\* The type of a request and what it knows.
LEMMA RequestForm ==
    ASSUME IInv, NEW r \in Requests
    PROVE  requests[r] \in Request /\ Fit(requests[r], org)
  BY DEF IInv, TypeOK

LEMMA RefuseKeeps ==
    ASSUME IInv, NEW r \in Requests, Refuse(r)
    PROVE  IInv'
<1>1. Fields(r, Idle) /\ UNCHANGED <<users, org, keys, issued>>
  BY DEF Refuse, Answer
<1> QED
  BY <1>1, StepKeeps, IdleFit, SameKeys DEF IInv, TypeOK

-----------------------------------------------------------------------------
(* What reads, DEL, EXPIRE and time do to the keys.                        *)

LEMMA GoneForm ==
    ASSUME NEW key \in Key
    PROVE  /\ Gone(key) \in Key /\ Gone(key).kind = "gone"
           /\ Gone(key).user = key.user /\ Gone(key).ttl = 0
<1>1. 0 \in 0..Ttl
  BY SessionAssumption
<1> QED
  BY <1>1 DEF Gone, Key

\* A key that ended keeps its owner.
LEMMA GoneFine ==
    ASSUME IInv, NEW t \in Tokens, Live(t), keys' = [keys EXCEPT ![t] = Gone(keys[t])]
    PROVE  KeysFine'
<1>1. keys \in [Tokens -> Key] /\ KeysOwned
  BY DEF IInv, TypeOK
<1>2. \A u \in Tokens \ {t} : keys'[u] = keys[u]
  BY <1>1
<1>3. keys'[t].kind = "gone" /\ keys'[t].ttl = 0 /\ keys'[t].user = keys[t].user
  BY <1>1, GoneForm
<1>4. Gone(keys[t]) \in Key
  BY <1>1, GoneForm
<1>5. keys' \in [Tokens -> Key]
  BY <1>1, <1>4
<1>6. \A u \in Tokens : /\ keys'[u].user = None <=> keys'[u].kind = "unused"
                        /\ keys'[u].ttl > 0 => keys'[u].kind \in {"hash", "string"}
  BY <1>1, <1>2, <1>3 DEF KeysOwned, Live
<1> QED
  BY <1>5, <1>6 DEF KeysFine, KeysOwned, Live

\* HGET changes nothing or evicts a key of the old type.
LEMMA ReadKeyOutcomes ==
    ASSUME NEW t \in Tokens, NEW read \in ReadKey(t)
    PROVE  /\ \/ read.keys = keys
              \/ keys[t].kind = "string" /\ read.keys = [keys EXCEPT ![t] = Gone(keys[t])]
           /\ read.found => keys[t].kind = "hash"
  BY DEF ReadKey

LEMMA ReadKeyFine ==
    ASSUME IInv, NEW t \in Tokens, NEW read \in ReadKey(t), keys' = read.keys
    PROVE  KeysFine'
<1>1. CASE read.keys = keys
  BY <1>1, SameKeys
<1>2. CASE keys[t].kind = "string" /\ read.keys = [keys EXCEPT ![t] = Gone(keys[t])]
  BY <1>2, GoneFine DEF Live
<1> QED
  BY <1>1, <1>2, ReadKeyOutcomes

-----------------------------------------------------------------------------
(* Logins.                                                                 *)

LEMMA ResolveKeeps ==
    ASSUME IInv, NEW r \in Requests, Resolve(r)
    PROVE  IInv'
<1>1. PICK p \in People, o \in Orgs \cup {None} :
        Fields(r, [Idle EXCEPT !.pc = "resolved", !.person = p, !.joins = o,
                               !.slug = IF o = None THEN org[p] ELSE o])
  BY DEF Resolve
<1> DEFINE q == [Idle EXCEPT !.pc = "resolved", !.person = p, !.joins = o,
                             !.slug = IF o = None THEN org[p] ELSE o]
<1>2. org[p] \in Orgs \cup {None}
  BY DEF IInv, TypeOK
<1>3. q \in Request /\ q.pc = "resolved" /\ q.person = p /\ q.todo = {}
  BY <1>2 DEF Idle, Request
<1>4. Fit(q, org)
  BY <1>3 DEF Fit
<1>5. UNCHANGED <<users, org, keys, issued>>
  BY DEF Resolve
<1> HIDE DEF q
<1>6. Fields(r, q)
  BY <1>1 DEF q
<1> QED
  BY <1>3, <1>4, <1>5, <1>6, StepKeeps, SameKeys DEF IInv, TypeOK

LEMMA CreateSessionKeeps ==
    ASSUME IInv, NEW r \in Requests, CreateSession(r)
    PROVE  IInv'
<1>1. PICK t \in Tokens :
        /\ keys[t].kind = "unused"
        /\ keys' = [keys EXCEPT ![t] = [kind |-> "hash", user |-> requests[r].person,
                                        slug |-> requests[r].slug, ttl |-> Ttl]]
        /\ Fields(r, [requests[r] EXCEPT !.pc = "created", !.token = t,
                                         !.todo = {"commit", "respond"}])
  BY DEF CreateSession
<1> DEFINE q == [requests[r] EXCEPT !.pc = "created", !.token = t,
                                    !.todo = {"commit", "respond"}]
           k == [kind |-> "hash", user |-> requests[r].person,
                 slug |-> requests[r].slug, ttl |-> Ttl]
<1>2. requests[r] \in Request /\ Fit(requests[r], org) /\ requests[r].pc = "resolved"
  BY RequestForm DEF CreateSession
<1>3. requests[r].person \in People /\ requests[r].person # None
  BY <1>2, SessionAssumption DEF Fit
<1>4. q \in Request /\ q.pc = "created" /\ q.token = t /\ q.person = requests[r].person
  BY <1>2 DEF Request
<1>5. Fit(q, org)
  BY <1>3, <1>4 DEF Fit
<1>6. k \in Key
  BY <1>2, <1>3, SessionAssumption DEF Key, Request
<1>7. keys \in [Tokens -> Key] /\ KeysOwned
  BY DEF IInv, TypeOK
<1>8. keys' \in [Tokens -> Key] /\ keys'[t] = k /\ \A u \in Tokens \ {t} : keys'[u] = keys[u]
  BY <1>1, <1>6, <1>7
<1>9. k.kind = "hash" /\ k.user # None
  BY <1>3
<1>10. \A u \in Tokens : /\ keys'[u].user = None <=> keys'[u].kind = "unused"
                         /\ keys'[u].ttl > 0 => keys'[u].kind \in {"hash", "string"}
  BY <1>7, <1>8, <1>9 DEF KeysOwned, Live
<1>11. KeysFine'
  BY <1>8, <1>10 DEF KeysFine, KeysOwned, Live
<1>12. UNCHANGED <<users, org, issued>>
  BY DEF CreateSession
<1> HIDE DEF q
<1>13. Fields(r, q)
  BY <1>1 DEF q
<1> QED
  BY <1>4, <1>5, <1>11, <1>12, <1>13, StepKeeps DEF IInv, TypeOK

\* A login with one thing less to do is fit, whatever the memberships.
LEMMA DidFit ==
    ASSUME IInv, NEW r \in Requests, requests[r].pc = "created", NEW thing
    PROVE  Did(r, thing) \in Request /\ \A at : Fit(Did(r, thing), at)
<1>1. requests[r] \in Request /\ Fit(requests[r], org)
  BY RequestForm
<1>2. CASE requests[r].todo = {thing}
  BY <1>2, IdleFit DEF Did
<1>3. CASE requests[r].todo # {thing}
  <2> DEFINE q == [requests[r] EXCEPT !.todo = @ \ {thing}]
  <2>1. q \in Request /\ q.pc = "created" /\ q.person = requests[r].person
          /\ q.token = requests[r].token
    BY <1>1 DEF Request
  <2>2. requests[r].person \in People /\ requests[r].token \in Tokens
    BY <1>1 DEF Fit
  <2>3. \A at : Fit(q, at)
    BY <2>1, <2>2 DEF Fit
  <2> QED
    BY <1>3, <2>1, <2>3 DEF Did
<1> QED
  BY <1>2, <1>3

LEMMA RespondKeeps ==
    ASSUME IInv, NEW r \in Requests, Respond(r)
    PROVE  IInv'
<1>1. requests[r] \in Request /\ Fit(requests[r], org) /\ requests[r].todo # {}
  BY RequestForm DEF Respond
<1>2. requests[r].pc = "created" /\ requests[r].token \in Tokens
  BY <1>1 DEF Fit
<1>3. Did(r, "respond") \in Request /\ Fit(Did(r, "respond"), org)
  BY <1>2, DidFit
<1>4. /\ Fields(r, Did(r, "respond"))
      /\ issued' = issued \cup {requests[r].token}
      /\ UNCHANGED <<users, org, keys>>
  BY DEF Respond
<1>5. issued' \subseteq Tokens
  BY <1>2, <1>4 DEF IInv, TypeOK
<1> QED
  BY <1>3, <1>4, <1>5, StepKeeps, SameKeys

\* A commit makes a member; the requests that run for that user learn it.
LEMMA CommitKeeps ==
    ASSUME IInv, NEW r \in Requests, Commit(r)
    PROVE  IInv'
<1> DEFINE p == requests[r].person
           o == requests[r].joins
           Reached(q) == o # None /\ requests[q].person = p
                           /\ requests[q].pc \in {"known", "member", "served"}
<1>1. requests[r] \in Request /\ Fit(requests[r], org) /\ requests[r].todo # {}
  BY RequestForm DEF Commit
<1>2. requests[r].pc = "created" /\ p \in People /\ o \in Orgs \cup {None}
  BY <1>1 DEF Fit, Request
<1>3. Did(r, "commit") \in Request /\ \A at : Fit(Did(r, "commit"), at)
  BY <1>2, DidFit
<1>4. /\ users' = users \cup {p}
      /\ org' = IF o = None THEN org ELSE [org EXCEPT ![p] = o]
      /\ requests' = [q \in Requests |->
            IF q = r THEN Did(r, "commit")
            ELSE IF Reached(q) THEN [requests[q] EXCEPT !.since = @ \cup {o}]
            ELSE requests[q]]
      /\ UNCHANGED <<keys, issued>>
  BY DEF Commit
<1>5. users' \subseteq People /\ org' \in [People -> Orgs \cup {None}]
  BY <1>2, <1>4 DEF IInv, TypeOK
<1>6. ASSUME NEW q \in Requests
      PROVE  requests'[q] \in Request /\ Fit(requests'[q], org')
  <2>1. requests[q] \in Request /\ Fit(requests[q], org)
    BY RequestForm
  <2>2. CASE q = r
    BY <1>3, <1>4, <2>2
  <2>3. CASE q # r /\ Reached(q)
    <3> DEFINE n == [requests[q] EXCEPT !.since = @ \cup {o}]
    <3>1. requests'[q] = n
      BY <1>4, <2>3
    <3>2. n \in Request
      BY <1>2, <2>1, <2>3 DEF Request
    <3>3. /\ n.pc = requests[q].pc /\ n.person = p /\ n.token = requests[q].token
          /\ n.todo = requests[q].todo /\ Used(n) = Used(requests[q])
          /\ n.since = requests[q].since \cup {o}
      BY <2>1, <2>3 DEF Request, Used
    <3>4. org'[p] = o
      BY <1>2, <1>4, <2>3 DEF IInv, TypeOK
    <3>5. Fit(n, org')
      BY <1>2, <2>1, <2>3, <3>3, <3>4 DEF Fit
    <3> QED
      BY <3>1, <3>2, <3>5
  <2>4. CASE q # r /\ ~Reached(q)
    <3>1. requests'[q] = requests[q]
      BY <1>4, <2>4
    <3>2. requests[q].pc \in {"known", "member", "served"} =>
             org'[requests[q].person] = org[requests[q].person]
      BY <1>2, <1>4, <2>1, <2>4 DEF Fit, IInv, TypeOK
    <3> QED
      BY <2>1, <3>1, <3>2 DEF Fit
  <2> QED
    BY <2>2, <2>3, <2>4
<1>7. requests' \in [Requests -> Request]
  BY <1>4, <1>6
<1>8. KeysFine'
  BY <1>4, SameKeys
<1> QED
  BY <1>4, <1>5, <1>6, <1>7, <1>8 DEF IInv, TypeOK, KeysFine

-----------------------------------------------------------------------------
(* Requests with a session.                                                *)

LEMMA SendKeeps ==
    ASSUME IInv, NEW r \in Requests, Send(r)
    PROVE  IInv'
<1>0. PICK t \in issued, goal \in {"page", "landing", "logout"}, o \in Orgs \cup {None} :
        \E read \in ReadKey(t) :
        /\ keys' = read.keys
        /\ Fields(r, [Idle EXCEPT !.pc = "sent", !.goal = goal, !.token = t, !.target = o,
                                  !.slug = IF read.found THEN keys[t].slug ELSE None])
  BY DEF Send
<1>1. PICK read \in ReadKey(t) :
        /\ keys' = read.keys
        /\ Fields(r, [Idle EXCEPT !.pc = "sent", !.goal = goal, !.token = t, !.target = o,
                                  !.slug = IF read.found THEN keys[t].slug ELSE None])
  BY <1>0
<1> DEFINE q == [Idle EXCEPT !.pc = "sent", !.goal = goal, !.token = t, !.target = o,
                             !.slug = IF read.found THEN keys[t].slug ELSE None]
<1>2. t \in Tokens /\ keys[t].slug \in Orgs \cup {None}
  BY DEF IInv, TypeOK, Key
<1>3. q \in Request /\ q.pc = "sent" /\ q.token = t /\ q.todo = {}
  BY <1>2 DEF Idle, Request
<1>4. Fit(q, org)
  BY <1>2, <1>3 DEF Fit
<1>5. KeysFine'
  BY <1>1, <1>2, ReadKeyFine
<1>6. UNCHANGED <<users, org, issued>>
  BY DEF Send
<1> HIDE DEF q
<1>7. Fields(r, q)
  BY <1>1 DEF q
<1> QED
  BY <1>3, <1>4, <1>5, <1>6, <1>7, StepKeeps DEF IInv, TypeOK

LEMMA ReadSessionKeeps ==
    ASSUME IInv, NEW r \in Requests, ReadSession(r)
    PROVE  IInv'
<1> DEFINE t == requests[r].token
           p == keys[t].user
           q == [requests[r] EXCEPT !.pc = "known", !.person = p, !.since = {org[p]} \ {None}]
<1>1. requests[r] \in Request /\ Fit(requests[r], org) /\ requests[r].pc = "sent"
  BY RequestForm DEF ReadSession
<1>2. t \in Tokens /\ requests[r].todo = {}
  BY <1>1 DEF Fit
<1>3. PICK read \in ReadKey(t) :
        /\ keys' = read.keys
        /\ IF read.found THEN Fields(r, q) ELSE Answer(r)
  BY DEF ReadSession
<1>4. KeysFine' /\ issued' \subseteq Tokens /\ UNCHANGED <<users, org>>
  BY <1>2, <1>3, ReadKeyFine DEF ReadSession, IInv, TypeOK
<1>5. CASE read.found
  <2>1. keys[t].kind = "hash"
    BY <1>2, <1>5, ReadKeyOutcomes
  <2>2. keys[t] \in Key /\ KeysOwned
    BY <1>2 DEF IInv, TypeOK
  <2>3. p \in People
    BY <1>2, <2>1, <2>2 DEF KeysOwned, Key
  <2>4. org[p] \in Orgs \cup {None}
    BY <2>3 DEF IInv, TypeOK
  <2>5. /\ q \in Request /\ q.pc = "known" /\ q.person = p /\ q.token = t
        /\ q.todo = {} /\ q.since = {org[p]} \ {None}
    BY <1>1, <1>2, <2>3, <2>4 DEF Request
  <2>6. Fit(q, org)
    BY <1>2, <2>3, <2>5 DEF Fit
  <2> QED
    BY <1>3, <1>4, <1>5, <2>5, <2>6, StepKeeps
<1>6. CASE ~read.found
  BY <1>3, <1>4, <1>6, StepKeeps, IdleFit DEF Answer
<1> QED
  BY <1>5, <1>6

\* The membership or the user that was found stands for an organization of the
\* user at this moment.
LEMMA ReadDatabaseKeeps ==
    ASSUME IInv, NEW r \in Requests, ReadUser(r) \/ ReadMembership(r)
    PROVE  IInv'
<1> DEFINE p == requests[r].person
<1>1. requests[r] \in Request /\ Fit(requests[r], org) /\ requests[r].pc = "known"
  BY RequestForm DEF ReadUser, ReadMembership
<1>2. /\ p \in People /\ requests[r].token \in Tokens /\ requests[r].todo = {}
      /\ org[p] # None => org[p] \in requests[r].since
  BY <1>1 DEF Fit
<1>3. org[p] \in Orgs \cup {None}
  BY <1>2 DEF IInv, TypeOK
<1>4. UNCHANGED <<users, org, keys, issued>>
  BY DEF ReadUser, ReadMembership
<1>5. CASE ReadUser(r)
  <2> DEFINE q == [requests[r] EXCEPT !.pc = "member", !.slug = org[p]]
  <2>1. Fields(r, q) /\ requests[r].goal = "landing"
    BY <1>5 DEF ReadUser
  <2>2. /\ q \in Request /\ q.pc = "member" /\ q.person = p /\ Used(q) = org[p]
        /\ q.token = requests[r].token /\ q.todo = requests[r].todo
        /\ q.since = requests[r].since
    BY <1>1, <1>3, <2>1 DEF Request, Used
  <2>3. Fit(q, org)
    BY <1>2, <2>2 DEF Fit
  <2> QED
    BY <1>4, <2>1, <2>2, <2>3, StepKeeps, SameKeys DEF IInv, TypeOK
<1>6. CASE ReadMembership(r)
  <2> DEFINE q == [requests[r] EXCEPT !.pc = "member"]
  <2>1. Fields(r, q) /\ requests[r].goal = "page" /\ requests[r].target = org[p]
    BY <1>6 DEF ReadMembership
  <2>2. /\ q \in Request /\ q.pc = "member" /\ q.person = p /\ Used(q) = org[p]
        /\ q.token = requests[r].token /\ q.todo = requests[r].todo
        /\ q.since = requests[r].since
    BY <1>1, <2>1 DEF Request, Used
  <2>3. Fit(q, org)
    BY <1>2, <2>2 DEF Fit
  <2> QED
    BY <1>4, <2>1, <2>2, <2>3, StepKeeps, SameKeys DEF IInv, TypeOK
<1> QED
  BY <1>5, <1>6

LEMMA ExtendKeeps ==
    ASSUME IInv, NEW r \in Requests, Extend(r)
    PROVE  IInv'
<1> DEFINE t == requests[r].token
           q == Served(r)
<1>1. requests[r] \in Request /\ Fit(requests[r], org) /\ requests[r].pc = "member"
  BY RequestForm DEF Extend
<1>2. /\ q \in Request /\ q.pc = "served" /\ q.person = requests[r].person
      /\ Used(q) = Used(requests[r]) /\ q.token = t /\ q.todo = requests[r].todo
      /\ q.since = requests[r].since
  BY <1>1 DEF Served, Request, Used
<1>3. Fit(q, org) /\ t \in Tokens
  BY <1>1, <1>2 DEF Fit
<1>4. keys \in [Tokens -> Key] /\ KeysOwned
  BY DEF IInv, TypeOK
<1>5. keys' = IF Live(t) THEN [keys EXCEPT ![t].ttl = Ttl] ELSE keys
  BY DEF Extend
<1>6. KeysFine'
  <2>1. CASE Live(t)
    <3>1. [keys[t] EXCEPT !.ttl = Ttl] \in Key
      BY <1>3, <1>4, SessionAssumption DEF Key
    <3>2. keys' \in [Tokens -> Key]
      BY <1>4, <1>5, <2>1, <3>1
    <3>3. \A u \in Tokens : /\ keys'[u].user = keys[u].user /\ keys'[u].kind = keys[u].kind
                            /\ u # t => keys'[u].ttl = keys[u].ttl
      BY <1>3, <1>4, <1>5, <2>1 DEF Key
    <3>4. \A u \in Tokens : /\ keys'[u].user = None <=> keys'[u].kind = "unused"
                            /\ keys'[u].ttl > 0 => keys'[u].kind \in {"hash", "string"}
      BY <1>4, <2>1, <3>3 DEF KeysOwned, Live
    <3> QED
      BY <3>2, <3>4 DEF KeysFine, KeysOwned, Live
  <2>2. CASE ~Live(t)
    BY <1>5, <2>2, SameKeys
  <2> QED
    BY <2>1, <2>2
<1>7. Fields(r, q) /\ UNCHANGED <<users, org, issued>>
  BY DEF Extend
<1> QED
  BY <1>2, <1>3, <1>6, <1>7, StepKeeps DEF IInv, TypeOK

LEMMA LogoutKeeps ==
    ASSUME IInv, NEW r \in Requests, Logout(r)
    PROVE  IInv'
<1> DEFINE t == requests[r].token
<1>1. t \in Tokens
  BY RequestForm DEF Logout, Fit
<1>2. keys' = IF Live(t) THEN [keys EXCEPT ![t] = Gone(keys[t])] ELSE keys
  BY DEF Logout
<1>3. KeysFine'
  BY <1>1, <1>2, GoneFine, SameKeys
<1>4. Fields(r, Idle) /\ UNCHANGED <<users, org, issued>>
  BY DEF Logout, Answer
<1> QED
  BY <1>3, <1>4, StepKeeps, IdleFit DEF IInv, TypeOK

-----------------------------------------------------------------------------

\* A removal takes an organization away; since does not get smaller.
LEMMA RemoveMemberKeeps ==
    ASSUME IInv, NEW p \in People, RemoveMember(p)
    PROVE  IInv'
<1>1. /\ org' = [org EXCEPT ![p] = None]
      /\ UNCHANGED <<users, keys, issued, requests>>
  BY DEF RemoveMember
<1>2. TypeOK'
  BY <1>1 DEF IInv, TypeOK
<1>3. ASSUME NEW r \in Requests
      PROVE  Fit(requests'[r], org')
  <2>1. Fit(requests[r], org)
    BY RequestForm
  <2>2. requests[r].pc \in {"known", "member", "served"} /\ org'[requests[r].person] # None =>
           org'[requests[r].person] = org[requests[r].person]
    BY <1>1, <2>1 DEF Fit, IInv, TypeOK
  <2> QED
    BY <1>1, <2>1, <2>2 DEF Fit
<1>4. KeysFine'
  BY <1>1, SameKeys
<1> QED
  BY <1>2, <1>3, <1>4 DEF IInv, KeysFine

\* What time makes of each key.
LEMMA TickEach ==
    ASSUME IInv, Tick, NEW t \in Tokens
    PROVE  \/ keys'[t] = keys[t]
           \/ keys[t].ttl = 1 /\ keys'[t] = Gone(keys[t])
           \/ keys[t].ttl > 1 /\ keys'[t] = [keys[t] EXCEPT !.ttl = @ - 1]
<1>1. keys[t].ttl \in 0..Ttl
  BY DEF IInv, TypeOK, Key
<1> QED
  BY <1>1, SessionAssumption DEF Tick

LEMMA TickKeeps == ASSUME IInv, Tick PROVE IInv'
<1>1. keys \in [Tokens -> Key] /\ KeysOwned
  BY DEF IInv, TypeOK
<1>2. ASSUME NEW t \in Tokens
      PROVE  /\ keys'[t] \in Key
             /\ keys'[t].user = None <=> keys'[t].kind = "unused"
             /\ keys'[t].ttl > 0 => keys'[t].kind \in {"hash", "string"}
  <2>1. /\ keys[t] \in Key /\ keys[t].ttl \in Nat
        /\ keys[t].user = None <=> keys[t].kind = "unused"
        /\ keys[t].ttl > 0 => keys[t].kind \in {"hash", "string"}
    BY <1>1, SessionAssumption DEF KeysOwned, Live, Key
  <2>2. CASE keys'[t] = keys[t]
    BY <2>1, <2>2
  <2>3. CASE keys[t].ttl = 1 /\ keys'[t] = Gone(keys[t])
    <3>1. Gone(keys[t]) \in Key
      BY <2>1, GoneForm
    <3>2. keys'[t].kind = "gone" /\ keys'[t].user = keys[t].user /\ keys'[t].ttl = 0
      BY <2>1, <2>3, GoneForm
    <3> QED
      BY <2>1, <2>3, <3>1, <3>2
  <2>4. CASE keys[t].ttl > 1 /\ keys'[t] = [keys[t] EXCEPT !.ttl = @ - 1]
    <3>1. keys'[t].kind = keys[t].kind /\ keys'[t].user = keys[t].user
      BY <2>1, <2>4 DEF Key
    <3>2. keys[t].ttl - 1 \in 0..Ttl
      BY <2>1, <2>4, SessionAssumption DEF Key
    <3>3. keys'[t] \in Key
      BY <2>1, <2>4, <3>2 DEF Key
    <3>4. keys[t].ttl > 0
      BY <2>1, <2>4
    <3> QED
      BY <2>1, <3>1, <3>3, <3>4
  <2> QED
    BY <2>2, <2>3, <2>4, TickEach
<1>3. keys' \in [Tokens -> Key]
  <2>1. DOMAIN keys' = Tokens /\ keys' = [t \in Tokens |-> keys'[t]]
    BY DEF Tick
  <2> QED
    BY <1>2, <2>1
<1>4. KeysOwned'
  BY <1>2 DEF KeysOwned, Live
<1>5. UNCHANGED <<users, org, issued, requests>>
  BY DEF Tick
<1>6. \A r \in Requests : Fit(requests'[r], org')
  BY <1>5 DEF IInv
<1> QED
  BY <1>3, <1>4, <1>5, <1>6 DEF IInv, TypeOK

LEMMA InitHolds == Init => IInv
<1> SUFFICES ASSUME Init PROVE IInv
  OBVIOUS
<1>1. \A t \in Tokens : /\ keys[t] \in Key
                        /\ keys[t].user = None <=> keys[t].kind = "unused"
                        /\ keys[t].ttl > 0 => Live(t)
  BY SessionAssumption DEF Init, Unused, Key, Live
<1>2. keys \in [Tokens -> Key]
  BY <1>1 DEF Init
<1>3. TypeOK
  BY <1>2, IdleFit DEF Init, TypeOK
<1>4. \A r \in Requests : Fit(requests[r], org)
  BY IdleFit DEF Init
<1> QED
  BY <1>1, <1>3, <1>4 DEF IInv, KeysOwned

LEMMA NextKeeps == ASSUME IInv, [Next]_vars PROVE IInv'
<1>1. ASSUME NEW r \in Requests, LoginStep(r)
      PROVE  IInv'
  BY <1>1, ResolveKeeps, CreateSessionKeeps, CommitKeeps, RespondKeeps, RefuseKeeps
     DEF LoginStep, LoginFails
<1>2. ASSUME NEW r \in Requests, PageStep(r)
      PROVE  IInv'
  BY <1>2, SendKeeps, ReadSessionKeeps, ReadDatabaseKeeps, ExtendKeeps, LogoutKeeps, RefuseKeeps
     DEF PageStep, Unauthorized, Finish, RequestFails
<1>3. CASE UNCHANGED vars
  <2>1. KeysFine'
    BY <1>3, SameKeys DEF vars
  <2> QED
    BY <1>3, <2>1 DEF IInv, TypeOK, KeysFine, vars
<1> QED
  BY <1>1, <1>2, <1>3, RemoveMemberKeeps, TickKeeps DEF Next

\* The inductive invariant.
THEOREM Inductive == Spec => []IInv
BY InitHolds, NextKeeps, PTL DEF Spec

\* Type correctness of the sessions, users and requests.
THEOREM TypeCorrect == Spec => []TypeOK
<1>1. IInv => TypeOK
  BY DEF IInv
<1> QED
  BY <1>1, Inductive, PTL

\* A page shows, and the landing page leads to, only an organization that the
\* session's user has been a member of since the session was read.
THEOREM MembersOnly == Spec => []ActsAsMember
<1>1. IInv => ActsAsMember
  BY DEF IInv, Fit, ActsAsMember
<1> QED
  BY <1>1, Inductive, PTL

-----------------------------------------------------------------------------
(* Sessions implement SessionLife.                                         *)

\* The life of one token.
LEMMA LifeOf ==
    ASSUME NEW t \in Tokens
    PROVE  /\ life[t] = IF keys[t].kind = "unused" THEN "unused"
                        ELSE IF keys[t].kind = "gone" THEN "ended" ELSE "live"
           /\ owner[t] = keys[t].user
  BY DEF life, owner

LEMMA InitMaps == Init => Life!Init
<1> SUFFICES ASSUME Init PROVE Life!Init
  OBVIOUS
<1>1. \A t \in Tokens : \/ keys[t] = Unused
                        \/ keys[t].kind = "string" /\ keys[t].user \in People
  BY DEF Init
<1>2. ASSUME NEW t \in Tokens
      PROVE  /\ life[t] \in {"unused", "live"} /\ owner[t] \in People \cup {None}
             /\ owner[t] = None <=> life[t] = "unused"
  <2>1. CASE keys[t] = Unused
    BY <2>1, LifeOf DEF Unused
  <2>2. CASE keys[t].kind = "string" /\ keys[t].user \in People
    BY <2>2, LifeOf, SessionAssumption
  <2> QED
    BY <1>1, <2>1, <2>2
<1>3. life \in [Tokens -> {"unused", "live"}] /\ owner \in [Tokens -> People \cup {None}]
  <2>1. life = [t \in Tokens |-> life[t]] /\ owner = [t \in Tokens |-> owner[t]]
    BY DEF life, owner
  <2> QED
    BY <1>2, <2>1
<1> QED
  BY <1>2, <1>3 DEF Life!Init

\* Steps that leave the kinds and users of the keys alone.
LEMMA SameLife ==
    ASSUME \A t \in Tokens : keys'[t].kind = keys[t].kind /\ keys'[t].user = keys[t].user
    PROVE  UNCHANGED <<life, owner>>
  BY DEF life, owner

\* The keys of the tokens in over end, and no other changes.
LEMMA EndMaps ==
    ASSUME IInv, NEW over \in SUBSET Tokens,
           \A t \in over : Live(t) /\ keys'[t] = Gone(keys[t]),
           \A t \in Tokens \ over : keys'[t].kind = keys[t].kind /\ keys'[t].user = keys[t].user
    PROVE  Life!Next
<1>1. \A t \in over : keys'[t].kind = "gone" /\ keys'[t].user = keys[t].user
  BY GoneForm DEF IInv, TypeOK
<1>2. owner' = owner
  BY <1>1 DEF owner
<1>3. \A t \in over : life[t] = "live"
  BY LifeOf DEF Live
<1>4. life' = [t \in Tokens |-> IF t \in over THEN "ended" ELSE life[t]]
  BY <1>1 DEF life
<1>5. Life!End(over)
  BY <1>2, <1>3, <1>4 DEF Life!End
<1> QED
  BY <1>5 DEF Life!Next

LEMMA GoneMaps ==
    ASSUME IInv, NEW t \in Tokens, Live(t), keys' = [keys EXCEPT ![t] = Gone(keys[t])]
    PROVE  Life!Next
<1>1. keys'[t] = Gone(keys[t]) /\ \A u \in Tokens \ {t} : keys'[u] = keys[u]
  BY DEF IInv, TypeOK
<1> QED
  BY <1>1, EndMaps

LEMMA ReadMaps ==
    ASSUME IInv, NEW t \in Tokens, NEW read \in ReadKey(t), keys' = read.keys
    PROVE  Life!Next \/ UNCHANGED <<life, owner>>
<1>1. CASE read.keys = keys
  BY <1>1, SameLife
<1>2. CASE keys[t].kind = "string" /\ read.keys = [keys EXCEPT ![t] = Gone(keys[t])]
  BY <1>2, GoneMaps DEF Live
<1> QED
  BY <1>1, <1>2, ReadKeyOutcomes

LEMMA CreateMaps ==
    ASSUME IInv, NEW r \in Requests, CreateSession(r)
    PROVE  Life!Next
<1>1. PICK t \in Tokens :
        /\ keys[t].kind = "unused"
        /\ keys' = [keys EXCEPT ![t] = [kind |-> "hash", user |-> requests[r].person,
                                        slug |-> requests[r].slug, ttl |-> Ttl]]
  BY DEF CreateSession
<1>2. requests[r].person \in People
  BY RequestForm DEF CreateSession, Fit
<1>3. /\ keys'[t].kind = "hash" /\ keys'[t].user = requests[r].person
      /\ \A u \in Tokens \ {t} : keys'[u] = keys[u]
  BY <1>1 DEF IInv, TypeOK
<1>4. life[t] = "unused"
  BY <1>1, LifeOf
<1>5. life' = [life EXCEPT ![t] = "live"]
  BY <1>3 DEF life
<1>6. owner' = [owner EXCEPT ![t] = requests[r].person]
  BY <1>3 DEF owner
<1>7. Life!Begin(t, requests[r].person)
  BY <1>4, <1>5, <1>6 DEF Life!Begin
<1> QED
  BY <1>2, <1>7 DEF Life!Next

LEMMA ExtendMaps ==
    ASSUME IInv, NEW r \in Requests, Extend(r)
    PROVE  UNCHANGED <<life, owner>>
<1>1. \A t \in Tokens : keys'[t].kind = keys[t].kind /\ keys'[t].user = keys[t].user
  BY DEF Extend, IInv, TypeOK, Key
<1> QED
  BY <1>1, SameLife

LEMMA TickMaps == ASSUME IInv, Tick PROVE Life!Next \/ UNCHANGED <<life, owner>>
<1> DEFINE over == {t \in Tokens : keys[t].ttl = 1}
<1>1. \A t \in Tokens : keys[t] \in Key
  BY DEF IInv, TypeOK
<1>2. \A t \in over : Live(t) /\ keys'[t] = Gone(keys[t])
  BY DEF IInv, KeysOwned, Tick
<1>3. ASSUME NEW t \in Tokens \ over
      PROVE  keys'[t].kind = keys[t].kind /\ keys'[t].user = keys[t].user
  <2>1. keys'[t] = keys[t] \/ keys'[t] = [keys[t] EXCEPT !.ttl = @ - 1]
    BY TickEach
  <2> QED
    BY <1>1, <2>1 DEF Key
<1> HIDE DEF over
<1>4. over \in SUBSET Tokens
  BY DEF over
<1> QED
  BY <1>2, <1>3, <1>4, EndMaps

LEMMA StepMaps ==
    ASSUME IInv, [Next]_vars
    PROVE  Life!Next \/ UNCHANGED <<life, owner>>
<1>1. ASSUME UNCHANGED keys
      PROVE  UNCHANGED <<life, owner>>
  BY <1>1, SameLife
<1>2. ASSUME NEW r \in Requests, LoginStep(r)
      PROVE  Life!Next \/ UNCHANGED <<life, owner>>
  <2>1. CASE CreateSession(r)
    BY <2>1, CreateMaps
  <2>2. CASE Resolve(r) \/ Commit(r) \/ Respond(r) \/ LoginFails(r)
    BY <1>1, <2>2 DEF Resolve, Commit, Respond, LoginFails, Refuse
  <2> QED
    BY <1>2, <2>1, <2>2 DEF LoginStep
<1>3. ASSUME NEW r \in Requests, PageStep(r)
      PROVE  Life!Next \/ UNCHANGED <<life, owner>>
  <2>1. CASE Send(r)
    <3>1. PICK t \in issued : \E read \in ReadKey(t) : keys' = read.keys
      BY <2>1 DEF Send
    <3>2. PICK read \in ReadKey(t) : keys' = read.keys
      BY <3>1
    <3>3. t \in Tokens
      BY DEF IInv, TypeOK
    <3> QED
      BY <3>2, <3>3, ReadMaps
  <2>2. CASE ReadSession(r)
    <3>1. requests[r].token \in Tokens
      BY <2>2, RequestForm DEF ReadSession, Fit
    <3>2. PICK read \in ReadKey(requests[r].token) : keys' = read.keys
      BY <2>2 DEF ReadSession
    <3> QED
      BY <3>1, <3>2, ReadMaps
  <2>3. CASE Logout(r)
    <3>1. requests[r].token \in Tokens
      BY <2>3, RequestForm DEF Logout, Fit
    <3> QED
      BY <1>1, <2>3, <3>1, GoneMaps DEF Logout
  <2>4. CASE Extend(r)
    BY <2>4, ExtendMaps
  <2>5. CASE \/ ReadUser(r) \/ ReadMembership(r) \/ Unauthorized(r)
             \/ Finish(r) \/ RequestFails(r)
    BY <1>1, <2>5 DEF ReadUser, ReadMembership, Unauthorized, Finish, RequestFails, Refuse
  <2> QED
    BY <1>3, <2>1, <2>2, <2>3, <2>4, <2>5 DEF PageStep
<1>4. ASSUME NEW p \in People, RemoveMember(p)
      PROVE  UNCHANGED <<life, owner>>
  BY <1>1, <1>4 DEF RemoveMember
<1>5. CASE UNCHANGED vars
  BY <1>1, <1>5 DEF vars
<1> QED
  BY <1>2, <1>3, <1>4, <1>5, TickMaps DEF Next

\* Whatever logins, pages, logouts, failures of Redis and time do in what order,
\* a session is issued once, to one user, and does not come back once it ended.
THEOREM SessionsImplementLife == Spec => ImplementsSessionLife
<1>1. IInv /\ [Next]_vars => [Life!Next]_<<life, owner>>
  BY StepMaps
<1> QED
  BY <1>1, InitMaps, Inductive, PTL DEF Spec, ImplementsSessionLife, Life!Spec
=============================================================================
